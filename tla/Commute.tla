-------------------------------- MODULE Commute --------------------------------
(* packages/core/src/commute/commute.ts: who reaches a pickup in time, whose   *)
(* route passes a place, and the conflict radar.  Commutes and buffers are     *)
(* minutes; distances are whole kilometres, Null when either end has no coor-  *)
(* dinates (the trigonometry of distanceKm is left out).                       *)
EXTENDS CoreTime, SequencesExt

\* Who can be there: unknown commutes and departure times rule nobody out.
Reaches(m, trip) ==
    /\ m.active
    /\ trip.driving => m.drives
    /\ m.commute # Null /\ trip.leaveAt # Null =>
          m.commute + trip.buffer <= DiffMinutes(trip.pickupAt, trip.leaveAt)

FilterByCommute(members, trip) ==
    LET able == {i \in DOMAIN members : Reaches(members[i], trip)}
    IN  [feasible |-> Kept(members, able), infeasible |-> Kept(members, DOMAIN members \ able)]

SynergyScore(m, onRouteKm) ==
    CASE m.km # Null -> (IF m.km <= onRouteKm THEN 100 ELSE 0) + Max({0, 50 - m.km})
      [] m.km = Null /\ m.commute # Null -> Max({0, 30 - m.commute})
      [] OTHER -> 0

\* Drivers only, whether the caller asks for a driver or not.
NearerBy(m, n, onRouteKm) ==
    \/ SynergyScore(m, onRouteKm) > SynergyScore(n, onRouteKm)
    \/ (SynergyScore(m, onRouteKm) = SynergyScore(n, onRouteKm) /\ m.id < n.id)

RankBySynergy(members, onRouteKm) ==
    LET S == {m \in ToSet(members) : m.active /\ m.role # "DEPENDENT" /\ m.drives}
    IN  SortedBy(S, {p \in S \X S : NearerBy(p[1], p[2], onRouteKm)})

AssignByRouteSynergy(members, onRouteKm) ==
    LET ranked == RankBySynergy(members, onRouteKm)
    IN  IF ranked = <<>> THEN Null ELSE ranked[1].id

-----------------------------------------------------------------------------
(* The conflict radar.  A commitment has a task (or Null), a member, an        *)
(* interval and whether it needs a driver; commitments come as a sequence.     *)

DrivingMembers(members) ==
    {m \in ToSet(members) : m.active /\ m.drives /\ m.role # "DEPENDENT"}

SoleDriver(c) ==
    [type |-> "SOLE_DRIVER", severity |-> "HIGH", from |-> c.from, to |-> c.to, task |-> c.task]

RippleShift(a, b) ==
    [type |-> "RIPPLE_SHIFT", severity |-> "HIGH", from |-> b.from, to |-> a.to, task |-> b.task]

BufferSqueeze(a, b) ==
    [type |-> "BUFFER_SQUEEZE", severity |-> IF DiffMinutes(b.from, a.to) <= 5 THEN "MEDIUM" ELSE "LOW",
     from |-> a.to, to |-> b.from, task |-> b.task]

\* Two commitments of one member, a not after b; the slack in whole minutes.
PairConflict(a, b, buffer) ==
    IF b.from < a.to THEN <<RippleShift(a, b)>>
    ELSE IF DiffMinutes(b.from, a.to) < buffer THEN <<BufferSqueeze(a, b)>> ELSE <<>>

\* One member's commitments by start; equal starts keep the order of the list.
SortedFor(m, commitments) ==
    ByStart(commitments, {i \in DOMAIN commitments : commitments[i].member = m})

\* A broken form of the next definition: the last pair is not looked at.
NeighboursShort(s) == 1 .. Len(s) - 2

\* Each commitment is compared with the next one only.
Neighbours(s) == 1 .. Len(s) - 1

Compared(s, buffer) == FlattenSeq([k \in Neighbours(s) |-> PairConflict(s[k], s[k + 1], buffer)])

\* The most severe first, then by start.
SeverityRank == [HIGH |-> 3, MEDIUM |-> 2, LOW |-> 1]

ComesFirst(found, i, j) ==
    LET rank(k) == SeverityRank[found[k].severity]
    IN  rank(i) > rank(j) \/ (rank(i) = rank(j) /\ StartsFirst(found, i, j))

BySeverity(found) ==
    LET order == SortedBy(DOMAIN found, {p \in (DOMAIN found) \X (DOMAIN found) : ComesFirst(found, p[1], p[2])})
    IN  [k \in DOMAIN order |-> found[order[k]]]

\* The buffer of callers that name none.
DefaultBuffer == 15

DetectConflicts(commitments, members, buffer) ==
    LET drives == Kept(commitments, {i \in DOMAIN commitments : commitments[i].driver})
        sole == IF Cardinality(DrivingMembers(members)) = 1
                THEN [i \in DOMAIN drives |-> SoleDriver(drives[i])] ELSE <<>>
        owners == SetToSeq({c.member : c \in ToSet(commitments)})
        pairs == [k \in DOMAIN owners |-> Compared(SortedFor(owners[k], commitments), buffer)]
    IN  BySeverity(sole \o FlattenSeq(pairs))

-----------------------------------------------------------------------------
\* Whoever certainly cannot come is told so and nobody else is: the inactive, those
\* who would have to drive and do not, and those who, leaving when they can, would
\* travel past the pickup.
PickupIsReached(members, trip, reach) ==
    LET late(m) == m.commute # Null /\ trip.leaveAt # Null
                     /\ AddMinutes(trip.leaveAt, m.commute + trip.buffer) > trip.pickupAt
        out == {m \in ToSet(members) : ~m.active \/ (trip.driving /\ ~m.drives) \/ late(m)}
    IN  /\ ToSet(reach.infeasible) = out
        /\ ToSet(reach.feasible) = ToSet(members) \ out

\* Whoever is on the way is sent before anybody who is not.
OnRouteFirst(members, onRouteKm, assigned) ==
    LET able == {m \in ToSet(members) : m.active /\ m.drives /\ m.role # "DEPENDENT"}
        passing == {m \in able : m.km # Null /\ m.km <= onRouteKm}
    IN  /\ assigned = Null <=> able = {}
        /\ passing # {} => \E m \in passing : m.id = assigned

\* Two commitments of one member at the same time.
DoubleBooked(c, d) ==
    c.member = d.member /\ WindowsOverlap(c.from, c.to, d.from, d.to)

\* Looking at neighbours is enough to see that somebody is double-booked; and
\* where commitments last, a ripple never mixes up two members and points at an
\* instant when somebody really is.
RippleIsReal(commitments, found) ==
    LET ripples == {i \in DOMAIN found : found[i].type = "RIPPLE_SHIFT"}
    IN  /\ (\E i, j \in DOMAIN commitments : i # j /\ DoubleBooked(commitments[i], commitments[j]))
              => ripples # {}
        /\ (\A c \in ToSet(commitments) : c.from < c.to) =>
              \A r \in ripples : \E i, j \in DOMAIN commitments :
                 /\ i # j
                 /\ DoubleBooked(commitments[i], commitments[j])
                 /\ found[r].from = Max({commitments[i].from, commitments[j].from})

\* A squeeze is the time from the end of one commitment of a member to the start of
\* another of the same member, is shorter than the buffer, and is serious when it is
\* less than six minutes.
SqueezeIsReal(commitments, buffer, found) ==
    \A s \in {found[i] : i \in {k \in DOMAIN found : found[k].type = "BUFFER_SQUEEZE"}} :
        /\ \E i, j \in DOMAIN commitments :
              /\ i # j
              /\ commitments[i].member = commitments[j].member
              /\ commitments[i].to = s.from
              /\ commitments[j].from = s.to
        /\ s.from <= s.to
        /\ s.to < AddMinutes(s.from, buffer)
        /\ s.severity = "MEDIUM" <=> s.to < AddMinutes(s.from, 6)
=============================================================================
