---------------------------- MODULE BackupSelection ----------------------------
(* packages/core/src/escalation/escalation.ts: how a dropped task is offered   *)
(* again, who is asked, and what claims, rejections and the approaching        *)
(* deadline do to the offer.  An availability block is a record of its member, *)
(* kind and interval.                                                          *)
EXTENDS CoreTime, SequencesExt

ClassifyUrgencyCascade(urgency) ==
    IF urgency \in {"HIGH", "CRITICAL"} THEN "BROADCAST" ELSE "OFFER"

\* A broken form of the next definition: only BUSY blocks count.
HasClearedScheduleBusyOnly(id, from, to, blocks) ==
    \A b \in blocks : b.member = id /\ b.kind = "BUSY" =>
        ~WindowsOverlap(b.from, b.to, from, to)

HasClearedSchedule(id, from, to, blocks) ==
    \A b \in blocks : b.member = id /\ b.kind # "AVAILABLE" =>
        ~WindowsOverlap(b.from, b.to, from, to)

\* Who may be asked: an adult, free in the window, near enough if that is known.
CanCover(member, ask) ==
    /\ member.id \notin ask.exclude
    /\ member.active
    /\ member.role # "DEPENDENT"
    /\ ask.driving => member.drives
    /\ HasClearedSchedule(member.id, ask.from, ask.to, ask.blocks)
    /\ ask.radius # Null /\ member.commute # Null => member.commute <= ask.radius

BackupScore(member) ==
    LET presence == CASE member.state = "AVAILABLE" -> 50
                      [] member.state = "TRAVEL"    -> 10
                      [] OTHER                      -> 0
        driving == IF member.drives THEN 10 ELSE 0
        proximity == IF member.commute = Null THEN 0 ELSE Max({0, 60 - member.commute})
    IN  presence + driving + proximity

\* Score first, then the smaller id.
Better(m, n) ==
    \/ BackupScore(m) > BackupScore(n)
    \/ BackupScore(m) = BackupScore(n) /\ m.id < n.id

\* The members that can cover, best first: the whole list goes into a broadcast,
\* its head into an offer.
SelectBackup(pool, ask) == Sorted({m \in pool : CanCover(m, ask)}, Better)

\* What a broadcast asks for: two hours from the due time, or from now; neither
\* driving nor distance is asked for, and only those the caller names are left out.
BroadcastAsk(dueAt, now, exclude, blocks) ==
    LET start == IF dueAt = Null THEN now ELSE dueAt
    IN  [exclude |-> exclude, driving |-> FALSE, radius |-> Null, blocks |-> blocks,
         from |-> start, to |-> AddMinutes(start, 120)]

\* The answer to a broadcast: everybody who can cover and the one picked; every
\* urgency gets both, the cascade mode only says what to do with them.
BroadcastAnswer(members, urgency, ask) ==
    LET able == SelectBackup({m \in ToSet(members) : m.active}, ask)
    IN  [mode |-> ClassifyUrgencyCascade(urgency), candidates |-> able,
         selected |-> IF able = <<>> THEN Null ELSE able[1].id]

-----------------------------------------------------------------------------
\* An open escalation carries its tier, deadline, claimant and resolution time.
Offer(deadline) == [tier |-> 1, deadline |-> deadline, claimedBy |-> Null, resolvedAt |-> Null]

\* Another claim of a resolved event changes nothing.
ClaimOffer(event, id, now) ==
    IF event.resolvedAt # Null \/ event.claimedBy # Null THEN event
    ELSE [event EXCEPT !.claimedBy = id, !.resolvedAt = now]

RejectOffer(event) ==
    IF event.resolvedAt # Null THEN event ELSE [event EXCEPT !.tier = @ + 1]

\* An offer through a sequence of claims and rejections.
Worked(event, move) ==
    IF move.kind = "claim" THEN ClaimOffer(event, move.member, move.at) ELSE RejectOffer(event)

WorkedOffer(deadline, moves) == FoldLeft(Worked, Offer(deadline), moves)

CriticalOverrideMinutes == 20

\* Minutes are counted whole: 20 are left until the 21st is full.
DecideCriticalOverride(event, now) ==
    /\ event.claimedBy = Null
    /\ event.resolvedAt = Null
    /\ DiffMinutes(event.deadline, now) <= CriticalOverrideMinutes

-----------------------------------------------------------------------------
\* Who is asked is an active adult without any commitment in the window; nobody
\* who could come is left out (a block that ends no later than it starts may rule
\* somebody out for nothing), and nobody is better than the one selected; the
\* order of the list of members plays no part.
AsksTheBest(members, urgency, ask, answer) ==
    LET busy(m) == \E b \in ask.blocks : /\ b.member = m.id /\ b.kind # "AVAILABLE"
                      /\ \E t \in ask.from .. ask.to - 1 : b.from <= t /\ t < b.to
        able == {m \in ToSet(members) : m.active /\ m.role # "DEPENDENT"
                    /\ m.id \notin ask.exclude /\ ~busy(m)}
        asked == ToSet(answer.candidates)
    IN  /\ asked \subseteq able
        /\ (\A b \in ask.blocks : b.from < b.to) => able \subseteq asked
        /\ answer.selected = Null <=> asked = {}
        /\ asked # {} => \E m \in asked : m.id = answer.selected /\ \A n \in asked : ~Better(n, m)
        /\ \A other \in SetToSeqs(ToSet(members)) :
              BroadcastAnswer(other, urgency, ask) = answer

\* Whatever claims and rejections follow each other, the first claim stands and
\* later rejections do not widen a search that is over.  The override is due from
\* the first instant with less than 21 minutes left to the deadline.
FirstClaimStands(moves, event) ==
    LET claims == {i \in DOMAIN moves : moves[i].kind = "claim"}
        first == IF claims = {} THEN Len(moves) + 1 ELSE Min(claims)
    IN  /\ event.tier = 1 + Cardinality({i \in 1 .. first - 1 : moves[i].kind = "reject"})
        /\ event.claimedBy = IF claims = {} THEN Null ELSE moves[first].member
        /\ event.resolvedAt # Null <=> claims # {}
        /\ \A now \in {AddMinutes(event.deadline, -21), AddMinutes(event.deadline, -21) + 1,
                      AddMinutes(event.deadline, -20), AddMinutes(event.deadline, 5)} :
              DecideCriticalOverride(event, now)
                <=> claims = {} /\ event.deadline < AddMinutes(now, CriticalOverrideMinutes + 1)
=============================================================================
