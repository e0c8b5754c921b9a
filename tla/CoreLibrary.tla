------------------------------ MODULE CoreLibrary ------------------------------
(* packages/core: the pure decisions, called one at a time.  A call names the   *)
(* function and its arguments, the reply is what the function returns; the      *)
(* library keeps nothing between calls.  The modules of the functions hold the  *)
(* definitions and what is expected of an answer; here each expectation is an   *)
(* invariant over all calls of the instance.                                    *)
EXTENDS Routing, BackupSelection, Commute, Wellbeing, Seasonal, Recurrence,
        Dependencies, Extraction, Scrubber

CONSTANTS
    NoReply,             \* before the function returns
    RouteCalls,          \* argument records of each function
    BroadcastCalls,
    OfferCalls,
    DropoffCalls,
    RadarCalls,
    WindowCalls,
    BatteryCalls,
    MilestoneCalls,
    IntentCalls,
    ExpandCalls,
    ChoreCalls,
    ChainCalls,
    ExtractCalls,
    ScrubCalls

\* Inputs as the callers and the schema make them: instants are numbers, ids are
\* unique, a list is a sequence.
Dates == [y : Int, m : Int, d : Int]

ASSUME NullIsMissing == Null \notin Int /\ Null \notin Dates
ASSUME CalendarIsReal == DayLength \in Nat \ {0} /\ YearDays \in Nat \ {0}

IsList(s) == s \in Seq(ToSet(s))
UniqueIds(s) == \A i, j \in DOMAIN s : s[i].id = s[j].id => i = j
Maybe(S) == S \cup {Null}
BirthsKnown(members) == \A m \in ToSet(members) : m.birth \in Maybe(Dates)

ASSUME RouteCallsAreLegal == \A x \in RouteCalls :
    /\ IsList(x.members) /\ UniqueIds(x.members) /\ BirthsKnown(x.members) /\ x.today \in Dates
    /\ \A m \in ToSet(x.members) : m.id \in Int /\ IsFiniteSet(m.skills)
    /\ x.task.minAge \in Maybe(Nat) /\ x.task.maxAge \in Maybe(Nat)
    /\ IsList(x.rules) /\ \A r \in ToSet(x.rules) : r.priority \in Int

ASSUME MilestoneCallsAreLegal == \A x \in MilestoneCalls :
    /\ x.now \in Int /\ x.goalDate \in Maybe(Int) /\ x.target \in Maybe(Int)
    /\ \/ x.rule = Null
       \/ x.rule.kind = "date" /\ x.rule.at \in Int
       \/ x.rule.kind = "phrase" /\ x.rule.day \in Nat
       \/ x.rule.kind = "other"
    /\ x.rule # Null => x.rule.leadDays \in Nat

ASSUME BroadcastCallsAreLegal == \A x \in BroadcastCalls :
    /\ IsList(x.members) /\ UniqueIds(x.members)
    /\ \A m \in ToSet(x.members) : m.id \in Int /\ m.commute \in Maybe(Int)
    /\ x.now \in Int /\ x.dueAt \in Maybe(Int)
    /\ \A b \in x.blocks : b.from \in Int /\ b.to \in Int

ASSUME OfferCallsAreLegal == \A x \in OfferCalls :
    /\ IsList(x.moves) /\ x.deadline \in Int
    /\ \A i \in DOMAIN x.moves :
          \/ x.moves[i].kind = "claim" /\ x.moves[i].member # Null /\ x.moves[i].at # Null
          \/ x.moves[i].kind = "reject"

ASSUME DropoffCallsAreLegal == \A x \in DropoffCalls :
    /\ IsList(x.members) /\ UniqueIds(x.members) /\ x.km \in Int
    /\ x.trip.pickupAt \in Int /\ x.trip.leaveAt \in Maybe(Int) /\ x.trip.buffer \in Int
    /\ \A m \in ToSet(x.members) : m.id \in Int /\ m.commute \in Maybe(Nat) /\ m.km \in Maybe(Nat)

ASSUME RadarCallsAreLegal == \A x \in RadarCalls :
    /\ IsList(x.commitments) /\ x.buffer \in Int
    /\ \A c \in ToSet(x.commitments) : c.from \in Int /\ c.to \in Int

ASSUME WindowCallsAreLegal == \A x \in WindowCalls :
    /\ IsList(x.busy) /\ IsList(x.goals)
    /\ x.range.from \in Int /\ x.range.to \in Int /\ x.buffer \in Nat
    /\ \A b \in ToSet(x.busy) : b.from \in Int /\ b.to \in Int
    /\ \A g \in ToSet(x.goals) : g.minutes \in Int

ASSUME BatteryCallsAreLegal == \A x \in BatteryCalls :
    /\ IsList(x.tasks) /\ \A t \in ToSet(x.tasks) : t.urgency \in Urgencies
    /\ IsFiniteSet(x.members) /\ IsFiniteSet(x.windows)
    /\ IsFiniteSet(x.goals) /\ \A g \in x.goals : g.count \in Nat

ASSUME ChoreCallsAreLegal == \A x \in ChoreCalls :
    /\ x.from.m \in Nat /\ x.from.d \in 1 .. DaysIn(x.from.m)
    /\ x.to.m \in Nat /\ x.to.d \in Nat /\ x.limit \in Nat /\ IsList(x.templates)
    /\ \A t \in ToSet(x.templates) :
          /\ t.rule \in Maybe([freq : {"DAILY", "MONTHLY"}, interval : Nat \ {0}])
          /\ t.everyDays \in Maybe(Nat \ {0}) /\ t.everyMonths \in Maybe(Nat \ {0})
          /\ t.anchorMonth \in Maybe(1 .. 12) /\ t.anchorDay \in Maybe(1 .. 31)

ASSUME ChainCallsAreLegal == \A x \in ChainCalls :
    /\ x.kind \in DOMAIN VehicleHints
    /\ IsList(x.assets) /\ UniqueIds(x.assets) /\ IsList(x.members) /\ UniqueIds(x.members)
    /\ \A p \in ToSet(x.assets), m \in ToSet(x.members) : p.id # m.id
    /\ BirthsKnown(x.members) /\ x.today \in Dates /\ x.ceiling \in Nat

ASSUME ExtractCallsAreLegal == \A x \in ExtractCalls :
    /\ IsList(x.drafts) /\ x.minConfidence \in Int
    /\ \A r \in ToSet(x.drafts) : r.confidence \in Maybe(Int) /\ r.minAge \in Maybe(Int)

ASSUME ScrubCallsAreLegal == \A x \in ScrubCalls : IsList(x)

VARIABLES call, reply

vars == <<call, reply>>

\* The arguments of the call.
a == call.args

Ask(fn, args) == call = [fn |-> fn, args |-> args]

Init ==
    /\ \/ \E x \in RouteCalls : Ask("route", x)
       \/ \E x \in BroadcastCalls : Ask("broadcast", x)
       \/ \E x \in OfferCalls : Ask("offer", x)
       \/ \E x \in DropoffCalls : Ask("dropoff", x)
       \/ \E x \in RadarCalls : Ask("radar", x)
       \/ \E x \in WindowCalls : Ask("windows", x)
       \/ \E x \in BatteryCalls : Ask("battery", x)
       \/ \E x \in MilestoneCalls : Ask("milestones", x)
       \/ \E x \in IntentCalls : Ask("intent", x)
       \/ \E x \in ExpandCalls : Ask("expand", x)
       \/ \E x \in ChoreCalls : Ask("chores", x)
       \/ \E x \in ChainCalls : Ask("chain", x)
       \/ \E x \in ExtractCalls : Ask("extract", x)
       \/ \E x \in ScrubCalls : Ask("scrub", x)
    /\ reply = NoReply

\* The call of a function that has not answered.
Asked(fn) == call.fn = fn /\ reply = NoReply /\ UNCHANGED call

\* The answered calls of a function.
Answered(fn) == call.fn = fn /\ reply # NoReply

RouteTask ==
    /\ Asked("route")
    /\ reply' = Route(a.task, a.members, a.rules, a.today)

Broadcast ==
    /\ Asked("broadcast")
    /\ reply' = BroadcastAnswer(a.members, a.urgency,
                    BroadcastAsk(a.dueAt, a.now, a.exclude, a.blocks))

\* An offer through a sequence of claims and rejections.
WorkOffer ==
    /\ Asked("offer")
    /\ reply' = WorkedOffer(a.deadline, a.moves)

Dropoff ==
    /\ Asked("dropoff")
    /\ reply' = [reach |-> FilterByCommute(a.members, a.trip),
                 assigned |-> AssignByRouteSynergy(a.members, a.km)]

Radar ==
    /\ Asked("radar")
    /\ reply' = DetectConflicts(a.commitments, a.members, a.buffer)

Windows ==
    /\ Asked("windows")
    /\ reply' = [gaps |-> ComputeGaps(a.busy, a.range, 0),
                 windows |-> FindMicroWindows(a.member, a.goals, a.busy,
                                                 a.range, a.buffer)]

Battery ==
    /\ Asked("battery")
    /\ reply' = [equity |-> ComputeLoadEquity(a.tasks, a.members),
                 battery |-> [m \in a.members |->
                     ComputeBalanceBattery(m, a.goals, a.windows,
                                              a.tasks, a.members)]]

Milestones ==
    /\ Asked("milestones")
    /\ reply' = ComputeMilestones(a.goalDate, a.rule, a.target, a.now)

Intent ==
    /\ Asked("intent")
    /\ reply' = ClassifySeasonalIntent(a.hits, a.hinted)

Expand ==
    /\ Asked("expand")
    /\ reply' = ExpandRecurrence(a.rule, a.from, a.to, a.dtstart,
                                    a.limit, 40)

Chores ==
    /\ Asked("chores")
    /\ reply' = GenerateMaintenanceTasks(a.templates, a.from, a.to,
                                            a.limit, 24)

Chain ==
    /\ Asked("chain")
    /\ reply' = DependencyChain(a.kind, a.assets, a.members,
                                   a.today, a.ceiling)

Extract ==
    /\ Asked("extract")
    /\ reply' = PostProcess(a.drafts, a.minConfidence, TRUE)

ScrubText ==
    /\ Asked("scrub")
    /\ reply' = Scrub(a)

Next ==
    \/ RouteTask \/ Broadcast \/ WorkOffer \/ Dropoff \/ Radar \/ Windows \/ Battery
    \/ Milestones \/ Intent \/ Expand \/ Chores \/ Chain \/ Extract \/ ScrubText

Spec == Init /\ [][Next]_vars
-----------------------------------------------------------------------------
\* route: the member assigned satisfies every hard constraint of the task, age on
\* the birthday included, and the strongest rule that reaches anybody is obeyed if its
\* boost outweighs the soft scores.
RoutingObeysRules ==
    Answered("route") => Obeys(a.task, a.members, a.rules, a.today, reply)

\* route: members and rules come from the database in no promised order; unless a
\* rule leaves the choice among several members, the answer does not depend on it.
RoutingIgnoresOrder ==
    Answered("route") => OrderFree(a.task, a.members, a.rules, a.today)

\* broadcast: exactly the adults free for the whole window are candidates, and
\* the one selected is as good as any of them in whatever order they are listed.
BroadcastAsksTheBest ==
    Answered("broadcast") =>
        AsksTheBest(a.members, a.urgency, BroadcastAsk(a.dueAt, a.now, a.exclude, a.blocks), reply)

\* claim, reject, decideCriticalOverride: in every order of claims and rejections
\* the first claim is final, and an override is due exactly while nobody claimed
\* and at most 20 whole minutes are left, that is less than 21.
FirstClaimIsFinal ==
    Answered("offer") => FirstClaimStands(a.moves, reply)

\* filterByCommute: exactly those are infeasible who are inactive, cannot drive when
\* that is needed, or would come after the pickup with their commute and the buffer.
PickupIsInReach ==
    Answered("dropoff") => PickupIsReached(a.members, a.trip, reply.reach)

\* assignByRouteSynergy: a driver whose route passes the place is chosen before
\* any other, with or without coordinates.
OnRouteIsFirst ==
    Answered("dropoff") => OnRouteFirst(a.members, a.km, reply.assigned)

\* detectConflicts: comparing neighbours only is enough to notice that somebody is
\* double-booked, every ripple reported is one, and every squeeze is a real one.
RadarSeesDoubleBooking ==
    Answered("radar") => /\ RippleIsReal(a.commitments, reply)
                         /\ SqueezeIsReal(a.commitments, a.buffer, reply)

\* computeGaps: the gaps are exactly the time no block covers, with blocks nested,
\* equal, touching or reaching over the ends of the range.
GapsAreTheFreeTime ==
    Answered("windows") => GapsAreFreeTime(a.busy, a.range, reply.gaps)

\* findMicroWindows: suggestions never overlap each other or a block with its
\* buffer, stay in the range and last as long as their goal.
SuggestionsAreUsable ==
    Answered("windows") => WindowsAreUsable(a.goals, a.busy, a.range, a.buffer, reply.windows)

\* computeLoadEquity: the rounded shares add up to the whole (half a tenth of a
\* percent per member aside) as soon as anybody carries anything.
SharesAddUp ==
    Answered("battery") =>
        LET total == SumOf([m \in a.members |-> reply.equity[m].share], a.members)
            loaded == \E m \in a.members : reply.equity[m].load > 0
        IN  IF loaded THEN 2 * total \in 2000 - Cardinality(a.members) .. 2000 + Cardinality(a.members)
            ELSE total = 0

\* computeBalanceBattery: full exactly when the member claimed at least as many
\* windows as the goals ask for (rounding hides one missing of 2000).
FullWhenGoalsMet ==
    Answered("battery") => \A m \in a.members :
        Target(m, a.goals) < 2000 =>
            (reply.battery[m].completion = 1000 <=> Met(m, a.windows) >= Target(m, a.goals))

\* computeMilestones: four stages in order before the goal, and a goal given as a
\* month and day, by a timeline that does not lead, lies within the coming year.
MilestonesLeadUpToGoal ==
    Answered("milestones") => LeadsUpToGoal(a.goalDate, a.rule, a.target, a.now, reply)

\* generateMaintenanceTasks: every chore that comes by months, on a day that each month
\* has, keeps its cadence from the first date after the window opens, with no date
\* doubled or skipped and whatever other chores there are.
CadenceIsKept ==
    Answered("chores") => CadenceKept(a.templates, a.from, a.to, a.limit, reply)

\* generateDependencyChain: each vehicle of a driving project and each child under the
\* growth ceiling is checked once, a child of unknown age included and one above the
\* ceiling not (at the ceiling either will do).
ChainIsComplete ==
    Answered("chain") => ChecksEverything(a.kind, a.assets, a.members, a.today, a.ceiling, reply)

\* postProcess: every task named with enough confidence is kept once, at its best
\* confidence, whatever else the model wrote, and a second pass changes nothing.
ExtractionKeepsTheBest ==
    Answered("extract") => KeepsTheBest(a.drafts, a.minConfidence, reply)

\* scrub and unscrub: nothing a rule finds is left, equal values share a token,
\* different ones do not, and the text comes back.
ScrubRestores ==
    Answered("scrub") => ScrubsAndRestores(a, reply)

-----------------------------------------------------------------------------
(* What each engine promises, as the parts above.                               *)

\* routing: every constraint is met, the strongest rule is obeyed, and the order
\* of the database does not decide.
RoutingIsSound == RoutingObeysRules /\ RoutingIgnoresOrder

\* escalation: the right backup is asked, and the first to claim has it.
EscalationIsSound == BroadcastAsksTheBest /\ FirstClaimIsFinal

\* commute: who is late is left out, the driver on the way goes, and no double booking
\* goes unnoticed.
CommuteIsSound == PickupIsInReach /\ OnRouteIsFirst /\ RadarSeesDoubleBooking

\* wellbeing: suggestions fit the free time, loads and goals are counted right.
WellbeingIsSound == GapsAreTheFreeTime /\ SuggestionsAreUsable /\ SharesAddUp /\ FullWhenGoalsMet
=============================================================================
