---------------------------- MODULE CoreLibraryProofs ----------------------------
(***************************************************************************)
(* What the functions of the core library answer, for every input that the *)
(* assumptions of CoreLibrary allow: lists of any length, any instants.    *)
(***************************************************************************)
EXTENDS CoreLibrary, EngineTheorems

-----------------------------------------------------------------------------
(* Every answer is what the function returns for the arguments of the call.     *)

Answers ==
    /\ Answered("route") => a \in RouteCalls /\ reply = Route(a.task, a.members, a.rules, a.today)
    /\ Answered("broadcast") =>
          /\ a \in BroadcastCalls
          /\ reply = BroadcastAnswer(a.members, a.urgency, BroadcastAsk(a.dueAt, a.now, a.exclude, a.blocks))
    /\ Answered("offer") => a \in OfferCalls /\ reply = WorkedOffer(a.deadline, a.moves)
    /\ Answered("dropoff") => a \in DropoffCalls /\ reply.assigned = AssignByRouteSynergy(a.members, a.km)
                             /\ reply.reach = FilterByCommute(a.members, a.trip)
    /\ Answered("radar") => a \in RadarCalls /\ reply = DetectConflicts(a.commitments, a.members, a.buffer)
    /\ Answered("windows") =>
          /\ a \in WindowCalls
          /\ reply.gaps = ComputeGaps(a.busy, a.range, 0)
          /\ reply.windows = FindMicroWindows(a.member, a.goals, a.busy, a.range, a.buffer)
    /\ Answered("battery") =>
          /\ a \in BatteryCalls
          /\ reply.equity = ComputeLoadEquity(a.tasks, a.members)
          /\ \A m \in a.members :
                reply.battery[m] = ComputeBalanceBattery(m, a.goals, a.windows, a.tasks, a.members)
    /\ Answered("milestones") =>
          a \in MilestoneCalls /\ reply = ComputeMilestones(a.goalDate, a.rule, a.target, a.now)
    /\ Answered("chores") =>
          a \in ChoreCalls /\ reply = GenerateMaintenanceTasks(a.templates, a.from, a.to, a.limit, 24)
    /\ Answered("chain") =>
          a \in ChainCalls /\ reply = DependencyChain(a.kind, a.assets, a.members, a.today, a.ceiling)
    /\ Answered("extract") => a \in ExtractCalls /\ reply = PostProcess(a.drafts, a.minConfidence, TRUE)
    /\ Answered("scrub") => a \in ScrubCalls /\ reply = Scrub(a)

Legal ==
    /\ call.fn = "route" => a \in RouteCalls
    /\ call.fn = "broadcast" => a \in BroadcastCalls
    /\ call.fn = "offer" => a \in OfferCalls
    /\ call.fn = "dropoff" => a \in DropoffCalls
    /\ call.fn = "radar" => a \in RadarCalls
    /\ call.fn = "windows" => a \in WindowCalls
    /\ call.fn = "battery" => a \in BatteryCalls
    /\ call.fn = "milestones" => a \in MilestoneCalls
    /\ call.fn = "chores" => a \in ChoreCalls
    /\ call.fn = "chain" => a \in ChainCalls
    /\ call.fn = "extract" => a \in ExtractCalls
    /\ call.fn = "scrub" => a \in ScrubCalls

LEMMA AnswersFollow == Spec => [](Legal /\ Answers)
<1>1. Init => Legal /\ Answers
      BY DEF Init, Ask, Legal, Answers, Answered, a
<1>2. Legal /\ Answers /\ [Next]_vars => (Legal /\ Answers)'
  <2> SUFFICES ASSUME Legal, Answers, [Next]_vars PROVE Legal' /\ Answers'
      OBVIOUS
  <2>1. CASE UNCHANGED vars
    <3>1. call' = call /\ reply' = reply
          BY <2>1 DEF vars
    <3>2. a' = a
          BY <3>1 DEF a
    <3>3. Legal'
          BY <3>1, <3>2 DEF Legal
    <3>4. Answered("battery")' => Answered("battery")
          BY <3>1 DEF Answered
    <3>5. (Answered("battery") =>
              /\ a \in BatteryCalls
              /\ reply.equity = ComputeLoadEquity(a.tasks, a.members)
              /\ \A m \in a.members :
                    reply.battery[m] = ComputeBalanceBattery(m, a.goals, a.windows, a.tasks, a.members))'
      <4>1. Answered("battery") =>
              /\ a \in BatteryCalls
              /\ reply.equity = ComputeLoadEquity(a.tasks, a.members)
              /\ \A m \in a.members :
                    reply.battery[m] = ComputeBalanceBattery(m, a.goals, a.windows, a.tasks, a.members)
            BY DEF Answers
      <4> QED BY <3>1, <3>2, <3>4, <4>1
    <3>6. \A fn : Answered(fn)' <=> Answered(fn)
          BY <3>1 DEF Answered
    <3>7. (Answered("chores") =>
              a \in ChoreCalls /\ reply = GenerateMaintenanceTasks(a.templates, a.from, a.to, a.limit, 24))'
      <4>1. Answered("chores") =>
              a \in ChoreCalls /\ reply = GenerateMaintenanceTasks(a.templates, a.from, a.to, a.limit, 24)
            BY DEF Answers
      <4> QED BY <3>1, <3>2, <3>6, <4>1
    <3>8. (Answered("broadcast") =>
              /\ a \in BroadcastCalls
              /\ reply = BroadcastAnswer(a.members, a.urgency, BroadcastAsk(a.dueAt, a.now, a.exclude, a.blocks)))'
      <4>1. Answered("broadcast") =>
              /\ a \in BroadcastCalls
              /\ reply = BroadcastAnswer(a.members, a.urgency, BroadcastAsk(a.dueAt, a.now, a.exclude, a.blocks))
            BY DEF Answers
      <4> QED BY <3>1, <3>2, <3>6, <4>1
    <3>9. Answers'
          BY <3>1, <3>2, <3>5, <3>6, <3>7, <3>8 DEF Answers
    <3> QED BY <3>3, <3>9
  <2> USE DEF Legal, Answers, Answered, Asked, a
  <2>2. CASE Broadcast
        BY <2>2 DEF Broadcast
  <2>3. CASE Milestones
        BY <2>3 DEF Milestones
  <2>4. CASE RouteTask
        BY <2>4 DEF RouteTask
  <2>5. CASE WorkOffer
        BY <2>5 DEF WorkOffer
  <2>6. CASE Dropoff
        BY <2>6 DEF Dropoff
  <2>7. CASE Radar
        BY <2>7 DEF Radar
  <2>8. CASE Windows
        BY <2>8 DEF Windows
  <2>9. CASE Battery
        BY <2>9 DEF Battery
  <2>10. CASE Chain
         BY <2>10 DEF Chain
  <2>11. CASE Intent \/ Expand
         BY <2>11 DEF Intent, Expand
  <2>12. CASE Extract
         BY <2>12 DEF Extract
  <2>13. CASE ScrubText
         BY <2>13 DEF ScrubText
  <2>14. CASE Chores
         BY <2>14 DEF Chores
  <2> QED BY <2>1, <2>2, <2>3, <2>4, <2>5, <2>6, <2>7, <2>8, <2>9, <2>10, <2>11, <2>12, <2>13, <2>14 DEF Next
<1> QED BY <1>1, <1>2, PTL DEF Spec

-----------------------------------------------------------------------------
(* Seasonal milestones.                                                         *)

\* The day of the year comes round within a year.
LEMMA NextOnComesRound ==
    ASSUME NEW day \in Nat, NEW now \in Int
    PROVE  /\ NextOn(day, now) \in Int /\ now <= NextOn(day, now)
           /\ day < YearDays => /\ NextOn(day, now) < now + Year
                               /\ (NextOn(day, now) \div DayLength) % YearDays = day
<1> DEFINE D == DayLength
           Y == YearDays
           L == Year
           k == now \div L
           this == k * L + day * D
           goal == NextOn(day, now)
<1>0. D \in Nat \ {0} /\ Y \in Nat \ {0} /\ L = D * Y
      BY CalendarIsReal DEF Year
<1>1. goal = IF this < now THEN this + L ELSE this
      BY DEF NextOn
<1>2. L \in Nat \ {0}
  <2> HIDE DEF D, Y, L
  <2> QED BY <1>0
<1>3. k \in Int /\ k * L \in Int /\ k * L <= now /\ now < k * L + L
  <2> HIDE DEF L
  <2> QED BY <1>2
<1>4. day * D \in Nat
  <2> HIDE DEF D
  <2> QED BY <1>0
<1>5. this = k * L + day * D
      OBVIOUS
<1> DEFINE u == k * L
           v == day * D
<1>6. this = u + v /\ u \in Int /\ v \in Nat /\ u <= now /\ now < u + L
      BY <1>3, <1>4
<1>7. goal \in Int /\ now <= goal
  <2> HIDE DEF u, v, this, L, goal
  <2> QED BY <1>1, <1>2, <1>6
<1>8. ASSUME day < Y PROVE goal < now + L /\ (goal \div D) % Y = day
  <2>1. v < L
    <3> HIDE DEF D, Y, L
    <3> QED BY <1>0, <1>8
  <2>2. goal < now + L
    <3> HIDE DEF u, v, this, L, goal
    <3> QED BY <1>1, <1>2, <1>6, <2>1
  <2>3. ASSUME NEW c \in Int, goal = c * L + v PROVE (goal \div D) % Y = day
    <3> HIDE DEF D, Y, L, goal
    <3>1. goal = D * (c * Y + day) /\ c * Y + day \in Int
          BY <1>0, <2>3
    <3>2. goal \div D = c * Y + day
          BY <1>0, <3>1
    <3>3. (c * Y + day) % Y = day
          BY <1>0, <1>8
    <3> QED BY <3>2, <3>3
  <2>4. (k + 1) * L = u + L
    <3> HIDE DEF L, k
    <3> QED BY <1>2, <1>3
  <2>5. k + 1 \in Int /\ (goal = k * L + v \/ goal = (k + 1) * L + v)
    <3> HIDE DEF L, k, v, this, goal
    <3> QED BY <1>1, <1>2, <1>3, <1>6, <2>4
  <2> HIDE DEF k, goal, v, L
  <2> QED BY <1>3, <2>2, <2>3, <2>5
<1> QED BY <1>7, <1>8

LEMMA MilestonesAnswer ==
    ASSUME NEW x \in MilestoneCalls
    PROVE  LeadsUpToGoal(x.goalDate, x.rule, x.target, x.now,
                         ComputeMilestones(x.goalDate, x.rule, x.target, x.now))
<1> DEFINE now == x.now
           rule == x.rule
           goal == ResolveGoalDate(x.goalDate, rule, x.target, now)
           ms == ComputeMilestones(x.goalDate, rule, x.target, now)
<1>1. now \in Int /\ x.goalDate \in Maybe(Int) /\ x.target \in Maybe(Int)
      BY MilestoneCallsAreLegal
<1>2. ASSUME rule # Null, rule.kind = "phrase"
      PROVE  /\ NextOn(rule.day, now) \in Int /\ now <= NextOn(rule.day, now)
             /\ rule.day < YearDays => /\ NextOn(rule.day, now) < now + Year
                                       /\ (NextOn(rule.day, now) \div DayLength) % YearDays = rule.day
  <2>1. rule.day \in Nat
        BY <1>2, MilestoneCallsAreLegal
  <2> HIDE DEF now, rule
  <2> QED BY <1>1, <2>1, NextOnComesRound
<1>3. goal \in Maybe(Int)
  <2>1. rule # Null => ParseOpensRule(rule, now) \in Maybe(Int)
        BY <1>2, MilestoneCallsAreLegal DEF ParseOpensRule, Maybe
  <2> HIDE DEF now, rule
  <2> QED BY <1>1, <2>1 DEF ResolveGoalDate, Maybe
<1>4. CASE goal = Null
  <2>1. ms = <<>>
        BY <1>4 DEF ComputeMilestones
  <2>2. ASSUME x.goalDate = Null, rule # Null, rule.kind = "phrase" PROVE FALSE
    <3>1. NextOn(rule.day, now) \in Int /\ NextOn(rule.day, now) # Null
          BY <1>2, <2>2, NullIsMissing
    <3> HIDE DEF now, rule
    <3> QED BY <1>4, <2>2, <3>1 DEF ResolveGoalDate, ParseOpensRule
  <2> QED BY <1>4, <2>1, <2>2 DEF LeadsUpToGoal
<1>5. CASE goal # Null
  <2>0. goal \in Int
        BY <1>3, <1>5 DEF Maybe
  <2>1. ms = [i \in DOMAIN Stages |->
                 [stage |-> Stages[i], fireAt |-> AddMinutes(goal, -Lead[Stages[i]]), fired |-> FALSE]]
        BY <1>5 DEF ComputeMilestones
  <2>2. DOMAIN Stages = 1 .. 4
        BY DEF Stages
  <2>3. /\ Lead[Stages[1]] = 43200 /\ Lead[Stages[2]] = 20160
        /\ Lead[Stages[3]] = 2880 /\ Lead[Stages[4]] = 15
        BY DEF Stages, Lead
  <2> HIDE DEF goal, ms
  <2> DEFINE p == -43200
             q == -20160
             s == -2880
             t == -15
             fires(n) == AddMinutes(goal, n)
  <2>n. p \in Int /\ q \in Int /\ s \in Int /\ t \in Int /\ p < q /\ q < s /\ s < t /\ t < 0
        OBVIOUS
  <2>4. /\ DOMAIN ms = 1 .. 4
        /\ ms[1].fireAt = fires(p) /\ ms[2].fireAt = fires(q)
        /\ ms[3].fireAt = fires(s) /\ ms[4].fireAt = fires(t)
        BY <2>1, <2>2, <2>3
  <2> HIDE DEF p, q, s, t
  <2>o. /\ fires(p) \in Int /\ fires(q) \in Int /\ fires(s) \in Int /\ fires(t) \in Int
        /\ fires(p) < fires(q) /\ fires(q) < fires(s) /\ fires(s) < fires(t) /\ fires(t) < goal
    <3> DEFINE zero == 0
    <3>1. zero \in Int /\ t < zero
          BY <2>n
    <3>2. fires(zero) = goal
          BY <2>0, MinutesAdded
    <3> HIDE DEF zero
    <3>3. fires(t) < fires(zero)
          BY <2>0, <2>n, <3>1, MinutesOrdered
    <3>4. fires(p) < fires(q) /\ fires(q) < fires(s) /\ fires(s) < fires(t)
          BY <2>0, <2>n, MinutesOrdered
    <3>5. fires(p) \in Int /\ fires(q) \in Int /\ fires(s) \in Int /\ fires(t) \in Int
          BY <2>0, <2>n, MinutesAdded
    <3> QED BY <3>2, <3>3, <3>4, <3>5
  <2> HIDE DEF fires
  <2>5. ms # <<>>
    <3>1. 1 \in DOMAIN ms
          BY <2>4
    <3> QED BY <3>1
  <2>6. ASSUME NEW i \in DOMAIN ms
        PROVE  ms[i].fireAt < goal /\ (i > 1 => ms[i - 1].fireAt < ms[i].fireAt)
    <3>1. i = 1 \/ i = 2 \/ i = 3 \/ i = 4
          BY <2>4
    <3> QED BY <2>0, <2>4, <2>o, <3>1
  <2>7. ASSUME x.goalDate = Null, rule # Null, rule.kind = "phrase"
        PROVE  goal = NextOn(rule.day, now)
    <3>1. NextOn(rule.day, now) # Null
          BY <1>2, <2>7, NullIsMissing
    <3> HIDE DEF now, rule
    <3> QED BY <2>7, <3>1 DEF goal, ResolveGoalDate, ParseOpensRule
  <2>8. (x.goalDate = Null /\ rule # Null /\ rule.kind = "phrase" /\ rule.leadDays = 0) =>
           /\ now <= goal
           /\ rule.day < YearDays => goal < now + Year /\ (goal \div DayLength) % YearDays = rule.day
        BY <1>2, <2>7
  <2> QED BY <1>5, <2>5, <2>6, <2>8 DEF LeadsUpToGoal, goal, ms
<1> QED BY <1>4, <1>5

\* computeMilestones, for every goal, rule and moment: four stages in order, all
\* before the goal; a goal that is a day of the year is the next one there is.
THEOREM MilestonesAreSound == Spec => []MilestonesLeadUpToGoal
<1>1. Legal /\ Answers => MilestonesLeadUpToGoal
      BY MilestonesAnswer DEF Answers, MilestonesLeadUpToGoal
<1> QED BY <1>1, AnswersFollow, PTL
-----------------------------------------------------------------------------
(* Escalation: who is asked, and who has the task.                              *)

\* Members with ids and distances as the schema has them.
Identified(S) ==
    /\ \A m \in S : m.id \in Int /\ m.commute \in Maybe(Int)
    /\ \A m, n \in S : m.id = n.id => m = n

BetterPairs(S) == {p \in S \X S : Better(p[1], p[2])}

LEMMA ScoreIsNumber ==
    ASSUME NEW m, m.commute \in Maybe(Int)
    PROVE  BackupScore(m) \in Int
<1> DEFINE presence == CASE m.state = "AVAILABLE" -> 50
                         [] m.state = "TRAVEL"    -> 10
                         [] OTHER                 -> 0
           driving == IF m.drives THEN 10 ELSE 0
           proximity == IF m.commute = Null THEN 0 ELSE Max({0, 60 - m.commute})
<1>1. presence \in Int /\ driving \in Int
      OBVIOUS
<1>2. proximity \in Int
  <2>1. CASE m.commute = Null
        BY <2>1
  <2>2. CASE m.commute # Null
    <3> DEFINE y == 60 - m.commute
               x == 0
    <3>1. x \in Int /\ y \in Int
          BY <2>2 DEF Maybe
    <3> HIDE DEF x, y
    <3>2. Max({x, y}) \in Int
          BY <3>1, MaxOfTwo
    <3> QED BY <2>2, <3>2 DEF x, y
  <2> QED BY <2>1, <2>2
<1>3. BackupScore(m) = presence + driving + proximity
      BY DEF BackupScore
<1> HIDE DEF presence, driving, proximity
<1> QED BY <1>1, <1>2, <1>3

LEMMA BetterOrders ==
    ASSUME NEW S, Identified(S)
    PROVE  Orders(BetterPairs(S), S)
<1>1. \A m \in S : BackupScore(m) \in Int /\ m.id \in Int
      BY ScoreIsNumber DEF Identified
<1>2. \A m, n \in S : <<m, n>> \in BetterPairs(S) <=> Better(m, n)
      BY DEF BetterPairs
<1>3. \A m \in S : ~Better(m, m)
      BY <1>1 DEF Better
<1>4. \A m, n \in S : m # n => Better(m, n) \/ Better(n, m)
      BY <1>1 DEF Better, Identified
<1>5. \A m, n, o \in S : Better(m, n) /\ Better(n, o) => Better(m, o)
      BY <1>1 DEF Better
<1> QED BY <1>2, <1>3, <1>4, <1>5 DEF Orders

\* The list of those who can cover.
LEMMA BackupsInOrder ==
    ASSUME NEW pool, IsFiniteSet(pool), Identified(pool), NEW ask
    PROVE  LET able == {m \in pool : CanCover(m, ask)}
           IN  InOrder(SelectBackup(pool, ask), BetterPairs(able), able)
<1> DEFINE able == {m \in pool : CanCover(m, ask)}
<1>1. IsFiniteSet(able)
  <2>1. able \subseteq pool
        OBVIOUS
  <2> HIDE DEF able
  <2> QED BY <2>1, FS_Subset
<1>2. Identified(able)
      BY DEF Identified
<1>3. SelectBackup(pool, ask) = SortedBy(able, BetterPairs(able))
      BY DEF SelectBackup, Sorted, BetterPairs
<1> HIDE DEF able
<1>4. Orders(BetterPairs(able), able)
      BY <1>2, BetterOrders
<1>5. InOrder(SortedBy(able, BetterPairs(able)), BetterPairs(able), able)
      BY <1>1, <1>4, SortedByFacts
<1> QED BY <1>3, <1>5 DEF able

\* A list holds finitely many things, and any arrangement of them holds them all.
LEMMA ListIsFinite ==
    ASSUME NEW s, IsList(s)
    PROVE  Len(s) \in Nat /\ DOMAIN s = 1 .. Len(s) /\ IsFiniteSet(DOMAIN s) /\ IsFiniteSet(ToSet(s))
<1>1. Len(s) \in Nat /\ DOMAIN s = 1 .. Len(s)
      BY DEF IsList
<1>2. IsFiniteSet(DOMAIN s)
      BY <1>1, FS_Interval
<1>3. ToSet(s) = {s[i] : i \in DOMAIN s}
      BY DEF ToSet
<1>4. IsFiniteSet({s[i] : i \in DOMAIN s})
  <2> DEFINE D == DOMAIN s
             f == [i \in D |-> s[i]]
  <2>1. f \in Surjection(D, {s[i] : i \in D})
        BY DEF Surjection
  <2> HIDE DEF f, D
  <2>2. IsFiniteSet(D)
        BY <1>2 DEF D
  <2>3. IsFiniteSet({s[i] : i \in D})
        BY <2>1, <2>2, FS_Surjection
  <2> QED BY <2>3 DEF D
<1> QED BY <1>1, <1>2, <1>3, <1>4

LEMMA ArrangementHoldsAll ==
    ASSUME NEW S, IsFiniteSet(S), NEW other \in SetToSeqs(S)
    PROVE  ToSet(other) = S
<1> DEFINE n == Cardinality(S)
<1>1. n \in Nat
      BY FS_CardinalityType
<1>2. other \in [1 .. n -> S] /\ \A i, j \in 1 .. n : i # j => other[i] # other[j]
      BY DEF SetToSeqs
<1>3. other \in Injection(1 .. n, S)
      BY <1>2 DEF Injection, IsInjective
<1>4. IsFiniteSet(1 .. n) /\ Cardinality(1 .. n) = n
  <2> HIDE DEF n
  <2>1. 1 \in Int /\ n \in Int /\ n >= 0
        BY <1>1
  <2>2. IsFiniteSet(1 .. n) /\ Cardinality(1 .. n) = IF 1 > n THEN 0 ELSE n - 1 + 1
        BY <2>1, FS_Interval
  <2> QED BY <2>1, <2>2
<1>5. other \in Surjection(1 .. n, S)
  <2> HIDE DEF n
  <2>1. Cardinality(1 .. n) = Cardinality(S)
        BY <1>4 DEF n
  <2> QED BY <1>3, <2>1, FS_Injection
<1> HIDE DEF n
<1> QED BY <1>2, <1>5 DEF Surjection, ToSet

\* An instant of the window that a block covers, and an overlap with a block that
\* lasts, are the same.
LEMMA CoveredMeansOverlap ==
    ASSUME NEW from \in Int, NEW to \in Int, from < to, NEW bf \in Int, NEW bt \in Int
    PROVE  /\ \A t \in from .. to - 1 : bf <= t /\ t < bt => WindowsOverlap(bf, bt, from, to)
           /\ bf < bt /\ WindowsOverlap(bf, bt, from, to) =>
                 \E t \in from .. to - 1 : bf <= t /\ t < bt
<1>1. \A t \in from .. to - 1 : bf <= t /\ t < bt => WindowsOverlap(bf, bt, from, to)
      BY DEF WindowsOverlap
<1>2. ASSUME bf < bt, WindowsOverlap(bf, bt, from, to)
      PROVE  \E t \in from .. to - 1 : bf <= t /\ t < bt
  <2>1. CASE bf <= from
    <3>1. from \in from .. to - 1 /\ bf <= from /\ from < bt
          BY <1>2, <2>1 DEF WindowsOverlap
    <3> QED BY <3>1
  <2>2. CASE ~(bf <= from)
    <3>1. bf \in from .. to - 1 /\ bf <= bf /\ bf < bt
          BY <1>2, <2>2 DEF WindowsOverlap
    <3> QED BY <3>1
  <2> QED BY <2>1, <2>2
<1> QED BY <1>1, <1>2

LEMMA BroadcastAnswers ==
    ASSUME NEW x \in BroadcastCalls, NEW ask, ask = BroadcastAsk(x.dueAt, x.now, x.exclude, x.blocks)
    PROVE  AsksTheBest(x.members, x.urgency, ask, BroadcastAnswer(x.members, x.urgency, ask))
<1> DEFINE all == ToSet(x.members)
           pool == {m \in all : m.active}
           cover == {m \in pool : CanCover(m, ask)}
           busy(m) == \E b \in ask.blocks : /\ b.member = m.id /\ b.kind # "AVAILABLE"
                      /\ \E t \in ask.from .. ask.to - 1 : b.from <= t /\ t < b.to
           able == {m \in all : m.active /\ m.role # "DEPENDENT" /\ m.id \notin ask.exclude /\ ~busy(m)}
           answer == BroadcastAnswer(x.members, x.urgency, ask)
           s == SelectBackup(pool, ask)
<1>1. IsFiniteSet(all) /\ IsFiniteSet(pool)
  <2>1. IsList(x.members)
        BY BroadcastCallsAreLegal
  <2>2. IsFiniteSet(all)
        BY <2>1, ListIsFinite
  <2>3. pool \subseteq all
        OBVIOUS
  <2> HIDE DEF pool, all
  <2> QED BY <2>2, <2>3, FS_Subset
<1>2. Identified(all) /\ Identified(pool)
  <2>1. UniqueIds(x.members) /\ \A m \in all : m.id \in Int /\ m.commute \in Maybe(Int)
        BY BroadcastCallsAreLegal
  <2>2. \A m, n \in all : m.id = n.id => m = n
        BY <2>1 DEF UniqueIds, ToSet
  <2> QED BY <2>1, <2>2 DEF Identified
<1>3. /\ ask.from \in Int /\ ask.to \in Int /\ ask.from < ask.to
      /\ ask.blocks = x.blocks /\ ask.exclude = x.exclude /\ ask.driving = FALSE /\ ask.radius = Null
      /\ \A b \in ask.blocks : b.from \in Int /\ b.to \in Int
  <2>1. /\ x.now \in Int /\ x.dueAt \in Maybe(Int)
        /\ \A b \in x.blocks : b.from \in Int /\ b.to \in Int
        BY BroadcastCallsAreLegal
  <2>2. ask.from \in Int /\ ask.to = AddMinutes(ask.from, 120)
        BY <2>1 DEF BroadcastAsk, Maybe
  <2> DEFINE zero == 0
             window == 120
  <2>3. zero \in Int /\ window \in Int /\ zero < window
        OBVIOUS
  <2>s. AddMinutes(ask.from, zero) = ask.from
    <3>1. AddMinutes(ask.from, zero) = ask.from + zero * Minute /\ zero * Minute = 0
          BY MinuteLasts DEF AddMinutes
    <3> QED BY <2>2, <3>1
  <2> HIDE DEF zero
  <2>4. ask.to = AddMinutes(ask.from, window)
        BY <2>2
  <2> HIDE DEF window
  <2>5. ask.to \in Int /\ ask.from < ask.to
    <3> DEFINE t == ask.from
    <3>1. t \in Int
          BY <2>2
    <3> HIDE DEF t
    <3>2. AddMinutes(t, zero) < AddMinutes(t, window)
          BY <2>3, <3>1, MinutesOrdered
    <3>3. AddMinutes(t, window) \in Int
          BY <2>3, <3>1, MinutesAdded
    <3> QED BY <2>4, <2>s, <3>2, <3>3 DEF t
  <2> QED BY <2>1, <2>2, <2>5 DEF BroadcastAsk
<1>4. InOrder(s, BetterPairs(cover), cover)
  <2> HIDE DEF pool
  <2> QED BY <1>1, <1>2, BackupsInOrder
<1>5. answer = [mode |-> ClassifyUrgencyCascade(x.urgency), candidates |-> s,
                selected |-> IF s = <<>> THEN Null ELSE s[1].id]
      BY DEF BroadcastAnswer
<1>6. \A m \in all : m \in cover <=>
          /\ m.active /\ m.role # "DEPENDENT" /\ m.id \notin ask.exclude
          /\ HasClearedSchedule(m.id, ask.from, ask.to, ask.blocks)
      BY <1>3 DEF CanCover
<1>7. ASSUME NEW m \in all
      PROVE  /\ HasClearedSchedule(m.id, ask.from, ask.to, ask.blocks) => ~busy(m)
             /\ (\A b \in ask.blocks : b.from < b.to) /\ ~busy(m) =>
                   HasClearedSchedule(m.id, ask.from, ask.to, ask.blocks)
  <2>1. ASSUME NEW b \in ask.blocks
        PROVE  /\ \A t \in ask.from .. ask.to - 1 : b.from <= t /\ t < b.to =>
                      WindowsOverlap(b.from, b.to, ask.from, ask.to)
               /\ b.from < b.to /\ WindowsOverlap(b.from, b.to, ask.from, ask.to) =>
                      \E t \in ask.from .. ask.to - 1 : b.from <= t /\ t < b.to
        BY <1>3, CoveredMeansOverlap
  <2> QED BY <2>1 DEF HasClearedSchedule
<1> HIDE DEF s, cover, all, pool, answer
<1>8. ToSet(s) = cover /\ (s = <<>> <=> cover = {})
  <2>1. /\ Cardinality(cover) \in Nat /\ s \in [1 .. Cardinality(cover) -> cover]
        /\ Len(s) = Cardinality(cover) /\ \A m \in cover : \E k \in 1 .. Cardinality(cover) : s[k] = m
        BY <1>4 DEF InOrder
  <2>2. ToSet(s) = cover
        BY <2>1 DEF ToSet
  <2>3. s = <<>> => cover = {}
        BY <2>1
  <2>4. cover = {} => s = <<>>
        BY <2>1
  <2> QED BY <2>2, <2>3, <2>4
<1>9. ASSUME cover # {}
      PROVE  s[1] \in cover /\ \A n \in cover : ~Better(n, s[1])
  <2>1. /\ Cardinality(cover) \in Nat /\ s \in [1 .. Cardinality(cover) -> cover]
        /\ \A m \in cover : \E k \in 1 .. Cardinality(cover) : s[k] = m
        /\ \A i, j \in 1 .. Cardinality(cover) : i < j => <<s[i], s[j]>> \in BetterPairs(cover)
        BY <1>4 DEF InOrder
  <2>2. 1 \in 1 .. Cardinality(cover)
        BY <1>9, <2>1
  <2>3. ASSUME NEW n \in cover, Better(n, s[1]) PROVE FALSE
    <3>1. PICK k \in 1 .. Cardinality(cover) : s[k] = n
          BY <2>1
    <3>2. s[1] \in cover /\ n \in pool /\ s[1] \in pool
          BY <2>1, <2>2 DEF cover
    <3>3. ~Better(s[1], n) /\ n # s[1]
      <4>1. BackupScore(n) \in Int /\ BackupScore(s[1]) \in Int /\ n.id \in Int /\ s[1].id \in Int
            BY <1>2, <3>2, ScoreIsNumber DEF Identified
      <4> QED BY <2>3, <4>1 DEF Better
    <3>4. k # 1 /\ 1 < k
          BY <2>1, <3>1, <3>3
    <3>5. <<s[1], n>> \in BetterPairs(cover)
          BY <2>1, <2>2, <3>1, <3>4
    <3> QED BY <3>3, <3>5 DEF BetterPairs
  <2> QED BY <2>1, <2>2, <2>3
<1>10. ASSUME NEW other \in SetToSeqs(all) PROVE BroadcastAnswer(other, x.urgency, ask) = answer
  <2>1. ToSet(other) = all
        BY <1>1, ArrangementHoldsAll
  <2> QED BY <2>1 DEF BroadcastAnswer, answer, all
<1>11. /\ ToSet(answer.candidates) = cover /\ answer.selected = IF s = <<>> THEN Null ELSE s[1].id
       BY <1>5, <1>8
<1>12. cover \subseteq able /\ ((\A b \in ask.blocks : b.from < b.to) => able \subseteq cover)
  <2>1. \A m \in cover : m \in all
        BY DEF cover, pool
  <2> QED BY <1>6, <1>7, <2>1
<1>13. answer.selected = Null <=> cover = {}
  <2>1. \A m \in cover : m.id \in Int
        BY <1>2 DEF Identified, cover
  <2> QED BY <1>8, <1>9, <1>11, <2>1, NullIsMissing
<1>14. cover # {} => \E m \in cover : m.id = answer.selected /\ \A n \in cover : ~Better(n, m)
       BY <1>8, <1>9, <1>11
<1>15. ToSet(answer.candidates) \subseteq able
       BY <1>11, <1>12
<1>16. (\A b \in ask.blocks : b.from < b.to) => able \subseteq ToSet(answer.candidates)
       BY <1>11, <1>12
<1> HIDE DEF able
<1> QED
  <2>1. able = {m \in all : m.active /\ m.role # "DEPENDENT" /\ m.id \notin ask.exclude /\ ~busy(m)}
        BY DEF able
  <2> QED BY <1>10, <1>11, <1>13, <1>14, <1>15, <1>16, <2>1 DEF AsksTheBest, all, answer

\* An offer's history: one event after each move.
History(h, deadline, moves) ==
    /\ h[0] = Offer(deadline)
    /\ \A k \in 1 .. Len(moves) : h[k] = Worked(h[k - 1], moves[k])

LEMMA WorkedInOrder ==
    ASSUME NEW deadline, NEW moves, IsList(moves)
    PROVE  \E h : History(h, deadline, moves) /\ WorkedOffer(deadline, moves) = h[Len(moves)]
<1> DEFINE n == Len(moves)
           D == DOMAIN moves
           base == Offer(deadline)
           C == {Null} \cup {moves[i].member : i \in D}
           T == {Null} \cup {moves[i].at : i \in D}
           Y == [tier : Nat, deadline : {deadline}, claimedBy : C, resolvedAt : T]
           step == [p \in D \X Y |-> Worked(p[2], moves[p[1]])]
           It(g) == g = [t \in SUBSET D |-> IF t = {} THEN base
                            ELSE Worked(g[t \ {Max(t)}], moves[Max(t)])]
           it == CHOOSE g : It(g)
<1>1. n \in Nat /\ D = 1 .. n
      BY ListIsFinite
<1>2. base \in Y
      BY DEF Offer
<1>3. ASSUME NEW i \in D, NEW e \in Y PROVE Worked(e, moves[i]) \in Y
  <2>1. moves[i].member \in C /\ moves[i].at \in T
        OBVIOUS
  <2> DEFINE m == moves[i]
  <2>2. m.member \in C /\ m.at \in T
        BY <2>1
  <2> HIDE DEF m, C, T
  <2>3. ClaimOffer(e, m.member, m.at) \in Y
        BY <2>2 DEF ClaimOffer
  <2>4. RejectOffer(e) \in Y
        BY DEF RejectOffer
  <2> QED BY <2>3, <2>4 DEF Worked, m
<1>4. StepsInto(step, D, Y)
  <2>1. ASSUME NEW i \in D, NEW e \in Y PROVE step[<<i, e>>] \in Y
    <3>1. step[<<i, e>>] = Worked(e, moves[i])
      <4> HIDE DEF D, Y
      <4> QED OBVIOUS
    <3> HIDE DEF step, Y
    <3> QED BY <1>3, <3>1
  <2> HIDE DEF step, Y, D
  <2> QED BY <2>1 DEF StepsInto
<1>5. \A i \in D, e \in Y : step[<<i, e>>] = Worked(e, moves[i])
  <2> HIDE DEF D, Y
  <2> QED OBVIOUS
<1> HIDE DEF n, base, Y, step, D
<1>6. PICK g \in [SUBSET D -> Y] : LeftFolds(g, D, base, step)
      BY <1>1, <1>2, <1>4, LeftFoldExists
<1>7. ASSUME NEW t \in SUBSET D, t # {} PROVE Max(t) \in t /\ g[t] = Worked(g[t \ {Max(t)}], moves[Max(t)])
  <2>1. IsFiniteSet(t) /\ t \in SUBSET Int
    <3>1. IsFiniteSet(D) /\ D \subseteq Int
          BY <1>1, Prefixes1N
    <3> QED BY <3>1, FS_Subset
  <2>2. Max(t) \in t
        BY <1>7, <2>1, MaxOfFinite
  <2>3. g[t \ {Max(t)}] \in Y /\ Max(t) \in D
        BY <2>2
  <2>4. g[t] = step[<<Max(t), g[t \ {Max(t)}]>>]
        BY <1>6, <1>7 DEF LeftFolds
  <2> QED BY <1>5, <2>2, <2>3, <2>4
<1>8. g[{}] = base
      BY <1>6 DEF LeftFolds
<1>9. It(g)
  <2>1. g = [t \in SUBSET D |-> g[t]]
        OBVIOUS
  <2> QED BY <1>7, <1>8, <2>1
<1>10. It(it)
  <2>1. \E f : It(f)
        BY <1>9
  <2> HIDE DEF It
  <2> QED BY <2>1
<1>11. WorkedOffer(deadline, moves) = it[D]
       BY DEF WorkedOffer, FoldLeft, MapThenFoldSet, D, base
<1>12. it[{}] = base /\ \A t \in SUBSET D : t # {} => it[t] = Worked(it[t \ {Max(t)}], moves[Max(t)])
  <2>1. {} \in SUBSET D
        OBVIOUS
  <2> HIDE DEF it
  <2> QED BY <1>10, <2>1
<1> DEFINE h == [k \in 0 .. n |-> it[1 .. k]]
<1>13. ASSUME NEW k \in 1 .. n PROVE h[k] = Worked(h[k - 1], moves[k])
  <2>1. k \in 0 .. n /\ k - 1 \in 0 .. n
        BY <1>1
  <2>2. h[k] = it[1 .. k] /\ h[k - 1] = it[1 .. k - 1]
        BY <2>1
  <2>3. /\ 1 .. k \in SUBSET D /\ 1 .. k # {}
        /\ Max(1 .. k) = k /\ (1 .. k) \ {k} = 1 .. k - 1
        BY <1>1, Prefixes1N
  <2> HIDE DEF h, it
  <2> QED BY <1>12, <2>2, <2>3
<1>14. h[0] = base /\ h[n] = it[D]
  <2>1. 0 \in 0 .. n /\ n \in 0 .. n /\ 1 .. 0 = {}
        BY <1>1
  <2> HIDE DEF it
  <2> QED BY <1>1, <1>12, <2>1
<1> HIDE DEF h, it
<1>15. History(h, deadline, moves)
       BY <1>13, <1>14 DEF History, base, n
<1> QED BY <1>11, <1>14, <1>15 DEF n

LEMMA ClaimOfWaiting ==
    ASSUME NEW tier, NEW deadline, NEW id, NEW now,
           NEW e, e = [tier |-> tier, deadline |-> deadline, claimedBy |-> Null, resolvedAt |-> Null]
    PROVE  ClaimOffer(e, id, now) = [tier |-> tier, deadline |-> deadline, claimedBy |-> id, resolvedAt |-> now]
<1>1. ClaimOffer(e, id, now) = [e EXCEPT !.claimedBy = id, !.resolvedAt = now]
      BY DEF ClaimOffer
<1> QED BY <1>1

LEMMA FirstClaimStandsAlways ==
    ASSUME NEW x \in OfferCalls
    PROVE  FirstClaimStands(x.moves, WorkedOffer(x.deadline, x.moves))
<1> DEFINE moves == x.moves
           n == Len(moves)
           claims == {i \in DOMAIN moves : moves[i].kind = "claim"}
           event == WorkedOffer(x.deadline, moves)
<1>1. /\ IsList(moves) /\ x.deadline \in Int
      /\ \A i \in DOMAIN moves :
            \/ moves[i].kind = "claim" /\ moves[i].member # Null /\ moves[i].at # Null
            \/ moves[i].kind = "reject"
      BY OfferCallsAreLegal
<1>2. n \in Nat /\ DOMAIN moves = 1 .. n
      BY <1>1, ListIsFinite
<1>3. PICK h : History(h, x.deadline, moves) /\ event = h[n]
      BY <1>1, WorkedInOrder
\* Before the first claim each rejection widens the search, after it nothing changes.
<1> DEFINE Waiting(k) == h[k] = [tier |-> k + 1, deadline |-> x.deadline, claimedBy |-> Null, resolvedAt |-> Null]
           Taken(k, f) == h[k] = [tier |-> f, deadline |-> x.deadline, claimedBy |-> moves[f].member, resolvedAt |-> moves[f].at]
           Least(f) == f \in claims /\ \A i \in claims : f <= i
           T == {k \in Nat : k <= n => /\ (\A i \in claims : k < i) => Waiting(k)
                                      /\ \A f \in 1 .. k : Least(f) => Taken(k, f)}
<1> HIDE DEF event, n, moves, claims
<1>4. 0 \in T
      BY <1>3 DEF History, Offer
<1>5. ASSUME NEW k \in Nat, k \in T PROVE k + 1 \in T
  <2> SUFFICES ASSUME k + 1 <= n
               PROVE  /\ (\A i \in claims : k + 1 < i) => Waiting(k + 1)
                      /\ \A f \in 1 .. k + 1 : Least(f) => Taken(k + 1, f)
      OBVIOUS
  <2>1. k + 1 \in 1 .. n /\ k \in 0 .. n /\ (k + 1) - 1 = k
        BY <1>2
  <2>2. h[k + 1] = Worked(h[k], moves[k + 1])
        BY <1>3, <2>1 DEF History, n
  <2>3. /\ (\A i \in claims : k < i) => Waiting(k)
        /\ \A f \in 1 .. k : Least(f) => Taken(k, f)
        BY <1>5, <2>1
  <2>4. claims \subseteq Int
        BY <1>2 DEF claims
  <2>5. ASSUME \A i \in claims : k + 1 < i PROVE Waiting(k + 1)
    <3>1. k + 1 \notin claims /\ \A i \in claims : k < i
          BY <2>4, <2>5
    <3>2. moves[k + 1].kind # "claim"
          BY <1>2, <2>1, <3>1 DEF claims
    <3>3. h[k + 1] = RejectOffer(h[k])
          BY <2>2, <3>2 DEF Worked
    <3>4. h[k] = [tier |-> k + 1, deadline |-> x.deadline, claimedBy |-> Null, resolvedAt |-> Null]
          BY <2>3, <3>1
    <3> QED BY <3>3, <3>4 DEF RejectOffer
  <2>6. ASSUME NEW f \in 1 .. k + 1, Least(f) PROVE Taken(k + 1, f)
    <3>1. CASE f = k + 1
      <4>1. \A i \in claims : k < i
            BY <2>4, <2>6, <3>1
      <4>2. h[k] = [tier |-> k + 1, deadline |-> x.deadline, claimedBy |-> Null, resolvedAt |-> Null]
            BY <2>3, <4>1
      <4>3. moves[f].kind = "claim"
            BY <2>6 DEF claims
      <4>4. h[k + 1] = ClaimOffer(h[k], moves[f].member, moves[f].at)
            BY <2>2, <3>1, <4>3 DEF Worked
      <4>7. h[k + 1] = [tier |-> k + 1, deadline |-> x.deadline, claimedBy |-> moves[f].member,
                        resolvedAt |-> moves[f].at]
            BY <4>2, <4>4, ClaimOfWaiting
      <4> QED BY <3>1, <4>7
    <3>2. CASE f # k + 1
      <4>1. f \in 1 .. k
            BY <3>2
      <4>2. h[k] = [tier |-> f, deadline |-> x.deadline, claimedBy |-> moves[f].member, resolvedAt |-> moves[f].at]
            BY <2>3, <2>6, <4>1
      <4>3. moves[f].at # Null
            BY <1>1, <2>6 DEF claims, moves
      <4>4. h[k].resolvedAt # Null
            BY <4>2, <4>3
      <4>5. h[k + 1] = h[k]
            BY <2>2, <4>4 DEF Worked, ClaimOffer, RejectOffer
      <4> QED BY <4>2, <4>5
    <3> QED BY <3>1, <3>2
  <2> QED BY <2>5, <2>6
<1> HIDE DEF T
<1>6. n \in T
      BY <1>2, <1>4, <1>5, NumberInduction
<1>7. /\ (\A i \in claims : n < i) => Waiting(n)
      /\ \A f \in 1 .. n : Least(f) => Taken(n, f)
      BY <1>2, <1>6 DEF T
<1> DEFINE first == IF claims = {} THEN Len(moves) + 1 ELSE Min(claims)
           rejected == {i \in 1 .. first - 1 : moves[i].kind = "reject"}
<1>8. claims # {} => /\ first \in 1 .. n /\ Least(first)
  <2> SUFFICES ASSUME claims # {} PROVE first \in 1 .. n /\ Least(first)
      OBVIOUS
  <2>1. IsFiniteSet(claims) /\ claims \in SUBSET Int /\ claims \subseteq 1 .. n
        BY <1>1, <1>2, ListIsFinite, FS_Subset DEF claims, moves
  <2>2. Min(claims) \in claims /\ \A y \in claims : Min(claims) <= y
        BY <2>1, MinOfFinite
  <2> QED BY <2>1, <2>2
<1>9. first \in Nat /\ first >= 1 /\ Cardinality(rejected) = first - 1
  <2>1. first \in Nat /\ first >= 1
        BY <1>2, <1>8 DEF n
  <2>2. rejected = 1 .. first - 1
    <3> SUFFICES ASSUME NEW i \in 1 .. first - 1 PROVE moves[i].kind = "reject"
        OBVIOUS
    <3>1. i \in 1 .. n /\ i \notin claims
      <4>1. CASE claims = {}
            BY <1>2, <4>1 DEF n
      <4>2. CASE claims # {}
        <5> HIDE DEF first
        <5> QED BY <1>2, <1>8, <2>1, <4>2
      <4> QED BY <4>1, <4>2
    <3> QED BY <1>1, <1>2, <3>1 DEF claims, moves
  <2> HIDE DEF first
  <2> DEFINE hi == first - 1
  <2>3. 1 \in Int /\ hi \in Int /\ hi >= 0
        BY <2>1
  <2> HIDE DEF hi
  <2>4. Cardinality(1 .. hi) = IF 1 > hi THEN 0 ELSE hi - 1 + 1
        BY <2>3, FS_Interval
  <2>5. Cardinality(1 .. hi) = hi
        BY <2>3, <2>4
  <2> QED BY <2>1, <2>2, <2>5 DEF hi
<1>10. event = IF claims = {}
               THEN [tier |-> first, deadline |-> x.deadline, claimedBy |-> Null, resolvedAt |-> Null]
               ELSE [tier |-> first, deadline |-> x.deadline, claimedBy |-> moves[first].member,
                     resolvedAt |-> moves[first].at]
  <2>1. CASE claims = {}
    <3>1. first = n + 1
          BY <2>1 DEF n
    <3> QED BY <1>3, <1>7, <2>1, <3>1
  <2>2. CASE claims # {}
    <3> HIDE DEF first
    <3> QED BY <1>3, <1>7, <1>8, <2>2
  <2> QED BY <2>1, <2>2
<1>11. claims # {} => moves[first].member # Null /\ moves[first].at # Null
  <2> HIDE DEF first
  <2> QED BY <1>1, <1>8 DEF claims, moves
<1>12. /\ event.tier = first /\ event.deadline = x.deadline
       /\ event.claimedBy = IF claims = {} THEN Null ELSE moves[first].member
       /\ event.resolvedAt # Null <=> claims # {}
       /\ event.claimedBy = Null <=> claims = {}
  <2> HIDE DEF first
  <2> QED BY <1>10, <1>11
<1> DEFINE instants == {AddMinutes(event.deadline, -21), AddMinutes(event.deadline, -21) + 1,
                        AddMinutes(event.deadline, -20), AddMinutes(event.deadline, 5)}
<1>d. event.deadline \in Int
      BY <1>1, <1>12
<1>13. ASSUME NEW now \in instants
       PROVE  DecideCriticalOverride(event, now)
                <=> claims = {} /\ event.deadline < AddMinutes(now, CriticalOverrideMinutes + 1)
  <2> DEFINE e == event.deadline
             late == -21
             due == -20
             over == 5
             limit == CriticalOverrideMinutes + 1
  <2>1. now \in Int
    <3>1. late \in Int /\ due \in Int /\ over \in Int
          OBVIOUS
    <3>2. now \in {AddMinutes(e, late), AddMinutes(e, late) + 1, AddMinutes(e, due), AddMinutes(e, over)}
          OBVIOUS
    <3> HIDE DEF late, due, over, event, instants
    <3>3. AddMinutes(e, late) \in Int /\ AddMinutes(e, due) \in Int /\ AddMinutes(e, over) \in Int
          BY <1>d, <3>1, MinutesAdded
    <3> QED BY <3>2, <3>3
  <2>2. limit \in Int /\ CriticalOverrideMinutes \in Int /\ limit = CriticalOverrideMinutes + 1
        BY DEF CriticalOverrideMinutes
  <2>3. DecideCriticalOverride(event, now) <=> claims = {} /\ DiffMinutes(e, now) <= CriticalOverrideMinutes
    <3> HIDE DEF first, event
    <3> QED BY <1>12 DEF DecideCriticalOverride
  <2> HIDE DEF limit, e
  <2>4. /\ DiffMinutes(e, now) \in Int
        /\ DiffMinutes(e, now) < limit <=> e < AddMinutes(now, limit)
        BY <1>d, <2>1, <2>2, MinutesCompared DEF e
  <2>5. DiffMinutes(e, now) <= CriticalOverrideMinutes <=> e < AddMinutes(now, limit)
        BY <2>2, <2>4
  <2> QED BY <2>3, <2>5 DEF e, limit
<1>14. event.tier = 1 + Cardinality(rejected)
  <2> HIDE DEF first, rejected
  <2> QED BY <1>9, <1>12
<1> QED
  <2>1. claims = {i \in DOMAIN moves : moves[i].kind = "claim"} /\ moves = x.moves
        BY DEF claims, moves
  <2> QED BY <1>12, <1>13, <1>14, <2>1 DEF FirstClaimStands, event

\* selectBackup, processClaim, processReject: for every household, window and
\* history of an offer, the best of those who are free is asked, and the first to
\* claim has the task.
THEOREM EscalationSound == Spec => []EscalationIsSound
<1>1. Legal /\ Answers => EscalationIsSound
  <2>1. Answers => BroadcastAsksTheBest
        BY BroadcastAnswers DEF Answers, BroadcastAsksTheBest
  <2>2. Answers => FirstClaimIsFinal
        BY FirstClaimStandsAlways DEF Answers, FirstClaimIsFinal
  <2> QED BY <2>1, <2>2 DEF EscalationIsSound
<1> QED BY <1>1, AnswersFollow, PTL

-----------------------------------------------------------------------------
(* Commute: who drives, and what the radar reports.                             *)

LEMMA SynergyIsNumber ==
    ASSUME NEW m, m.commute \in Maybe(Nat), m.km \in Maybe(Nat), NEW km \in Int
    PROVE  /\ SynergyScore(m, km) \in Int
           /\ m.km # Null /\ m.km <= km => SynergyScore(m, km) >= 100
           /\ ~(m.km # Null /\ m.km <= km) => SynergyScore(m, km) <= 50
<1> DEFINE zero == 0
           y == 50 - m.km
           z == 30 - m.commute
<1>1. ASSUME m.km # Null PROVE Max({zero, y}) \in 0 .. 50
  <2>1. zero \in Int /\ zero = 0 /\ y \in Int /\ y <= 50
        BY <1>1 DEF Maybe
  <2> HIDE DEF zero, y
  <2> QED BY <2>1, MaxOfTwo
<1>2. ASSUME m.commute # Null PROVE Max({zero, z}) \in 0 .. 30
  <2>1. zero \in Int /\ zero = 0 /\ z \in Int /\ z <= 30
        BY <1>2 DEF Maybe
  <2> HIDE DEF zero, z
  <2> QED BY <2>1, MaxOfTwo
<1>3. CASE m.km # Null
  <2>1. SynergyScore(m, km) = (IF m.km <= km THEN 100 ELSE 0) + Max({zero, y})
        BY <1>3 DEF SynergyScore
  <2> HIDE DEF zero, y
  <2> QED BY <1>1, <1>3, <2>1
<1>4. CASE m.km = Null /\ m.commute # Null
  <2>1. SynergyScore(m, km) = Max({zero, z})
        BY <1>4 DEF SynergyScore
  <2> HIDE DEF zero, z
  <2> QED BY <1>2, <1>4, <2>1
<1>5. CASE m.km = Null /\ m.commute = Null
      BY <1>5 DEF SynergyScore
<1> QED BY <1>3, <1>4, <1>5

LEMMA NearestIsFirst ==
    ASSUME NEW x \in DropoffCalls
    PROVE  OnRouteFirst(x.members, x.km, AssignByRouteSynergy(x.members, x.km))
<1> DEFINE all == ToSet(x.members)
           S == {m \in all : m.active /\ m.role # "DEPENDENT" /\ m.drives}
           R == {p \in S \X S : NearerBy(p[1], p[2], x.km)}
           s == RankBySynergy(x.members, x.km)
           score == [m \in S |-> SynergyScore(m, x.km)]
           passing == {m \in S : m.km # Null /\ m.km <= x.km}
<1>1. /\ IsList(x.members) /\ UniqueIds(x.members) /\ x.km \in Int
      /\ \A m \in all : m.id \in Int /\ m.commute \in Maybe(Nat) /\ m.km \in Maybe(Nat)
      BY DropoffCallsAreLegal
<1>2. IsFiniteSet(S)
  <2>1. IsFiniteSet(all) /\ S \subseteq all
        BY <1>1, ListIsFinite
  <2> HIDE DEF S, all
  <2> QED BY <2>1, FS_Subset
<1>3. \A m, n \in S : m.id = n.id => m = n
      BY <1>1 DEF UniqueIds, ToSet
<1>4. s = SortedBy(S, R)
      BY DEF RankBySynergy
<1>5. \A m, n \in S : <<m, n>> \in R <=> NearerBy(m, n, x.km)
      BY DEF NearerBy
<1>6. ASSUME NEW m \in S
      PROVE  /\ score[m] \in Int /\ m.id \in Int
             /\ m \in passing => score[m] >= 100
             /\ m \notin passing => score[m] <= 50
  <2>1. /\ SynergyScore(m, x.km) \in Int
        /\ m.km # Null /\ m.km <= x.km => SynergyScore(m, x.km) >= 100
        /\ ~(m.km # Null /\ m.km <= x.km) => SynergyScore(m, x.km) <= 50
        BY <1>1, SynergyIsNumber
  <2> QED BY <1>1, <2>1
<1>7. \A m, n \in S : NearerBy(m, n, x.km) <=> score[m] > score[n] \/ (score[m] = score[n] /\ m.id < n.id)
      BY DEF NearerBy
<1>8. /\ AssignByRouteSynergy(x.members, x.km) = IF s = <<>> THEN Null ELSE s[1].id
      /\ {m \in ToSet(x.members) : m.active /\ m.drives /\ m.role # "DEPENDENT"} = S
      BY DEF AssignByRouteSynergy
<1> HIDE DEF score, R, s, S
<1>9. Orders(R, S)
  <2>1. \A m \in S : ~NearerBy(m, m, x.km)
        BY <1>6, <1>7
  <2>2. \A m, n \in S : m # n => NearerBy(m, n, x.km) \/ NearerBy(n, m, x.km)
        BY <1>3, <1>6, <1>7
  <2>3. \A m, n, o \in S : NearerBy(m, n, x.km) /\ NearerBy(n, o, x.km) => NearerBy(m, o, x.km)
        BY <1>6, <1>7
  <2> QED BY <1>5, <2>1, <2>2, <2>3 DEF Orders
<1>10. InOrder(s, R, S)
       BY <1>2, <1>4, <1>9, SortedByFacts
<1>11. /\ Cardinality(S) \in Nat /\ s \in [1 .. Cardinality(S) -> S] /\ Len(s) = Cardinality(S)
       /\ \A m \in S : \E k \in 1 .. Cardinality(S) : s[k] = m
       /\ \A i, j \in 1 .. Cardinality(S) : i < j => <<s[i], s[j]>> \in R
       BY <1>10 DEF InOrder
<1>12. s = <<>> <=> S = {}
  <2>1. s = <<>> => S = {}
        BY <1>11
  <2>2. S = {} => s = <<>>
        BY <1>11
  <2> QED BY <2>1, <2>2
<1>13. ASSUME NEW m \in passing PROVE s[1] \in passing
  <2>1. m \in S /\ score[m] >= 100
        BY <1>6
  <2>2. 1 \in 1 .. Cardinality(S) /\ s[1] \in S
        BY <1>11, <2>1
  <2>3. PICK k \in 1 .. Cardinality(S) : s[k] = m
        BY <1>11, <2>1
  <2>4. CASE k = 1
        BY <2>3, <2>4
  <2>5. CASE k # 1
    <3>1. 1 < k
          BY <1>11, <2>5
    <3>2. NearerBy(s[1], m, x.km)
          BY <1>5, <1>11, <2>1, <2>2, <2>3, <3>1
    <3>3. score[s[1]] >= 100
          BY <1>6, <1>7, <2>1, <2>2, <3>2
    <3> QED BY <1>6, <2>2, <3>3
  <2> QED BY <2>4, <2>5
<1>14. S # {} => s[1] \in S /\ s[1].id # Null
  <2> SUFFICES ASSUME S # {} PROVE s[1] \in S /\ s[1].id # Null
      OBVIOUS
  <2>1. 1 \in 1 .. Cardinality(S)
        BY <1>11
  <2>2. s[1] \in S
        BY <1>11, <2>1
  <2> QED BY <1>6, <2>2, NullIsMissing
<1> QED BY <1>8, <1>12, <1>13, <1>14 DEF OnRouteFirst

LEMMA ReachAnswers ==
    ASSUME NEW x \in DropoffCalls
    PROVE  PickupIsReached(x.members, x.trip, FilterByCommute(x.members, x.trip))
<1> DEFINE members == x.members
           trip == x.trip
           D == DOMAIN members
           able == {i \in D : Reaches(members[i], trip)}
           late(m) == m.commute # Null /\ trip.leaveAt # Null
                        /\ AddMinutes(trip.leaveAt, m.commute + trip.buffer) > trip.pickupAt
           out == {m \in ToSet(members) : ~m.active \/ (trip.driving /\ ~m.drives) \/ late(m)}
<1>1. /\ IsFiniteSet(D) /\ D \subseteq Int
      /\ trip.pickupAt \in Int /\ trip.leaveAt \in Maybe(Int) /\ trip.buffer \in Int
      /\ \A m \in ToSet(members) : m.commute \in Maybe(Nat)
  <2>1. IsList(members)
        BY DropoffCallsAreLegal
  <2>2. IsFiniteSet(D) /\ D = 1 .. Len(members)
        BY <2>1, ListIsFinite
  <2> QED BY <2>2, DropoffCallsAreLegal
<1>2. ASSUME NEW m \in ToSet(members) PROVE Reaches(m, trip) <=> m \notin out
  <2>1. ASSUME m.commute # Null, trip.leaveAt # Null
        PROVE  m.commute + trip.buffer <= DiffMinutes(trip.pickupAt, trip.leaveAt)
                 <=> ~(AddMinutes(trip.leaveAt, m.commute + trip.buffer) > trip.pickupAt)
    <3> DEFINE n == m.commute + trip.buffer
               t == trip.leaveAt
               u == trip.pickupAt
    <3>1. n \in Int /\ t \in Int /\ u \in Int
          BY <1>1, <2>1 DEF Maybe
    <3> HIDE DEF n, t, u
    <3>2. n <= DiffMinutes(u, t) <=> AddMinutes(t, n) <= u
          BY <3>1, MinutesCompared
    <3>3. AddMinutes(t, n) \in Int
          BY <3>1, MinutesAdded
    <3>4. n <= DiffMinutes(u, t) <=> ~(AddMinutes(t, n) > u)
          BY <3>1, <3>2, <3>3
    <3> QED BY <3>4 DEF n, t, u
  <2> HIDE DEF members, trip
  <2> QED BY <2>1 DEF Reaches
<1> HIDE DEF members, trip, out
<1>3. ASSUME NEW I, I \subseteq D PROVE ToSet(Kept(members, I)) = {members[i] : i \in I}
  <2>1. IsFiniteSet(I) /\ I \subseteq Int
        BY <1>1, <1>3, FS_Subset
  <2>2. PICK o : Arranges(Kept(members, I), o, members, I)
        BY <2>1, KeptFacts
  <2> QED BY <2>2 DEF Arranges, ToSet
<1>4. able \subseteq D /\ D \ able \subseteq D
      OBVIOUS
<1>5. /\ {members[i] : i \in able} = ToSet(members) \ out
      /\ {members[i] : i \in D \ able} = out
  <2>1. out \subseteq ToSet(members)
        BY DEF out
  <2>2. ToSet(members) = {members[i] : i \in D}
        BY DEF ToSet
  <2>3. \A i \in D : Reaches(members[i], trip) <=> members[i] \notin out
        BY <1>2, <2>2
  <2> QED BY <2>1, <2>2, <2>3
<1> DEFINE reach == FilterByCommute(members, trip)
<1>6. reach.feasible = Kept(members, able) /\ reach.infeasible = Kept(members, D \ able)
      BY DEF FilterByCommute
<1> HIDE DEF able, reach
<1>7. ToSet(reach.infeasible) = out /\ ToSet(reach.feasible) = ToSet(members) \ out
      BY <1>3, <1>4, <1>5, <1>6
<1>8. PickupIsReached(members, trip, reach)
      BY <1>7 DEF PickupIsReached, out
<1> QED BY <1>8 DEF members, trip, reach

\* filterByCommute, assignByRouteSynergy, detectConflicts: exactly those who can be at
\* the pickup in time are feasible, whoever passes the place is sent before anybody who
\* does not, comparing neighbours misses no double booking and reports no squeeze that
\* is none, for every household, list of commitments and buffer.
THEOREM CommuteSound == Spec => []CommuteIsSound
<1>1. ASSUME NEW x \in RadarCalls
      PROVE  /\ RippleIsReal(x.commitments, DetectConflicts(x.commitments, x.members, x.buffer))
             /\ SqueezeIsReal(x.commitments, x.buffer, DetectConflicts(x.commitments, x.members, x.buffer))
  <2> DEFINE cs == x.commitments
  <2>1. IsList(cs) /\ x.buffer \in Int /\ \A c \in ToSet(cs) : c.from \in Int /\ c.to \in Int
        BY RadarCallsAreLegal
  <2>2. Timed(cs)
        BY <2>1, ListIsFinite DEF Timed, ToSet
  <2> HIDE DEF cs
  <2> QED BY <2>1, <2>2, RadarFinds, RadarIsRight DEF cs
<1>2. Legal /\ Answers => CommuteIsSound
  <2>1. Answers => OnRouteIsFirst
        BY NearestIsFirst DEF Answers, OnRouteIsFirst
  <2>2. Answers => RadarSeesDoubleBooking
        BY <1>1 DEF Answers, RadarSeesDoubleBooking
  <2>3. Answers => PickupIsInReach
        BY ReachAnswers DEF Answers, PickupIsInReach
  <2> QED BY <2>1, <2>2, <2>3 DEF CommuteIsSound
<1> QED BY <1>2, AnswersFollow, PTL

-----------------------------------------------------------------------------
(* Wellbeing.                                                                   *)

LEMMA GapsAnswered ==
    ASSUME NEW x \in WindowCalls
    PROVE  /\ GapsAreFreeTime(x.busy, x.range, ComputeGaps(x.busy, x.range, 0))
           /\ WindowsAreUsable(x.goals, x.busy, x.range, x.buffer,
                 FindMicroWindows(x.member, x.goals, x.busy, x.range, x.buffer))
<1> DEFINE busy == x.busy
           goals == x.goals
           range == x.range
           buffer == x.buffer
           member == x.member
<1>1. /\ IsList(busy) /\ IsList(goals)
      /\ range.from \in Int /\ range.to \in Int /\ buffer \in Nat
      /\ \A b \in ToSet(busy) : b.from \in Int /\ b.to \in Int
      /\ \A g \in ToSet(goals) : g.minutes \in Int
      BY WindowCallsAreLegal
<1> HIDE DEF busy, goals, range, buffer, member
<1>2. Timed(busy)
      BY <1>1, ListIsFinite DEF Timed, ToSet
<1>3. GoalsTimed(goals)
      BY <1>1, ListIsFinite DEF GoalsTimed, ToSet
<1>4. GapsAreFreeTime(busy, range, ComputeGaps(busy, range, 0))
  <2> DEFINE gaps == ComputeGaps(busy, range, 0)
  <2>1. gaps = ComputeGaps(busy, range, 0)
        OBVIOUS
  <2> HIDE DEF gaps
  <2>2. GapsAreFreeTime(busy, range, gaps)
        BY <1>1, <1>2, <2>1, GapsAreRight
  <2> QED BY <2>2 DEF gaps
<1>5. WindowsAreUsable(goals, busy, range, buffer,
                       FindMicroWindows(member, goals, busy, range, buffer))
  <2> DEFINE windows == FindMicroWindows(member, goals, busy, range, buffer)
  <2>1. windows = FindMicroWindows(member, goals, busy, range, buffer)
        OBVIOUS
  <2> HIDE DEF windows
  <2>2. WindowsAreUsable(goals, busy, range, buffer, windows)
        BY <1>1, <1>2, <1>3, <2>1, WindowsAreRight
  <2> QED BY <2>2 DEF windows
<1> QED BY <1>4, <1>5 DEF busy, goals, range, buffer, member

LEMMA SharesAnswered ==
    ASSUME NEW x \in BatteryCalls, NEW equity, equity = ComputeLoadEquity(x.tasks, x.members)
    PROVE  LET total == SumOf([m \in x.members |-> equity[m].share], x.members)
               loaded == \E m \in x.members : equity[m].load > 0
           IN  IF loaded THEN 2 * total \in 2000 - Cardinality(x.members) .. 2000 + Cardinality(x.members)
               ELSE total = 0
<1> DEFINE tasks == x.tasks
           members == x.members
           share == [m \in members |-> equity[m].share]
<1>1. IsList(tasks) /\ (\A t \in ToSet(tasks) : t.urgency \in Urgencies) /\ IsFiniteSet(members)
      BY BatteryCallsAreLegal
<1>2. LoadKnown(tasks)
  <2>1. IsFiniteSet(DOMAIN tasks)
    <3> HIDE DEF tasks
    <3> QED BY <1>1, ListIsFinite
  <2>2. \A i \in DOMAIN tasks : tasks[i].urgency \in Urgencies
        BY <1>1 DEF ToSet
  <2> QED BY <2>1, <2>2 DEF LoadKnown
<1>3. SharesOf(share, tasks, members)
      BY DEF SharesOf
<1> HIDE DEF tasks, members, share
<1>4. OneWhole(share, tasks, members)
      BY <1>1, <1>2, <1>3, SharesMakeTheWhole
<1>5. equity = ComputeLoadEquity(tasks, members)
      BY DEF tasks, members
<1>6. \/ (\A m \in members : equity[m].load = 0) /\ SumOf(share, members) = 0
      \/ /\ \E m \in members : equity[m].load > 0
         /\ 2 * SumOf(share, members) \in 2000 - Cardinality(members) .. 2000 + Cardinality(members)
      BY <1>4, <1>5 DEF OneWhole
<1>7. IF \E m \in members : equity[m].load > 0
      THEN 2 * SumOf(share, members) \in 2000 - Cardinality(members) .. 2000 + Cardinality(members)
      ELSE SumOf(share, members) = 0
      BY <1>6
<1> QED BY <1>7 DEF share, members

LEMMA BatteryAnswered ==
    ASSUME NEW x \in BatteryCalls, NEW m, Target(m, x.goals) < 2000,
           NEW battery, battery = ComputeBalanceBattery(m, x.goals, x.windows, x.tasks, x.members)
    PROVE  battery.completion = 1000 <=> Met(m, x.windows) >= Target(m, x.goals)
<1> DEFINE d == Target(m, x.goals)
           n == Met(m, x.windows)
<1>1. d \in Nat
  <2> DEFINE own == {g \in x.goals : g.member = m}
             v == [g \in own |-> g.count]
  <2>1. IsFiniteSet(x.goals) /\ \A g \in x.goals : g.count \in Nat
        BY BatteryCallsAreLegal
  <2>2. IsFiniteSet(own)
        BY <2>1, FS_Subset
  <2>3. \A g \in own : v[g] \in Nat
        BY <2>1
  <2>4. d = SumOf(v, own)
        BY DEF Target
  <2> HIDE DEF own, v
  <2> QED BY <2>2, <2>3, <2>4, SumAtLeast
<1>2. n \in Nat
  <2>1. IsFiniteSet(x.windows)
        BY BatteryCallsAreLegal
  <2> DEFINE S == {w \in x.windows : w.member = m /\ w.status = "CLAIMED"}
  <2>2. IsFiniteSet(S) /\ n = Cardinality(S)
        BY <2>1, FS_Subset DEF Met
  <2> HIDE DEF S, n
  <2> QED BY <2>2, FS_CardinalityType
<1>3. battery.completion = IF d = 0 THEN 1000 ELSE Clamp(Tenths(n, d), 0, 1000)
      BY DEF ComputeBalanceBattery
<1>4. d < 2000
      OBVIOUS
<1> DEFINE c == battery.completion
           r == Clamp(Tenths(n, d), 0, 1000)
           full == 1000
<1>5. /\ d = 0 => c = full
      /\ d # 0 => c = r
      BY <1>3
<1> HIDE DEF c
<1>6. d # 0 => (r = full <=> n >= d)
  <2> HIDE DEF d, n
  <2> SUFFICES ASSUME d # 0 PROVE r = full <=> n >= d
      OBVIOUS
  <2>1. d > 0
        BY <1>1
  <2> QED BY <1>1, <1>2, <1>4, <2>1, FullExactly
<1>7. d = 0 => n >= d
      BY <1>1, <1>2
<1> DEFINE met == n >= d
<1>8. c = full <=> met
  <2>1. d = 0 => c = full /\ met
        BY <1>5, <1>7
  <2>2. d # 0 => c = r /\ (r = full <=> met)
        BY <1>5, <1>6
  <2> HIDE DEF d, n, r, full, met
  <2> QED BY <2>1, <2>2
<1> HIDE DEF d, n, full
<1> QED BY <1>8 DEF c, d, n, full

\* Gaps are exactly the free time, suggestions keep clear of every block and of each
\* other, rounded shares add up, and the battery is full exactly when the goals are
\* met (wellbeing.ts), whatever the calls.
THEOREM WellbeingSound == Spec => []WellbeingIsSound
<1>1. Legal /\ Answers => WellbeingIsSound
  <2>1. Answers => GapsAreTheFreeTime /\ SuggestionsAreUsable
        BY GapsAnswered DEF Answers, GapsAreTheFreeTime, SuggestionsAreUsable
  <2>2. Answers => SharesAddUp
        BY SharesAnswered DEF Answers, SharesAddUp
  <2>3. Answers => FullWhenGoalsMet
    <3> SUFFICES ASSUME Answers, Answered("battery"), NEW m \in a.members, Target(m, a.goals) < 2000
                 PROVE  reply.battery[m].completion = 1000 <=> Met(m, a.windows) >= Target(m, a.goals)
        BY DEF FullWhenGoalsMet
    <3>1. /\ a \in BatteryCalls
          /\ reply.battery[m] = ComputeBalanceBattery(m, a.goals, a.windows, a.tasks, a.members)
          BY DEF Answers
    <3> DEFINE x == a
               battery == reply.battery[m]
    <3>2. /\ x \in BatteryCalls /\ Target(m, x.goals) < 2000
          /\ battery = ComputeBalanceBattery(m, x.goals, x.windows, x.tasks, x.members)
          BY <3>1
    <3> HIDE DEF x, battery
    <3>3. battery.completion = 1000 <=> Met(m, x.windows) >= Target(m, x.goals)
          BY <3>2, BatteryAnswered
    <3> QED BY <3>3 DEF x, battery
  <2> QED BY <2>1, <2>2, <2>3 DEF WellbeingIsSound
<1> QED BY <1>1, AnswersFollow, PTL

-----------------------------------------------------------------------------
(* Ages.                                                                        *)

\* The date some years before another.
YearsBefore(date, n) == [y |-> date.y - n, m |-> date.m, d |-> date.d]

\* Having reached an age, and not being past it, are facts about the birthday.
LEMMA AgeByBirthday ==
    ASSUME NEW birth \in Dates, NEW today \in Dates, NEW n \in Nat
    PROVE  /\ ComputeAge(birth, today) \in Nat /\ ComputeAge(birth, today) # Null
           /\ ComputeAge(birth, today) >= n <=> n = 0 \/ ~Before(YearsBefore(today, n), birth)
           /\ ComputeAge(birth, today) <= n <=> Before(YearsBefore(today, n + 1), birth)
<1> DEFINE early == today.m - birth.m < 0 \/ (today.m - birth.m = 0 /\ today.d < birth.d)
           years == today.y - birth.y - (IF early THEN 1 ELSE 0)
           zero == 0
           age == ComputeAge(birth, today)
<1>1. /\ birth.y \in Int /\ birth.m \in Int /\ birth.d \in Int
      /\ today.y \in Int /\ today.m \in Int /\ today.d \in Int
      BY DEF Dates
<1>2. age = Max({zero, years})
      BY NullIsMissing DEF ComputeAge
<1>3. years \in Int /\ zero \in Int
      BY <1>1
<1>4. age = IF years > 0 THEN years ELSE 0
  <2> HIDE DEF years, zero, age
  <2>1. age = IF zero >= years THEN zero ELSE years
        BY <1>2, <1>3, MaxOfTwo
  <2> QED BY <1>3, <2>1 DEF zero
<1>5. ASSUME NEW k \in Nat PROVE Before(YearsBefore(today, k), birth) <=> years < k
      BY <1>1 DEF Before, YearsBefore
<1>6. n + 1 \in Nat
      OBVIOUS
<1>7. /\ Before(YearsBefore(today, n), birth) <=> years < n
      /\ Before(YearsBefore(today, n + 1), birth) <=> years < n + 1
      BY <1>5, <1>6
<1> HIDE DEF years, age
<1> QED BY <1>3, <1>4, <1>7, NullIsMissing DEF age
\* Two lists one after the other.
Joined(u, s, t) ==
    /\ Len(s) \in Nat /\ Len(t) \in Nat
    /\ DOMAIN u = 1 .. Len(s) + Len(t) /\ Len(u) = Len(s) + Len(t)
    /\ \A i \in 1 .. Len(s) : u[i] = s[i]
    /\ \A i \in 1 .. Len(t) : u[Len(s) + i] = t[i]

LEMMA JoinKeepsBoth ==
    ASSUME NEW X, NEW Y, NEW s \in Seq(X), NEW t \in Seq(Y)
    PROVE  Joined(s \o t, s, t)
<1> DEFINE Z == X \cup Y
           u == s \o t
<1>1. s \in Seq(Z) /\ t \in Seq(Z)
      OBVIOUS
<1> HIDE DEF Z
<1>2. Len(s) \in Nat /\ Len(t) \in Nat /\ u \in Seq(Z) /\ Len(u) = Len(s) + Len(t)
      BY <1>1
<1>3. DOMAIN u = 1 .. Len(s) + Len(t)
      BY <1>2
<1>4. \A i \in 1 .. Len(s) : u[i] = s[i]
      BY <1>1, <1>2
<1>5. \A i \in 1 .. Len(t) : u[Len(s) + i] = t[i]
      BY <1>1, <1>2
<1> QED BY <1>2, <1>3, <1>4, <1>5 DEF Joined

LEMMA ImageIsFinite ==
    ASSUME NEW S, IsFiniteSet(S), NEW f
    PROVE  IsFiniteSet({f[x] : x \in S})
<1> DEFINE g == [x \in S |-> f[x]]
<1>1. g \in Surjection(S, {f[x] : x \in S})
      BY DEF Surjection
<1> HIDE DEF g
<1> QED BY <1>1, FS_Surjection

-----------------------------------------------------------------------------
(* The checks a seasonal project needs.                                         *)

LEMMA ChainAnswers ==
    ASSUME NEW x \in ChainCalls
    PROVE  ChecksEverything(x.kind, x.assets, x.members, x.today, x.ceiling,
               DependencyChain(x.kind, x.assets, x.members, x.today, x.ceiling))
<1> DEFINE assets == ToSet(x.assets)
           members == ToSet(x.members)
           used == {b \in assets : AssetMatchesKind(b, x.kind)}
           grow == {n \in members : n.role = "DEPENDENT" /\ Growing(n, x.today, x.ceiling)}
           A == AssetDependencyTasks(x.kind, x.assets)
           C == ChildGearAuditTasks(x.kind, x.members, x.today, x.ceiling)
           chain == DependencyChain(x.kind, x.assets, x.members, x.today, x.ceiling)
           edges == {c.edge : c \in ToSet(chain)}
           grownUp(m) == m.birth # Null
               /\ ~Before([y |-> x.today.y - x.ceiling - 1, m |-> x.today.m, d |-> x.today.d], m.birth)
<1>1. /\ IsFiniteSet(assets) /\ IsFiniteSet(members)
      /\ \A p, q \in assets : p.id = q.id => p = q
      /\ \A m, n \in members : m.id = n.id => m = n
      /\ \A p \in assets, m \in members : p.id # m.id
  <2>1. /\ IsList(x.assets) /\ UniqueIds(x.assets) /\ IsList(x.members) /\ UniqueIds(x.members)
        /\ \A p \in assets, m \in members : p.id # m.id
        BY ChainCallsAreLegal
  <2> QED BY <2>1, ListIsFinite DEF UniqueIds, ToSet
<1>2. A = {AssetTask(p, x.kind, x.assets) : p \in used}
      BY DEF AssetDependencyTasks
<1>3. \A p \in used : AssetTask(p, x.kind, x.assets).edge = p.id
      BY DEF AssetTask
<1>4. ASSUME NEW p \in used, AssetTask(p, x.kind, x.assets).asks = "fit"
      PROVE  \E q \in assets : q.kind = "VEHICLE" /\ q.id = AssetTask(p, x.kind, x.assets).vehicle
  <2> DEFINE vehicles == {i \in DOMAIN x.assets : x.assets[i].kind = "VEHICLE"}
  <2>1. CASE p.kind = "VEHICLE"
        BY <2>1 DEF AssetTask
  <2>2. CASE p.kind # "VEHICLE"
    <3>1. vehicles # {} /\ AssetTask(p, x.kind, x.assets).vehicle = x.assets[Min(vehicles)].id
          BY <1>4, <2>2 DEF AssetTask
    <3>2. vehicles \subseteq Int /\ IsFiniteSet(vehicles)
      <4>1. IsList(x.assets)
            BY ChainCallsAreLegal
      <4>2. IsFiniteSet(DOMAIN x.assets) /\ DOMAIN x.assets \subseteq Int
            BY <4>1, ListIsFinite
      <4>3. vehicles \subseteq DOMAIN x.assets
            OBVIOUS
      <4> HIDE DEF vehicles
      <4> QED BY <4>2, <4>3, FS_Subset
    <3>3. Min(vehicles) \in vehicles
      <4> HIDE DEF vehicles
      <4> QED BY <3>1, <3>2, MinOfFinite
    <3>4. x.assets[Min(vehicles)] \in assets /\ x.assets[Min(vehicles)].kind = "VEHICLE"
          BY <3>3 DEF ToSet
    <3> QED BY <3>1, <3>4
  <2> QED BY <2>1, <2>2
<1> DEFINE gear == SubSeq(GearHints[x.kind], 1, Min({3, Len(GearHints[x.kind])}))
           check == [m \in grow |-> [asks |-> "size", what |-> gear, vehicle |-> Null, edge |-> m.id]]
           task == [p \in used |-> AssetTask(p, x.kind, x.assets)]
<1>5. C = {check[m] : m \in grow}
  <2>1. C = {[asks |-> "size", what |-> gear, vehicle |-> Null, edge |-> m.id] : m \in grow}
        BY DEF ChildGearAuditTasks
  <2> HIDE DEF gear, grow, C
  <2> QED BY <2>1
<1>6. A = {task[p] : p \in used}
  <2> HIDE DEF used, A
  <2> QED BY <1>2
<1>7. \A m \in grow : check[m].edge = m.id /\ check[m].asks = "size"
  <2> HIDE DEF gear, grow
  <2> QED OBVIOUS
<1>8. \A p \in used : task[p].edge = p.id
  <2> HIDE DEF used
  <2> QED BY <1>3
<1>9. \A p \in used : task[p].asks = "fit" => \E q \in assets : q.kind = "VEHICLE" /\ q.id = task[p].vehicle
  <2> HIDE DEF used
  <2> QED BY <1>4
<1>10. used \subseteq assets /\ grow \subseteq members
      OBVIOUS
<1>11. /\ \A p \in assets : p.kind = "VEHICLE" /\ x.kind \notin {"CAMP", "SPORTS"} => p \in used
       /\ \A m \in members : m.role = "DEPENDENT" => (m \in grow <=> ~grownUp(m))
  <2>1. VehicleHints[x.kind] = <<>> => x.kind \in {"CAMP", "SPORTS"}
    <3>1. x.kind \in {"SKI_TRIP", "CAMPSITE", "TRIP", "CAMP", "SPORTS"}
          BY ChainCallsAreLegal DEF VehicleHints
    <3>2. /\ VehicleHints["SKI_TRIP"] # <<>> /\ VehicleHints["CAMPSITE"] # <<>>
          /\ VehicleHints["TRIP"] # <<>>
          BY DEF VehicleHints
    <3> QED BY <3>1, <3>2
  <2>2. \A p \in assets : p.kind = "VEHICLE" /\ x.kind \notin {"CAMP", "SPORTS"} => p \in used
        BY <2>1 DEF AssetMatchesKind
  <2>3. ASSUME NEW m \in members PROVE Growing(m, x.today, x.ceiling) <=> ~grownUp(m)
    <3>1. m.birth \in Maybe(Dates) /\ x.today \in Dates /\ x.ceiling \in Nat
          BY ChainCallsAreLegal DEF BirthsKnown
    <3>2. CASE m.birth = Null
          BY <3>2 DEF Growing, ComputeAge
    <3>3. CASE m.birth # Null
      <4>1. m.birth \in Dates
            BY <3>1, <3>3 DEF Maybe
      <4>2. YearsBefore(x.today, x.ceiling + 1) =
                [y |-> x.today.y - x.ceiling - 1, m |-> x.today.m, d |-> x.today.d]
            BY <3>1 DEF YearsBefore, Dates
      <4>3. /\ ComputeAge(m.birth, x.today) # Null
            /\ ComputeAge(m.birth, x.today) <= x.ceiling <=> Before(YearsBefore(x.today, x.ceiling + 1), m.birth)
            BY <3>1, <4>1, AgeByBirthday
      <4> QED BY <3>3, <4>2, <4>3 DEF Growing
    <3> QED BY <3>2, <3>3
  <2> QED BY <2>2, <2>3
<1> DEFINE bornAfter(m, age) == m.birth = Null
               \/ Before([y |-> x.today.y - age, m |-> x.today.m, d |-> x.today.d], m.birth)
<1>b. ASSUME NEW m \in members
      PROVE  /\ bornAfter(m, x.ceiling + 1) <=> ~grownUp(m)
             /\ bornAfter(m, x.ceiling) => ~grownUp(m)
  <2>1. m.birth \in Maybe(Dates) /\ x.today \in Dates /\ x.ceiling \in Nat
        BY ChainCallsAreLegal DEF BirthsKnown
  <2>2. x.today.y - (x.ceiling + 1) = x.today.y - x.ceiling - 1 /\ x.today.y \in Int
        BY <2>1 DEF Dates
  <2>3. bornAfter(m, x.ceiling + 1) <=> ~grownUp(m)
        BY <2>2
  <2>4. ASSUME m.birth # Null, bornAfter(m, x.ceiling) PROVE ~grownUp(m)
    <3>1. m.birth \in Dates
          BY <2>1, <2>4 DEF Maybe
    <3>2. m.birth.y \in Int
          BY <3>1 DEF Dates
    <3> QED BY <2>1, <2>2, <2>4, <3>2 DEF Before
  <2> QED BY <2>3, <2>4
<1> HIDE DEF gear, check, task, used, grow, A, C, assets, members, grownUp
<1>12. IsFiniteSet(A) /\ IsFiniteSet(C)
  <2>1. IsFiniteSet(used) /\ IsFiniteSet(grow)
        BY <1>1, <1>10, FS_Subset
  <2> QED BY <1>5, <1>6, <2>1, ImageIsFinite
<1>13. /\ \A c, d \in A \cup C : c.edge = d.edge => c = d
       /\ A \cap C = {}
  <2>1. \A c \in A : \E p \in used : c = task[p] /\ c.edge = p.id
        BY <1>6, <1>8
  <2>2. \A c \in C : \E m \in grow : c = check[m] /\ c.edge = m.id
        BY <1>5, <1>7
  <2>3. \A c, d \in A : c.edge = d.edge => c = d
        BY <1>1, <1>10, <2>1
  <2>4. \A c, d \in C : c.edge = d.edge => c = d
        BY <1>1, <1>10, <2>2
  <2>5. \A c \in A, d \in C : c.edge # d.edge
        BY <1>1, <1>10, <2>1, <2>2
  <2> QED BY <2>3, <2>4, <2>5
<1>14. /\ Len(chain) = Cardinality(A \cup C) /\ IsFiniteSet(A \cup C)
       /\ ToSet(chain) = A \cup C
  <2> DEFINE s == SetToSeq(A)
             t == SetToSeq(C)
  <2>1. chain = s \o t
        BY DEF DependencyChain, A, C
  <2>2. /\ Cardinality(A) \in Nat /\ s \in Seq(A) /\ Len(s) = Cardinality(A)
        /\ \A c \in A : \E i \in 1 .. Cardinality(A) : s[i] = c
        BY <1>12, SetToSeqFacts
  <2>3. /\ Cardinality(C) \in Nat /\ t \in Seq(C) /\ Len(t) = Cardinality(C)
        /\ \A c \in C : \E i \in 1 .. Cardinality(C) : t[i] = c
        BY <1>12, SetToSeqFacts
  <2>4. Cardinality(A \cup C) = Cardinality(A) + Cardinality(C) /\ IsFiniteSet(A \cup C)
    <3>1. /\ IsFiniteSet(A \cup C)
          /\ Cardinality(A \cup C) = Cardinality(A) + Cardinality(C) - Cardinality(A \cap C)
          BY <1>12, FS_Union
    <3>2. Cardinality(A \cap C) = 0
          BY <1>13, FS_EmptySet
    <3> QED BY <2>2, <2>3, <3>1, <3>2
  <2> HIDE DEF chain, s, t
  <2>7. s \in Seq(A) /\ t \in Seq(C)
        BY <2>2, <2>3
  <2>8. /\ Len(s) \in Nat /\ Len(t) \in Nat
        /\ DOMAIN chain = 1 .. Len(s) + Len(t) /\ Len(chain) = Len(s) + Len(t)
        /\ \A i \in 1 .. Len(s) : chain[i] = s[i]
        /\ \A i \in 1 .. Len(t) : chain[Len(s) + i] = t[i]
    <3>1. Joined(s \o t, s, t)
          BY <2>7, JoinKeepsBoth
    <3> QED BY <2>1, <3>1 DEF Joined
  <2>5. ToSet(chain) = A \cup C
    <3>2. ASSUME NEW c \in A \cup C PROVE \E i \in DOMAIN chain : chain[i] = c
      <4>1. CASE c \in A
        <5>1. PICK i \in 1 .. Len(s) : s[i] = c
              BY <2>2, <4>1
        <5>2. i \in DOMAIN chain /\ chain[i] = c
              BY <2>8, <5>1
        <5> QED BY <5>2
      <4>2. CASE c \in C
        <5>1. PICK i \in 1 .. Len(t) : t[i] = c
              BY <2>3, <4>2
        <5>2. Len(s) + i \in DOMAIN chain /\ chain[Len(s) + i] = c
              BY <2>8, <5>1
        <5> QED BY <5>2
      <4> QED BY <4>1, <4>2
    <3>3. ASSUME NEW i \in DOMAIN chain PROVE chain[i] \in A \cup C
      <4>1. CASE i <= Len(s)
            BY <2>2, <2>8, <4>1
      <4>2. CASE ~(i <= Len(s))
        <5>1. i - Len(s) \in 1 .. Len(t) /\ i = Len(s) + (i - Len(s))
              BY <2>2, <2>3, <2>8, <4>2
        <5>2. chain[i] = t[i - Len(s)]
              BY <2>8, <5>1
        <5> QED BY <2>3, <5>1, <5>2
      <4> QED BY <4>1, <4>2
    <3> QED BY <3>2, <3>3 DEF ToSet
  <2> QED BY <2>2, <2>3, <2>4, <2>5, <2>8
<1> HIDE DEF chain
<1>15. edges = {c.edge : c \in A \cup C}
       BY <1>14
<1>16. Cardinality(edges) = Len(chain)
  <2> DEFINE U == A \cup C
             e == [c \in U |-> c.edge]
  <2>1. e \in Surjection(U, edges) /\ e \in Injection(U, edges)
    <3> HIDE DEF edges
    <3> QED BY <1>13, <1>15 DEF Surjection, Injection, IsInjective
  <2> HIDE DEF e, U, edges
  <2>2. Cardinality(edges) = Cardinality(U)
        BY <1>14, <2>1, FS_Surjection DEF U
  <2> QED BY <1>14, <2>2 DEF U
<1>17. /\ \A m \in members : m.id \in edges <=> m \in grow
       /\ \A p \in used : p.id \in edges
  <2>1. \A c \in A \cup C : (\E p \in used : c.edge = p.id) \/ (\E m \in grow : c.edge = m.id)
        BY <1>5, <1>6, <1>7, <1>8
  <2>2. \A m \in grow : check[m] \in A \cup C /\ check[m].edge = m.id
        BY <1>5, <1>7
  <2>3. \A p \in used : task[p] \in A \cup C /\ task[p].edge = p.id
        BY <1>6, <1>8
  <2> HIDE DEF edges
  <2>4. \A m \in grow : m.id \in edges
        BY <1>15, <2>2
  <2>5. \A p \in used : p.id \in edges
        BY <1>15, <2>3
  <2>6. ASSUME NEW m \in members, m.id \in edges PROVE m \in grow
    <3>1. PICK c \in A \cup C : c.edge = m.id
          BY <1>15, <2>6
    <3> QED BY <1>1, <1>10, <2>1, <3>1
  <2> QED BY <2>4, <2>5, <2>6
<1>18. ASSUME NEW c \in ToSet(chain), c.asks = "fit"
       PROVE  \E q \in assets : q.kind = "VEHICLE" /\ q.id = c.vehicle
       BY <1>5, <1>6, <1>7, <1>9, <1>14, <1>18
<1>19. ASSUME NEW m \in members, m.role = "DEPENDENT"
       PROVE  /\ bornAfter(m, x.ceiling) => m.id \in edges
              /\ m.id \in edges => bornAfter(m, x.ceiling + 1)
       BY <1>11, <1>17, <1>19, <1>b
<1> QED BY <1>11, <1>16, <1>17, <1>18, <1>19 DEF ChecksEverything, chain, assets, members

\* Every vehicle of a driving project and every child that may have outgrown its gear
\* is checked once (dependencies.ts), whatever the calls.
THEOREM ChecksAreComplete == Spec => []ChainIsComplete
<1>1. Legal /\ Answers => ChainIsComplete
      BY ChainAnswers DEF Answers, ChainIsComplete
<1> QED BY <1>1, AnswersFollow, PTL

-----------------------------------------------------------------------------
(* What a model wrote, made fit to store.                                       *)

\* A draft with a name and enough confidence.
Worth(t, least) == t.title # "" /\ t.confidence >= least

SameTask(kept, t) == {i \in DOMAIN kept : TaskKey(kept[i]) = TaskKey(t)}

\* What one draft may do to the list of those kept.
Takes(new, kept, t, least) ==
    /\ ~Worth(t, least) => new = kept
    /\ Worth(t, least) /\ SameTask(kept, t) = {} => new = Append(kept, t)
    /\ Worth(t, least) /\ SameTask(kept, t) # {} =>
          \E i \in SameTask(kept, t) :
             \/ t.confidence > kept[i].confidence /\ new = [kept EXCEPT ![i] = t]
             \/ ~(t.confidence > kept[i].confidence) /\ new = kept

\* Drafts as a model may write them.
Written(r) == r.confidence \in Maybe(Int) /\ r.minAge \in Maybe(Int)

LEMMA PercentStays ==
    ASSUME NEW x \in Int
    PROVE  Clamp(x, 0, 100) \in 0 .. 100 /\ (x \in 0 .. 100 => Clamp(x, 0, 100) = x)
<1> DEFINE lo == 0
           hi == 100
<1>1. lo \in Int /\ hi \in Int /\ lo <= hi
      OBVIOUS
<1>2. Clamp(x, lo, hi) \in lo .. hi /\ (x \in lo .. hi => Clamp(x, lo, hi) = x)
  <2> HIDE DEF lo, hi
  <2> QED BY <1>1, ClampStays
<1> QED BY <1>2

LEMMA WorthDecides ==
    ASSUME NEW t, t.confidence \in Int, NEW least \in Int
    PROVE  Worth(t, least) <=> ~(t.title = "") /\ ~(t.confidence < least)
<1> DEFINE c == t.confidence
<1>1. c \in Int
      OBVIOUS
<1> HIDE DEF c
<1>2. c >= least <=> ~(c < least)
      BY <1>1
<1> QED BY <1>2 DEF Worth, c

LEMMA NormalForm ==
    ASSUME NEW r, Written(r), NEW t, t = NormalizeTask(r)
    PROVE  /\ t.confidence \in Int /\ Written(t)
           /\ NormalizeTask(t) = t
<1> DEFINE c == NormalizeConfidence(r.confidence)
           g == NormalizeAge(r.minAge)
           u == NormalizeUrgency(r.urgency)
           k == NormalizeCategory(r.category)
           n == NormalizeTitle(r.title)
<1>1. c \in 0 .. 100
  <2>1. CASE r.confidence = Null
        BY <2>1 DEF NormalizeConfidence
  <2>2. CASE r.confidence # Null
    <3>1. r.confidence \in Int
          BY <2>2 DEF Written, Maybe
    <3> QED BY <2>2, <3>1, PercentStays DEF NormalizeConfidence
  <2> QED BY <2>1, <2>2
<1>2. NormalizeConfidence(c) = c
  <2> HIDE DEF c
  <2>1. c # Null
        BY <1>1, NullIsMissing
  <2>2. Clamp(c, 0, 100) = c
        BY <1>1, PercentStays
  <2> QED BY <2>1, <2>2 DEF NormalizeConfidence
<1>3. g \in Maybe(Int) /\ NormalizeAge(g) = g
      BY DEF Written, NormalizeAge, Maybe
<1>4. NormalizeUrgency(u) = u
      BY DEF NormalizeUrgency, ExtractUrgencies
<1>5. NormalizeCategory(k) = k
      BY DEF NormalizeCategory, Categories
<1>6. NormalizeTitle(n) = n
      BY DEF NormalizeTitle
<1>7. t = [title |-> n, urgency |-> u, category |-> k, dueAt |-> r.dueAt, minAge |-> g, confidence |-> c]
      BY DEF NormalizeTask
<1> HIDE DEF c, g, u, k, n
<1>8. t.title = n /\ t.urgency = u /\ t.category = k /\ t.dueAt = r.dueAt /\ t.minAge = g /\ t.confidence = c
      BY <1>7
<1>9. NormalizeTask(t) = [title |-> n, urgency |-> u, category |-> k, dueAt |-> r.dueAt, minAge |-> g, confidence |-> c]
      BY <1>2, <1>3, <1>4, <1>5, <1>6, <1>8 DEF NormalizeTask
<1> QED BY <1>1, <1>3, <1>7, <1>8, <1>9 DEF Written, Maybe

LEMMA KeepTakes ==
    ASSUME NEW kept, NEW r, Written(r), NEW least \in Int
    PROVE  Takes(KeepDraft(kept, r, least, TRUE), kept, NormalizeTask(r), least)
<1> DEFINE t == NormalizeTask(r)
           same == SameTask(kept, t)
           j == CHOOSE i \in same : TRUE
           new == KeepDraft(kept, r, least, TRUE)
<1>1. new = IF t.title = "" \/ t.confidence < least THEN kept
            ELSE IF same = {} THEN Append(kept, t)
            ELSE IF t.confidence > kept[j].confidence THEN [kept EXCEPT ![j] = t] ELSE kept
      BY DEF KeepDraft, SameTask, Supersedes
<1>2. same # {} => j \in same
      OBVIOUS
<1>3. Worth(t, least) <=> ~(t.title = "") /\ ~(t.confidence < least)
  <2>1. t.confidence \in Int
        BY NormalForm
  <2> QED BY <2>1, WorthDecides
<1> HIDE DEF t, same, j, new
<1>4. CASE ~Worth(t, least)
  <2>1. t.title = "" \/ t.confidence < least
        BY <1>3, <1>4
  <2>2. new = kept
        BY <1>1, <2>1
  <2> QED BY <1>4, <2>2 DEF Takes, new, t
<1>5. CASE Worth(t, least) /\ same = {}
  <2>1. t.title # "" /\ ~(t.confidence < least)
        BY <1>3, <1>5
  <2>2. new = Append(kept, t)
        BY <1>1, <1>5, <2>1
  <2> QED BY <1>5, <2>2 DEF Takes, new, t, same
<1>6. CASE Worth(t, least) /\ same # {}
  <2>1. t.title # "" /\ ~(t.confidence < least)
        BY <1>3, <1>6
  <2>2. new = IF t.confidence > kept[j].confidence THEN [kept EXCEPT ![j] = t] ELSE kept
        BY <1>1, <1>6, <2>1
  <2>3. \/ t.confidence > kept[j].confidence /\ new = [kept EXCEPT ![j] = t]
        \/ ~(t.confidence > kept[j].confidence) /\ new = kept
        BY <2>2
  <2>4. j \in same
        BY <1>2, <1>6
  <2> QED BY <1>6, <2>3, <2>4 DEF Takes, new, t, same
<1> QED BY <1>4, <1>5, <1>6

\* The list after each draft.
KeepsTo(h, drafts, least, G) ==
    /\ h[0] = <<>> /\ PostProcess(drafts, least, TRUE) = h[Len(drafts)]
    /\ \A k \in 1 .. Len(drafts) : h[k] = KeepDraft(h[k - 1], drafts[k], least, TRUE)
    /\ \A k \in 0 .. Len(drafts) : h[k] \in Seq(G)

WrittenList(drafts) == IsList(drafts) /\ \A i \in DOMAIN drafts : Written(drafts[i])

\* G holds every draft worth keeping.
Covers(G, drafts, least) ==
    \A i \in DOMAIN drafts : Worth(NormalizeTask(drafts[i]), least) => NormalizeTask(drafts[i]) \in G

LEMMA KeepTyped ==
    ASSUME NEW G, NEW kept \in Seq(G), NEW r, Written(r), NEW least \in Int,
           Worth(NormalizeTask(r), least) => NormalizeTask(r) \in G
    PROVE  KeepDraft(kept, r, least, TRUE) \in Seq(G)
<1> DEFINE t == NormalizeTask(r)
           new == KeepDraft(kept, r, least, TRUE)
<1>1. Takes(new, kept, t, least)
      BY KeepTakes
<1>2. Worth(t, least) => t \in G
      OBVIOUS
<1> HIDE DEF t, new
<1>3. CASE ~Worth(t, least)
      BY <1>1, <1>3 DEF Takes, new
<1>4. CASE Worth(t, least) /\ SameTask(kept, t) = {}
  <2>1. new = Append(kept, t) /\ t \in G
        BY <1>1, <1>2, <1>4 DEF Takes
  <2>2. new \in Seq(G)
        BY <2>1
  <2> QED BY <2>2 DEF new
<1>5. CASE Worth(t, least) /\ SameTask(kept, t) # {}
  <2>1. PICK i \in SameTask(kept, t) : new = [kept EXCEPT ![i] = t] \/ new = kept
        BY <1>1, <1>5 DEF Takes
  <2>2. i \in DOMAIN kept /\ t \in G
        BY <1>2, <1>5 DEF SameTask
  <2>3. [kept EXCEPT ![i] = t] \in Seq(G)
        BY <2>2
  <2>4. new \in Seq(G)
        BY <2>1, <2>3
  <2> QED BY <2>4 DEF new
<1> QED BY <1>3, <1>4, <1>5

LEMMA KeepInOrder ==
    ASSUME NEW drafts, WrittenList(drafts), NEW least \in Int, NEW G, Covers(G, drafts, least)
    PROVE  \E h : KeepsTo(h, drafts, least, G)
<1> DEFINE n == Len(drafts)
           D == DOMAIN drafts
           base == <<>>
           Y == Seq(G)
           step == [p \in D \X Y |-> KeepDraft(p[2], drafts[p[1]], least, TRUE)]
           It(g) == g = [t \in SUBSET D |-> IF t = {} THEN base
                            ELSE KeepDraft(g[t \ {Max(t)}], drafts[Max(t)], least, TRUE)]
           it == CHOOSE g : It(g)
           h == [k \in 0 .. n |-> it[1 .. k]]
<1>1. n \in Nat /\ D = 1 .. n
      BY ListIsFinite DEF WrittenList
<1>2. base \in Y
      OBVIOUS
<1>3. \A i \in D, e \in Y : step[<<i, e>>] = KeepDraft(e, drafts[i], least, TRUE)
  <2> HIDE DEF D, Y
  <2> QED OBVIOUS
<1>4. ASSUME NEW i \in D, NEW e \in Y PROVE KeepDraft(e, drafts[i], least, TRUE) \in Y
  <2>1. Written(drafts[i]) /\ (Worth(NormalizeTask(drafts[i]), least) => NormalizeTask(drafts[i]) \in G)
        BY DEF WrittenList, Covers
  <2> QED BY <2>1, KeepTyped
<1> HIDE DEF n, base, Y, step, D, h
<1>5. StepsInto(step, D, Y)
      BY <1>3, <1>4 DEF StepsInto
<1>6. PICK g : Iterated(g, D, Y, base, step)
      BY <1>1, <1>2, <1>5, IterateExists
<1>7. It(g)
  <2>1. g = [t \in SUBSET D |-> g[t]] /\ g[{}] = base
        BY <1>6 DEF Iterated
  <2>2. \A t \in SUBSET D : t # {} => g[t] = KeepDraft(g[t \ {Max(t)}], drafts[Max(t)], least, TRUE)
        BY <1>3, <1>6 DEF Iterated
  <2> QED BY <2>1, <2>2
<1>8. It(it)
  <2>1. \E f : It(f)
        BY <1>7
  <2> HIDE DEF It
  <2> QED BY <2>1
<1>9. PostProcess(drafts, least, TRUE) = it[D]
      BY DEF PostProcess, FoldLeft, MapThenFoldSet, D, base
<1>10. /\ it[{}] = base
       /\ \A t \in SUBSET D : t # {} =>
             it[t] = KeepDraft(it[t \ {Max(t)}], drafts[Max(t)], least, TRUE)
  <2>1. {} \in SUBSET D
        OBVIOUS
  <2> HIDE DEF it
  <2> QED BY <1>8, <2>1
<1> HIDE DEF it
<1>11. Prefixed(h, it, n)
       BY DEF Prefixed, h
<1>12. /\ h[0] = base /\ h[n] = it[D]
       /\ \A k \in 1 .. n : h[k] = KeepDraft(h[k - 1], drafts[k], least, TRUE)
  <2>1. /\ h[0] = it[{}] /\ h[n] = it[D]
        /\ \A k \in 1 .. n : /\ 1 .. k \in SUBSET D /\ 1 .. k # {} /\ Max(1 .. k) = k
                             /\ h[k] = it[1 .. k] /\ h[k - 1] = it[(1 .. k) \ {Max(1 .. k)}]
    <3>1. Follows(h, it, D, n)
          BY <1>1, <1>11, PrefixValues
    <3> QED BY <3>1 DEF Follows
  <2>2. ASSUME NEW k \in 1 .. n PROVE h[k] = KeepDraft(h[k - 1], drafts[k], least, TRUE)
        BY <1>10, <2>1
  <2> QED BY <1>10, <2>1, <2>2
<1> DEFINE T == {k \in Nat : k <= n => h[k] \in Y}
<1>13. 0 \in T
       BY <1>2, <1>12
<1>14. ASSUME NEW k \in Nat, k \in T PROVE k + 1 \in T
  <2> SUFFICES ASSUME k + 1 <= n PROVE h[k + 1] \in Y
      OBVIOUS
  <2>1. k + 1 \in D /\ h[k] \in Y /\ (k + 1) - 1 = k
        BY <1>1, <1>14
  <2>2. h[k + 1] = KeepDraft(h[k], drafts[k + 1], least, TRUE)
        BY <1>1, <1>12, <2>1
  <2> QED BY <1>4, <2>1, <2>2
<1> HIDE DEF T
<1>15. \A k \in Nat : k \in T
       BY <1>13, <1>14, NumberInduction
<1>16. \A k \in 0 .. n : h[k] \in Y
       BY <1>1, <1>15 DEF T
<1>17. KeepsTo(h, drafts, least, G)
       BY <1>9, <1>12, <1>16 DEF KeepsTo, n, Y, base
<1> QED BY <1>17

\* One of each task, and the best of those read so far.
Unrivalled(kept) == \A i, j \in DOMAIN kept : i # j => TaskKey(kept[i]) # TaskKey(kept[j])

BestSoFar(kept, drafts, least, k) ==
    \A i \in DOMAIN drafts : i <= k /\ Worth(NormalizeTask(drafts[i]), least) =>
        \E j \in DOMAIN kept : /\ TaskKey(kept[j]) = TaskKey(NormalizeTask(drafts[i]))
                               /\ kept[j].confidence >= NormalizeTask(drafts[i]).confidence

LEMMA KeepStep ==
    ASSUME NEW G, \A t \in G : t.confidence \in Int, NEW kept \in Seq(G), Unrivalled(kept),
           NEW t, t.confidence \in Int, NEW least \in Int, NEW new, Takes(new, kept, t, least)
    PROVE  /\ Unrivalled(new)
           /\ \A j \in DOMAIN kept : j \in DOMAIN new /\ TaskKey(new[j]) = TaskKey(kept[j])
                                      /\ new[j].confidence >= kept[j].confidence
           /\ Worth(t, least) => \E j \in DOMAIN new : /\ TaskKey(new[j]) = TaskKey(t)
                                                       /\ new[j].confidence >= t.confidence
<1>0. \A j \in DOMAIN kept : kept[j].confidence \in Int /\ kept[j].confidence >= kept[j].confidence
  <2>1. \A j \in DOMAIN kept : kept[j] \in G
        OBVIOUS
  <2> QED BY <2>1
<1>1. CASE ~Worth(t, least)
  <2>1. new = kept
        BY <1>1 DEF Takes
  <2> QED BY <1>0, <1>1, <2>1
<1>2. CASE Worth(t, least) /\ SameTask(kept, t) = {}
  <2> DEFINE l == Len(kept) + 1
  <2>1. new = Append(kept, t)
        BY <1>2 DEF Takes
  <2>2. /\ DOMAIN new = DOMAIN kept \cup {l} /\ l \notin DOMAIN kept
        /\ new[l] = t /\ \A j \in DOMAIN kept : new[j] = kept[j]
        BY <2>1
  <2>3. \A j \in DOMAIN kept : TaskKey(kept[j]) # TaskKey(t)
        BY <1>2 DEF SameTask
  <2> HIDE DEF l
  <2>4. Unrivalled(new)
        BY <2>2, <2>3 DEF Unrivalled
  <2>5. t.confidence >= t.confidence
        OBVIOUS
  <2> QED BY <1>0, <2>2, <2>4, <2>5
<1>3. CASE Worth(t, least) /\ SameTask(kept, t) # {}
  <2>1. PICK i \in SameTask(kept, t) :
             \/ t.confidence > kept[i].confidence /\ new = [kept EXCEPT ![i] = t]
             \/ ~(t.confidence > kept[i].confidence) /\ new = kept
        BY <1>3 DEF Takes
  <2>2. i \in DOMAIN kept /\ TaskKey(kept[i]) = TaskKey(t) /\ kept[i].confidence \in Int
        BY <1>0 DEF SameTask
  <2>3. CASE t.confidence > kept[i].confidence /\ new = [kept EXCEPT ![i] = t]
    <3>1. /\ DOMAIN new = DOMAIN kept /\ new[i] = t
          /\ \A j \in DOMAIN kept : j # i => new[j] = kept[j]
          BY <2>2, <2>3
    <3>2. \A j \in DOMAIN kept : TaskKey(new[j]) = TaskKey(kept[j])
          BY <2>2, <3>1
    <3>3. t.confidence >= t.confidence /\ t.confidence >= kept[i].confidence
          BY <2>2, <2>3
    <3>4. \A j \in DOMAIN kept : new[j].confidence >= kept[j].confidence
          BY <1>0, <3>1, <3>3
    <3>5. Unrivalled(new)
          BY <3>1, <3>2 DEF Unrivalled
    <3> QED BY <2>2, <3>1, <3>2, <3>3, <3>4, <3>5
  <2>4. CASE ~(t.confidence > kept[i].confidence) /\ new = kept
    <3>1. kept[i].confidence >= t.confidence
          BY <2>2, <2>4
    <3> QED BY <1>0, <2>2, <2>4, <3>1
  <2> QED BY <2>1, <2>3, <2>4
<1> QED BY <1>1, <1>2, <1>3

LEMMA BestIsKept ==
    ASSUME NEW drafts, WrittenList(drafts), NEW least \in Int,
           NEW G, Covers(G, drafts, least), \A t \in G : t.confidence \in Int,
           NEW h, KeepsTo(h, drafts, least, G)
    PROVE  /\ Unrivalled(h[Len(drafts)]) /\ BestSoFar(h[Len(drafts)], drafts, least, Len(drafts))
           /\ h[Len(drafts)] \in Seq(G)
<1> DEFINE n == Len(drafts)
           t(i) == NormalizeTask(drafts[i])
           T == {k \in Nat : k <= n => Unrivalled(h[k]) /\ BestSoFar(h[k], drafts, least, k)}
<1>1. n \in Nat /\ DOMAIN drafts = 1 .. n
      BY ListIsFinite DEF WrittenList
<1>2. 0 \in T
  <2>1. h[0] = <<>>
        BY DEF KeepsTo
  <2>2. Unrivalled(h[0]) /\ BestSoFar(h[0], drafts, least, 0)
        BY <1>1, <2>1 DEF Unrivalled, BestSoFar
  <2> QED BY <2>2
<1>3. ASSUME NEW k \in Nat, k \in T PROVE k + 1 \in T
  <2> SUFFICES ASSUME k + 1 <= n PROVE Unrivalled(h[k + 1]) /\ BestSoFar(h[k + 1], drafts, least, k + 1)
      OBVIOUS
  <2> DEFINE kept == h[k]
             new == h[k + 1]
             u == t(k + 1)
  <2>1. k + 1 \in DOMAIN drafts /\ k + 1 \in 1 .. n /\ (k + 1) - 1 = k /\ k \in 0 .. n
        BY <1>1
  <2>2. Unrivalled(kept) /\ BestSoFar(kept, drafts, least, k) /\ kept \in Seq(G)
        BY <1>1, <1>3, <2>1 DEF KeepsTo
  <2>3. new = KeepDraft(kept, drafts[k + 1], least, TRUE)
        BY <2>1 DEF KeepsTo
  <2>4. Written(drafts[k + 1])
        BY <2>1 DEF WrittenList
  <2>5. Takes(new, kept, u, least) /\ u.confidence \in Int
        BY <2>3, <2>4, KeepTakes, NormalForm
  <2> HIDE DEF kept, new, u, t
  <2>6. /\ Unrivalled(new)
        /\ \A j \in DOMAIN kept : j \in DOMAIN new /\ TaskKey(new[j]) = TaskKey(kept[j])
                                   /\ new[j].confidence >= kept[j].confidence
        /\ Worth(u, least) => \E j \in DOMAIN new : /\ TaskKey(new[j]) = TaskKey(u)
                                                    /\ new[j].confidence >= u.confidence
        BY <2>2, <2>5, KeepStep
  <2>7. /\ \A j \in DOMAIN kept : kept[j].confidence \in Int
        /\ \A j \in DOMAIN new : new[j].confidence \in Int
    <3>1. new \in Seq(G)
          BY <1>1, <2>1 DEF KeepsTo, new
    <3>2. (\A j \in DOMAIN kept : kept[j] \in G) /\ \A j \in DOMAIN new : new[j] \in G
          BY <2>2, <3>1
    <3> QED BY <3>2
  <2>8. ASSUME NEW i \in DOMAIN drafts, i <= k + 1, Worth(t(i), least)
        PROVE  \E j \in DOMAIN new : TaskKey(new[j]) = TaskKey(t(i)) /\ new[j].confidence >= t(i).confidence
    <3>1. CASE i = k + 1
          BY <2>6, <2>8, <3>1 DEF u
    <3>2. CASE i # k + 1
      <4>1. i <= k
            BY <1>1, <2>8, <3>2
      <4>2. PICK j \in DOMAIN kept : TaskKey(kept[j]) = TaskKey(t(i)) /\ kept[j].confidence >= t(i).confidence
            BY <2>2, <2>8, <4>1 DEF BestSoFar, t
      <4>3. t(i).confidence \in Int
            BY NormalForm DEF WrittenList, t
      <4>4. /\ j \in DOMAIN new /\ TaskKey(new[j]) = TaskKey(t(i)) /\ new[j].confidence >= kept[j].confidence
            BY <2>6, <4>2
      <4>5. new[j].confidence >= t(i).confidence
        <5> DEFINE p == new[j].confidence
                   q == kept[j].confidence
                   r == t(i).confidence
        <5>1. p \in Int /\ q \in Int /\ r \in Int /\ p >= q /\ q >= r
              BY <2>7, <4>2, <4>3, <4>4
        <5> HIDE DEF p, q, r
        <5>2. p >= r
              BY <5>1
        <5> QED BY <5>2 DEF p, r
      <4> QED BY <4>4, <4>5
    <3> QED BY <3>1, <3>2
  <2>9. BestSoFar(new, drafts, least, k + 1)
        BY <2>8 DEF BestSoFar, t
  <2> QED BY <2>6, <2>9 DEF new
<1> HIDE DEF T
<1>4. \A k \in Nat : k \in T
      BY <1>2, <1>3, NumberInduction
<1>5. n \in T
      BY <1>1, <1>4
<1> QED BY <1>1, <1>5 DEF T, KeepsTo

\* A second pass over what was kept finds nothing to do.
LEMMA SecondPassKeepsAll ==
    ASSUME NEW G, NEW kept \in Seq(G), Unrivalled(kept), NEW least \in Int,
           \A t \in G : Written(t) /\ NormalizeTask(t) = t /\ Worth(t, least)
    PROVE  PostProcess(kept, least, TRUE) = kept
<1> DEFINE n == Len(kept)
<1>1. /\ n \in Nat /\ DOMAIN kept = 1 .. n
      /\ \A i \in DOMAIN kept : kept[i] \in G
      OBVIOUS
<1>2. WrittenList(kept) /\ Covers(G, kept, least)
  <2>1. kept \in Seq(ToSet(kept))
        BY DEF ToSet
  <2> QED BY <1>1, <2>1 DEF WrittenList, Covers, IsList
<1>3. PICK h : KeepsTo(h, kept, least, G)
      BY <1>2, KeepInOrder
<1> DEFINE T == {k \in Nat : k <= n => Len(h[k]) = k /\ \A i \in 1 .. k : h[k][i] = kept[i]}
<1>4. 0 \in T
      BY <1>3 DEF KeepsTo
<1>5. ASSUME NEW k \in Nat, k \in T PROVE k + 1 \in T
  <2> SUFFICES ASSUME k + 1 <= n PROVE Len(h[k + 1]) = k + 1 /\ \A i \in 1 .. k + 1 : h[k + 1][i] = kept[i]
      OBVIOUS
  <2> DEFINE s == h[k]
             new == h[k + 1]
             t == kept[k + 1]
  <2>1. k + 1 \in DOMAIN kept /\ k + 1 \in 1 .. n /\ (k + 1) - 1 = k /\ k \in 0 .. n
        BY <1>1
  <2>2. s \in Seq(G) /\ Len(s) = k /\ \A i \in 1 .. k : s[i] = kept[i]
        BY <1>1, <1>3, <1>5, <2>1 DEF KeepsTo
  <2>3. new = KeepDraft(s, t, least, TRUE)
        BY <1>3, <2>1 DEF KeepsTo
  <2>4. Written(t) /\ NormalizeTask(t) = t /\ Worth(t, least) /\ t \in G
        BY <1>1, <2>1
  <2>5. Takes(new, s, t, least)
        BY <2>3, <2>4, KeepTakes
  <2> HIDE DEF s, new
  <2>6. SameTask(s, t) = {}
    <3>1. ASSUME NEW i \in DOMAIN s PROVE TaskKey(s[i]) # TaskKey(t)
      <4>1. i \in 1 .. k /\ s[i] = kept[i] /\ i \in DOMAIN kept /\ i # k + 1
            BY <1>1, <2>1, <2>2
      <4> QED BY <2>1, <4>1 DEF Unrivalled
    <3> QED BY <3>1 DEF SameTask
  <2>7. new = Append(s, t)
        BY <2>4, <2>5, <2>6 DEF Takes
  <2> HIDE DEF t
  <2>8. /\ Len(new) = k + 1 /\ new[k + 1] = t
        /\ \A i \in 1 .. k : new[i] = s[i]
        BY <2>2, <2>4, <2>7
  <2>9. ASSUME NEW i \in 1 .. k + 1 PROVE new[i] = kept[i]
    <3>1. i = k + 1 \/ i \in 1 .. k
          OBVIOUS
    <3> QED BY <2>2, <2>8, <3>1 DEF t
  <2> QED BY <2>8, <2>9 DEF new
<1> HIDE DEF T
<1>6. \A k \in Nat : k \in T
      BY <1>4, <1>5, NumberInduction
<1>7. n \in T /\ n \in 0 .. n
      BY <1>1, <1>6
<1>8. h[n] \in Seq(G) /\ Len(h[n]) = n /\ \A i \in 1 .. n : h[n][i] = kept[i]
      BY <1>3, <1>7 DEF T, KeepsTo
<1>9. h[n] = kept
  <2> DEFINE u == h[n]
  <2> HIDE DEF u
  <2>1. u \in Seq(G) /\ Len(u) = Len(kept) /\ \A i \in 1 .. Len(kept) : u[i] = kept[i]
        BY <1>8 DEF u
  <2>2. u = kept
        BY <2>1
  <2> QED BY <2>2 DEF u
<1> QED BY <1>3, <1>9 DEF KeepsTo

LEMMA ExtractAnswers ==
    ASSUME NEW x \in ExtractCalls
    PROVE  KeepsTheBest(x.drafts, x.minConfidence, PostProcess(x.drafts, x.minConfidence, TRUE))
<1> DEFINE drafts == x.drafts
           least == x.minConfidence
           named == {NormalizeTask(drafts[i]) : i \in DOMAIN drafts}
           good == {t \in named : t.title # "" /\ t.confidence >= least}
           kept == PostProcess(drafts, least, TRUE)
<1>1. WrittenList(drafts) /\ least \in Int
  <2>1. /\ IsList(drafts) /\ least \in Int
        /\ \A r \in ToSet(drafts) : r.confidence \in Maybe(Int) /\ r.minAge \in Maybe(Int)
        BY ExtractCallsAreLegal
  <2> QED BY <2>1 DEF WrittenList, Written, ToSet
<1>2. \A t \in named : t.confidence \in Int /\ Written(t) /\ NormalizeTask(t) = t
      BY <1>1, NormalForm DEF WrittenList
<1>3. /\ \A t \in good : t \in named /\ Worth(t, least)
      /\ Covers(good, drafts, least)
      BY DEF Worth, Covers
<1> HIDE DEF drafts, least, named, good
<1>4. \A t \in good : t.confidence \in Int /\ Written(t) /\ NormalizeTask(t) = t /\ Worth(t, least)
      BY <1>2, <1>3
<1>5. PICK h : KeepsTo(h, drafts, least, good)
      BY <1>1, <1>3, KeepInOrder
<1>6. /\ Unrivalled(kept) /\ BestSoFar(kept, drafts, least, Len(drafts))
      /\ kept \in Seq(good)
  <2>1. kept = h[Len(drafts)]
        BY <1>5 DEF KeepsTo
  <2> HIDE DEF kept
  <2> QED BY <1>1, <1>3, <1>4, <1>5, <2>1, BestIsKept
<1>7. PostProcess(kept, least, TRUE) = kept
  <2> HIDE DEF kept
  <2> QED BY <1>1, <1>4, <1>6, SecondPassKeepsAll
<1>8. ToSet(kept) \subseteq good
  <2> HIDE DEF kept
  <2>1. \A i \in DOMAIN kept : kept[i] \in good
        BY <1>6
  <2> QED BY <2>1 DEF ToSet
<1>9. ASSUME NEW t \in good
      PROVE  \E j \in DOMAIN kept : TaskKey(kept[j]) = TaskKey(t) /\ kept[j].confidence >= t.confidence
  <2>1. PICK i \in DOMAIN drafts : t = NormalizeTask(drafts[i])
        BY <1>3 DEF named
  <2>2. i <= Len(drafts)
        BY <1>1, ListIsFinite DEF WrittenList
  <2> QED BY <1>4, <1>6, <2>1, <2>2 DEF BestSoFar
<1>10. \A i, j \in DOMAIN kept : i # j => TaskKey(kept[i]) # TaskKey(kept[j])
       BY <1>6 DEF Unrivalled
<1> HIDE DEF kept
<1>11. good = {t \in named : t.title # "" /\ t.confidence >= least}
       BY DEF good
<1> QED BY <1>7, <1>8, <1>9, <1>10, <1>11 DEF KeepsTheBest, named, kept, drafts, least

\* Every task the model named with enough confidence is kept once, at its best, and a
\* second pass changes nothing (postProcess), whatever the model wrote.
THEOREM ExtractionSound == Spec => []ExtractionKeepsTheBest
<1>1. Legal /\ Answers => ExtractionKeepsTheBest
      BY ExtractAnswers DEF Answers, ExtractionKeepsTheBest
<1> QED BY <1>1, AnswersFollow, PTL

-----------------------------------------------------------------------------
(* Sensitive values masked and put back.                                        *)

Types == ToSet(RuleOrder)
Tokens == {Token(p[1], p[2]) : p \in Types \X Nat}
SpansOf(text) == ToSet(text) \cup Tokens
Entries(X) == [token : Tokens, original : X]
States(X) == [text : Seq(X), map : Seq(Entries(X))]

LEMMA TokenFacts ==
    ASSUME NEW type \in Types, NEW n \in Nat
    PROVE  /\ Token(type, n) \in Tokens
           /\ Token(type, n).kind = "token" /\ Token(type, n).type = type /\ Token(type, n).n = n
<1>1. <<type, n>> \in Types \X Nat
      OBVIOUS
<1>2. Token(type, n) \in Tokens
      BY <1>1 DEF Tokens
<1> QED BY <1>2 DEF Token

LEMMA TokensAreTokens ==
    ASSUME NEW t \in Tokens
    PROVE  /\ t.kind = "token" /\ t.type \in Types /\ t.n \in Nat
           /\ \A type : ~Finds(type, t)
<1>1. PICK p \in Types \X Nat : t = Token(p[1], p[2])
      BY DEF Tokens
<1>2. p[1] \in Types /\ p[2] \in Nat
      OBVIOUS
<1>3. t.kind = "token" /\ t.type \in Types /\ t.n \in Nat
      BY <1>1, <1>2, TokenFacts
<1> QED BY <1>3 DEF Finds

\* The entries for one type.
OfType(M, type) == {e \in M : e.token.type = type}

\* What one rule does at one span.
Masks(new, acc, span, type) ==
    LET M == ToSet(acc.map)
        fresh == Token(type, 1 + Cardinality(OfType(M, type)))
    IN  \/ ~Finds(type, span) /\ new.text = Append(acc.text, span) /\ new.map = acc.map
        \/ \E e \in M : /\ e.token.type = type /\ e.original = span
                        /\ new.text = Append(acc.text, e.token) /\ new.map = acc.map
        \/ /\ Finds(type, span) /\ \A e \in M : ~(e.token.type = type /\ e.original = span)
           /\ new.text = Append(acc.text, fresh)
           /\ new.map = Append(acc.map, [token |-> fresh, original |-> span])

LEMMA ApplyMasks ==
    ASSUME NEW acc, NEW span, NEW type
    PROVE  Masks(ApplyAt(acc, span, type), acc, span, type)
<1> DEFINE known == Known(acc.map, type, span)
           M == ToSet(acc.map)
           fresh == Token(type, 1 + Cardinality(OfType(M, type)))
           first == CHOOSE e \in known : TRUE
           new == ApplyAt(acc, span, type)
<1>1. new = CASE ~Finds(type, span) -> [text |-> Append(acc.text, span), map |-> acc.map]
              [] Finds(type, span) /\ known # {} -> [text |-> Append(acc.text, first.token), map |-> acc.map]
              [] OTHER -> [text |-> Append(acc.text, fresh),
                           map |-> Append(acc.map, [token |-> fresh, original |-> span])]
      BY DEF ApplyAt, OfType
<1>2. known # {} => first \in known
      OBVIOUS
<1>3. known = {e \in M : e.token.type = type /\ e.original = span}
      BY DEF Known
<1> HIDE DEF known, M, fresh, first, new
<1>4. CASE ~Finds(type, span)
  <2>1. new = [text |-> Append(acc.text, span), map |-> acc.map]
        BY <1>1, <1>4
  <2> QED BY <1>4, <2>1 DEF Masks, new
<1>5. CASE Finds(type, span) /\ known # {}
  <2>1. new = [text |-> Append(acc.text, first.token), map |-> acc.map]
        BY <1>1, <1>5
  <2>2. first \in M /\ first.token.type = type /\ first.original = span
        BY <1>2, <1>3, <1>5
  <2>3. new.text = Append(acc.text, first.token) /\ new.map = acc.map
        BY <2>1
  <2> QED BY <2>2, <2>3 DEF Masks, new, M
<1>6. CASE Finds(type, span) /\ known = {}
  <2>1. new = [text |-> Append(acc.text, fresh),
               map |-> Append(acc.map, [token |-> fresh, original |-> span])]
        BY <1>1, <1>6
  <2>2. \A e \in M : ~(e.token.type = type /\ e.original = span)
        BY <1>3, <1>6
  <2>3. new.text = Append(acc.text, fresh) /\ new.map = Append(acc.map, [token |-> fresh, original |-> span])
        BY <2>1
  <2> QED BY <1>6, <2>2, <2>3 DEF Masks, new, M, fresh
<1> QED BY <1>4, <1>5, <1>6

\* A list holds finitely many entries, and one more when one is appended.
LEMMA AppendHolds ==
    ASSUME NEW X, NEW s \in Seq(X), NEW e \in X
    PROVE  /\ IsFiniteSet(ToSet(s)) /\ ToSet(s) \subseteq X
           /\ Append(s, e) \in Seq(X) /\ ToSet(Append(s, e)) = ToSet(s) \cup {e}
           /\ Len(Append(s, e)) = Len(s) + 1 /\ Append(s, e)[Len(s) + 1] = e
           /\ \A i \in 1 .. Len(s) : Append(s, e)[i] = s[i]
<1>1. IsFiniteSet(ToSet(s))
  <2>1. IsList(s)
        BY DEF IsList, ToSet
  <2> QED BY <2>1, ListIsFinite
<1> DEFINE u == Append(s, e)
<1>2. /\ u \in Seq(X) /\ Len(u) = Len(s) + 1 /\ u[Len(s) + 1] = e /\ Len(s) \in Nat
      /\ \A i \in 1 .. Len(s) : u[i] = s[i]
      OBVIOUS
<1>3. DOMAIN u = 1 .. Len(s) + 1 /\ DOMAIN s = 1 .. Len(s)
      OBVIOUS
<1>4. ToSet(s) \subseteq X
      BY DEF ToSet
<1> HIDE DEF u
<1>5. ToSet(u) = ToSet(s) \cup {e}
  <2>1. \A i \in DOMAIN u : u[i] \in ToSet(s) \cup {e}
        BY <1>2, <1>3 DEF ToSet
  <2>2. \A i \in DOMAIN s : \E j \in DOMAIN u : u[j] = s[i]
        BY <1>2, <1>3
  <2>3. \E j \in DOMAIN u : u[j] = e
        BY <1>2, <1>3
  <2> QED BY <2>1, <2>2, <2>3 DEF ToSet
<1> QED BY <1>1, <1>2, <1>4, <1>5 DEF u

LEMMA MaskTyped ==
    ASSUME NEW X, Tokens \subseteq X, NEW acc \in States(X), NEW span \in X, NEW type \in Types
    PROVE  ApplyAt(acc, span, type) \in States(X)
<1> DEFINE M == ToSet(acc.map)
           k == Cardinality(OfType(M, type))
           fresh == Token(type, 1 + k)
           entry == [token |-> fresh, original |-> span]
           new == ApplyAt(acc, span, type)
<1>1. acc.text \in Seq(X) /\ acc.map \in Seq(Entries(X))
      BY DEF States
<1>2. M \subseteq Entries(X) /\ IsFiniteSet(M)
  <2>1. IsList(acc.map)
        BY <1>1 DEF IsList, ToSet
  <2>2. M \subseteq Entries(X)
        BY <1>1 DEF ToSet
  <2> QED BY <2>1, <2>2, ListIsFinite
<1>3. k \in Nat
  <2>1. OfType(M, type) \subseteq M
        BY DEF OfType
  <2> HIDE DEF M
  <2> QED BY <1>2, <2>1, FS_Subset, FS_CardinalityType
<1>4. fresh \in Tokens /\ fresh \in X /\ entry \in Entries(X)
  <2>1. 1 + k \in Nat
        BY <1>3
  <2> HIDE DEF k
  <2>2. fresh \in Tokens
        BY <2>1, TokenFacts
  <2> HIDE DEF fresh
  <2> QED BY <2>2 DEF Entries
<1>5. new \in [text : {new.text}, map : {new.map}]
  <2>1. \E u, v : new = [text |-> u, map |-> v]
        BY DEF ApplyAt
  <2> HIDE DEF new
  <2> QED BY <2>1
<1>6. Masks(new, acc, span, type)
      BY ApplyMasks
<1> HIDE DEF M, k, fresh, entry, new
<1>7. new.text \in Seq(X) /\ new.map \in Seq(Entries(X))
  <2>1. ASSUME ~Finds(type, span), new.text = Append(acc.text, span), new.map = acc.map
        PROVE  new.text \in Seq(X) /\ new.map \in Seq(Entries(X))
        BY <1>1, <2>1
  <2>2. ASSUME NEW e \in M, new.text = Append(acc.text, e.token), new.map = acc.map
        PROVE  new.text \in Seq(X) /\ new.map \in Seq(Entries(X))
    <3>1. e.token \in X
          BY <1>2 DEF Entries
    <3> QED BY <1>1, <2>2, <3>1
  <2>3. ASSUME new.text = Append(acc.text, fresh), new.map = Append(acc.map, entry)
        PROVE  new.text \in Seq(X) /\ new.map \in Seq(Entries(X))
        BY <1>1, <1>4, <2>3
  <2> QED BY <1>6, <2>1, <2>2, <2>3 DEF Masks, M, fresh, entry, k
<1> QED BY <1>5, <1>7 DEF States, new

\* The text after each span of a rule, and after each rule.
MasksTo(h, state, type, X) ==
    /\ h[0] = [text |-> <<>>, map |-> state.map] /\ ApplyRule(state, type) = h[Len(state.text)]
    /\ \A k \in 1 .. Len(state.text) : h[k] = ApplyAt(h[k - 1], state.text[k], type)
    /\ \A k \in 0 .. Len(state.text) : h[k] \in States(X)

LEMMA MaskInOrder ==
    ASSUME NEW X, Tokens \subseteq X, NEW state \in States(X), NEW type \in Types
    PROVE  \E h : MasksTo(h, state, type, X)
<1> DEFINE n == Len(state.text)
           D == DOMAIN state.text
           base == [text |-> <<>>, map |-> state.map]
           Y == States(X)
           step == [p \in D \X Y |-> ApplyAt(p[2], state.text[p[1]], type)]
           It(g) == g = [t \in SUBSET D |-> IF t = {} THEN base
                            ELSE ApplyAt(g[t \ {Max(t)}], state.text[Max(t)], type)]
           it == CHOOSE g : It(g)
           h == [k \in 0 .. n |-> it[1 .. k]]
<1>0. state.text \in Seq(X) /\ state.map \in Seq(Entries(X))
      BY DEF States
<1>1. n \in Nat /\ D = 1 .. n /\ \A i \in D : state.text[i] \in X
      BY <1>0
<1>2. base \in Y
      BY <1>0 DEF States
<1>3. \A i \in D, e \in Y : step[<<i, e>>] = ApplyAt(e, state.text[i], type)
  <2> HIDE DEF D, Y
  <2> QED OBVIOUS
<1>4. ASSUME NEW i \in D, NEW e \in Y PROVE ApplyAt(e, state.text[i], type) \in Y
      BY <1>1, MaskTyped
<1> HIDE DEF n, base, Y, step, D, h
<1>5. StepsInto(step, D, Y)
      BY <1>3, <1>4 DEF StepsInto
<1>6. PICK g : Iterated(g, D, Y, base, step)
      BY <1>1, <1>2, <1>5, IterateExists
<1>7. It(g)
  <2>1. g = [t \in SUBSET D |-> g[t]] /\ g[{}] = base
        BY <1>6 DEF Iterated
  <2>2. \A t \in SUBSET D : t # {} => g[t] = ApplyAt(g[t \ {Max(t)}], state.text[Max(t)], type)
        BY <1>3, <1>6 DEF Iterated
  <2> QED BY <2>1, <2>2
<1>8. It(it)
  <2>1. \E f : It(f)
        BY <1>7
  <2> HIDE DEF It
  <2> QED BY <2>1
<1>9. ApplyRule(state, type) = it[D]
      BY DEF ApplyRule, FoldLeft, MapThenFoldSet, D, base
<1>10. /\ it[{}] = base
       /\ \A t \in SUBSET D : t # {} => it[t] = ApplyAt(it[t \ {Max(t)}], state.text[Max(t)], type)
  <2>1. {} \in SUBSET D
        OBVIOUS
  <2> HIDE DEF it
  <2> QED BY <1>8, <2>1
<1> HIDE DEF it
<1>11. Prefixed(h, it, n)
       BY DEF Prefixed, h
<1>12. /\ h[0] = base /\ h[n] = it[D]
       /\ \A k \in 1 .. n : h[k] = ApplyAt(h[k - 1], state.text[k], type)
  <2>1. /\ h[0] = it[{}] /\ h[n] = it[D]
        /\ \A k \in 1 .. n : /\ 1 .. k \in SUBSET D /\ 1 .. k # {} /\ Max(1 .. k) = k
                             /\ h[k] = it[1 .. k] /\ h[k - 1] = it[(1 .. k) \ {Max(1 .. k)}]
    <3>1. Follows(h, it, D, n)
          BY <1>1, <1>11, PrefixValues
    <3> QED BY <3>1 DEF Follows
  <2>2. ASSUME NEW k \in 1 .. n PROVE h[k] = ApplyAt(h[k - 1], state.text[k], type)
        BY <1>10, <2>1
  <2> QED BY <1>10, <2>1, <2>2
<1> DEFINE T == {k \in Nat : k <= n => h[k] \in Y}
<1>13. 0 \in T
       BY <1>2, <1>12
<1>14. ASSUME NEW k \in Nat, k \in T PROVE k + 1 \in T
  <2> SUFFICES ASSUME k + 1 <= n PROVE h[k + 1] \in Y
      OBVIOUS
  <2>1. k + 1 \in D /\ h[k] \in Y /\ (k + 1) - 1 = k
        BY <1>1, <1>14
  <2>2. h[k + 1] = ApplyAt(h[k], state.text[k + 1], type)
        BY <1>1, <1>12, <2>1
  <2> QED BY <1>4, <2>1, <2>2
<1> HIDE DEF T
<1>15. \A k \in Nat : k \in T
       BY <1>13, <1>14, NumberInduction
<1>16. \A k \in 0 .. n : h[k] \in Y
       BY <1>1, <1>15 DEF T
<1>17. MasksTo(h, state, type, X)
       BY <1>9, <1>12, <1>16 DEF MasksTo, n, Y, base
<1> QED BY <1>17

\* What is masked is masked by an entry of its own, one per value and one per token.
Sound(M, done) ==
    /\ \A e \in M : /\ e.token \in Tokens /\ e.token.type \in done /\ Finds(e.token.type, e.original)
                    /\ e.token.n <= Cardinality(OfType(M, e.token.type))
    /\ \A e, f \in M : e.token = f.token \/ e.original = f.original => e = f

Masked(now, was, M, done) ==
    \/ now = was /\ \A type \in done : ~Finds(type, was)
    \/ \E e \in M : e.original = was /\ now = e.token

\* What holds of a text of which the first k spans have been through the types of "done".
MaskedTo(state, text, done, k) ==
    /\ Len(state.text) = k /\ Sound(ToSet(state.map), done)
    /\ \A i \in 1 .. k : Masked(state.text[i], text[i], ToSet(state.map), done)

\* A fresh token for a value no rule so far found.
LEMMA FreshIsSound ==
    ASSUME NEW M, IsFiniteSet(M), NEW done, Sound(M, done), NEW type \in Types, type \in done,
           NEW was, Finds(type, was), \A e \in M : e.original # was,
           NEW fresh, fresh = Token(type, 1 + Cardinality(OfType(M, type))),
           NEW e, e.token = fresh, e.original = was
    PROVE  Sound(M \cup {e}, done)
<1> DEFINE N == M \cup {e}
           c == Cardinality(OfType(M, type))
<1>1. \A t : /\ IsFiniteSet(OfType(M, t)) /\ Cardinality(OfType(M, t)) \in Nat
             /\ IsFiniteSet(OfType(N, t)) /\ Cardinality(OfType(N, t)) \in Nat
             /\ OfType(M, t) \subseteq OfType(N, t) /\ Cardinality(OfType(M, t)) <= Cardinality(OfType(N, t))
  <2> TAKE t
  <2>1. OfType(M, t) \subseteq M /\ OfType(N, t) \subseteq N /\ OfType(M, t) \subseteq OfType(N, t)
        BY DEF OfType
  <2>2. IsFiniteSet(N)
        BY FS_AddElement
  <2> HIDE DEF N
  <2>3. IsFiniteSet(OfType(M, t)) /\ IsFiniteSet(OfType(N, t))
        BY <2>1, <2>2, FS_Subset
  <2> QED BY <2>1, <2>3, FS_Subset, FS_CardinalityType
<1>2. 1 + c \in Nat /\ c \in Nat
      BY <1>1
<1> HIDE DEF c
<1>3. /\ fresh \in Tokens /\ fresh.type = type /\ fresh.n = 1 + c
      BY <1>2, TokenFacts DEF c
<1>4. \A f \in M : f.token # fresh
  <2> SUFFICES ASSUME NEW f \in M, f.token = fresh PROVE FALSE
      OBVIOUS
  <2>1. f.token.n <= Cardinality(OfType(M, f.token.type))
        BY DEF Sound
  <2>2. 1 + c <= c
        BY <1>3, <2>1 DEF c
  <2> QED BY <1>2, <2>2
<1>5. Cardinality(OfType(N, type)) = 1 + c
  <2>1. OfType(N, type) = OfType(M, type) \cup {e} /\ e \notin OfType(M, type)
        BY <1>3, <1>4 DEF OfType
  <2>2. Cardinality(OfType(M, type) \cup {e}) = Cardinality(OfType(M, type)) + 1
    <3> DEFINE S == OfType(M, type)
    <3>1. IsFiniteSet(S) /\ e \notin S
          BY <1>1, <2>1
    <3> HIDE DEF S
    <3>2. Cardinality(S \cup {e}) = Cardinality(S) + 1
          BY <3>1, FS_AddElement
    <3> QED BY <3>2 DEF S
  <2>3. Cardinality(OfType(N, type)) = Cardinality(OfType(M, type) \cup {e})
        BY <2>1
  <2> HIDE DEF N
  <2>4. Cardinality(OfType(N, type)) = c + 1
        BY <2>2, <2>3 DEF c
  <2> QED BY <1>2, <2>4
<1>6. ASSUME NEW f \in N
      PROVE  /\ f.token \in Tokens /\ f.token.type \in done /\ Finds(f.token.type, f.original)
             /\ f.token.n <= Cardinality(OfType(N, f.token.type))
  <2>1. CASE f \in M
    <3>1. /\ f.token \in Tokens /\ f.token.type \in done /\ Finds(f.token.type, f.original)
          /\ f.token.n <= Cardinality(OfType(M, f.token.type)) /\ f.token.n \in Nat
          BY <2>1, TokensAreTokens DEF Sound
    <3> DEFINE x == f.token.n
               y == Cardinality(OfType(M, f.token.type))
               z == Cardinality(OfType(N, f.token.type))
    <3>2. x \in Nat /\ y \in Nat /\ z \in Nat /\ x <= y /\ y <= z
          BY <1>1, <3>1
    <3> HIDE DEF x, y, z
    <3>3. x <= z
          BY <3>2
    <3> QED BY <3>1, <3>3 DEF x, z
  <2>2. CASE f = e
        BY <1>2, <1>3, <1>5, <2>2
  <2> QED BY <2>1, <2>2
<1>7. ASSUME NEW f \in N, NEW g \in N, f.token = g.token \/ f.original = g.original PROVE f = g
  <2>1. CASE f \in M /\ g \in M
        BY <1>7, <2>1 DEF Sound
  <2>2. CASE f \in M /\ g = e
        BY <1>4, <1>7, <2>2
  <2>3. CASE f = e /\ g \in M
        BY <1>4, <1>7, <2>3
  <2> QED BY <2>1, <2>2, <2>3
<1> QED BY <1>6, <1>7 DEF Sound

LEMMA MaskStep ==
    ASSUME NEW X, Tokens \subseteq X, NEW M0, NEW acc \in States(X), NEW type \in Types,
           NEW done, type \in done, Sound(ToSet(acc.map), done), M0 \subseteq ToSet(acc.map),
           NEW was, NEW span \in X, Masked(span, was, M0, done \ {type}),
           NEW new, Masks(new, acc, span, type)
    PROVE  /\ ToSet(acc.map) \subseteq ToSet(new.map) /\ Sound(ToSet(new.map), done)
           /\ Len(new.text) = Len(acc.text) + 1
           /\ \A i \in 1 .. Len(acc.text) : new.text[i] = acc.text[i]
           /\ Masked(new.text[Len(acc.text) + 1], was, ToSet(new.map), done)
<1> DEFINE M == ToSet(acc.map)
           N == ToSet(new.map)
           l == Len(acc.text) + 1
           fresh == Token(type, 1 + Cardinality(OfType(M, type)))
           entry == [token |-> fresh, original |-> span]
<1>1. acc.text \in Seq(X) /\ acc.map \in Seq(Entries(X))
      BY DEF States
<1>2. M \subseteq Entries(X) /\ IsFiniteSet(M)
  <2>1. IsList(acc.map)
        BY <1>1 DEF IsList, ToSet
  <2>2. M \subseteq Entries(X)
        BY <1>1 DEF ToSet
  <2> QED BY <2>1, <2>2, ListIsFinite
<1>3. ASSUME NEW s \in X, new.text = Append(acc.text, s)
      PROVE  /\ Len(new.text) = l /\ new.text[l] = s
             /\ \A i \in 1 .. Len(acc.text) : new.text[i] = acc.text[i]
      BY <1>1, <1>3
<1>4. CASE ~Finds(type, span) /\ new.text = Append(acc.text, span) /\ new.map = acc.map
  <2>1. N = M
        BY <1>4
  <2>2. Masked(span, was, N, done)
    <3>1. CASE span = was /\ \A t \in done \ {type} : ~Finds(t, was)
      <4>1. \A t \in done : ~Finds(t, was)
            BY <1>4, <3>1
      <4> QED BY <3>1, <4>1 DEF Masked
    <3>2. CASE \E e \in M0 : e.original = was /\ span = e.token
          BY <2>1, <3>2 DEF Masked
    <3> QED BY <3>1, <3>2 DEF Masked
  <2> QED BY <1>3, <1>4, <2>1, <2>2
<1>5. ASSUME NEW e \in M, e.token.type = type, e.original = span,
             new.text = Append(acc.text, e.token), new.map = acc.map
      PROVE  /\ M \subseteq N /\ Sound(N, done)
             /\ Len(new.text) = l /\ \A i \in 1 .. Len(acc.text) : new.text[i] = acc.text[i]
             /\ Masked(new.text[l], was, N, done)
  <2>1. N = M /\ e.token \in X /\ e.token \in Tokens
        BY <1>2, <1>5 DEF Entries
  <2>2. Finds(type, span)
        BY <1>5 DEF Sound
  <2>3. span = was
    <3>1. ASSUME NEW f \in M0, span = f.token PROVE FALSE
      <4>1. f.token \in Tokens
            BY <1>2 DEF Entries
      <4> QED BY <2>2, <3>1, <4>1, TokensAreTokens
    <3> QED BY <3>1 DEF Masked
  <2>4. Masked(e.token, was, N, done)
        BY <1>5, <2>1, <2>3 DEF Masked
  <2> QED BY <1>3, <1>5, <2>1, <2>4
<1>6. CASE /\ Finds(type, span) /\ \A e \in M : ~(e.token.type = type /\ e.original = span)
           /\ new.text = Append(acc.text, fresh) /\ new.map = Append(acc.map, entry)
  <2>1. span = was /\ \A t \in done \ {type} : ~Finds(t, was)
    <3>1. ASSUME NEW f \in M0, span = f.token PROVE FALSE
      <4>1. f.token \in Tokens
            BY <1>2 DEF Entries
      <4> QED BY <1>6, <3>1, <4>1, TokensAreTokens
    <3> QED BY <3>1 DEF Masked
  <2>2. \A e \in M : e.original # was
    <3> SUFFICES ASSUME NEW e \in M, e.original = was PROVE FALSE
        OBVIOUS
    <3>1. e.token.type \in done /\ Finds(e.token.type, was)
          BY DEF Sound
    <3>2. e.token.type = type
          BY <2>1, <3>1
    <3> QED BY <1>6, <2>1, <3>2
  <2>3. Cardinality(OfType(M, type)) \in Nat
    <3>1. OfType(M, type) \subseteq M
          BY DEF OfType
    <3> HIDE DEF M
    <3> QED BY <1>2, <3>1, FS_Subset, FS_CardinalityType
  <2>4. fresh \in Tokens
    <3> DEFINE k == Cardinality(OfType(M, type))
    <3>1. 1 + k \in Nat
          BY <2>3
    <3> HIDE DEF k
    <3>2. Token(type, 1 + k) \in Tokens
          BY <3>1, TokenFacts
    <3> QED BY <3>2 DEF k
  <2>5. entry.token = fresh /\ entry.original = was /\ entry \in Entries(X)
    <3> HIDE DEF fresh
    <3> QED BY <2>1, <2>4 DEF Entries
  <2>6. N = M \cup {entry}
    <3> HIDE DEF entry
    <3> QED BY <1>1, <1>6, <2>5, AppendHolds
  <2>7. Sound(M \cup {entry}, done)
    <3>1. fresh = Token(type, 1 + Cardinality(OfType(M, type)))
          OBVIOUS
    <3>2. Finds(type, was)
          BY <1>6, <2>1
    <3> HIDE DEF entry, fresh, M, N
    <3> QED BY <1>2, <2>2, <2>5, <3>1, <3>2, FreshIsSound DEF M
  <2> HIDE DEF entry, fresh, N
  <2>8. Masked(fresh, was, N, done)
        BY <2>5, <2>6 DEF Masked
  <2>9. fresh \in X
        BY <2>4
  <2>10. /\ Len(new.text) = l /\ new.text[l] = fresh
         /\ \A i \in 1 .. Len(acc.text) : new.text[i] = acc.text[i]
    <3>1. new.text = Append(acc.text, fresh)
          BY <1>6 DEF fresh
    <3> HIDE DEF l
    <3> QED BY <1>3, <2>9, <3>1
  <2> QED BY <2>6, <2>7, <2>8, <2>10 DEF N
<1> HIDE DEF M, N, fresh, entry, l
<1>7. \/ ~Finds(type, span) /\ new.text = Append(acc.text, span) /\ new.map = acc.map
      \/ \E e \in M : /\ e.token.type = type /\ e.original = span
                      /\ new.text = Append(acc.text, e.token) /\ new.map = acc.map
      \/ /\ Finds(type, span) /\ \A e \in M : ~(e.token.type = type /\ e.original = span)
         /\ new.text = Append(acc.text, fresh) /\ new.map = Append(acc.map, entry)
      BY DEF Masks, M, fresh, entry
<1>8. /\ M \subseteq N /\ Sound(N, done)
      /\ Len(new.text) = l /\ \A i \in 1 .. Len(acc.text) : new.text[i] = acc.text[i]
      /\ Masked(new.text[l], was, N, done)
      BY <1>4, <1>5, <1>6, <1>7 DEF M, N, l, fresh, entry
<1> QED BY <1>8 DEF M, N, l

LEMMA MaskedStays ==
    ASSUME NEW now, NEW was, NEW M, NEW N, M \subseteq N, NEW done, Masked(now, was, M, done)
    PROVE  Masked(now, was, N, done)
BY DEF Masked

\* A rule leaves nothing that it or an earlier rule finds.
LEMMA RuleMasks ==
    ASSUME NEW X, Tokens \subseteq X, NEW text, NEW state \in States(X), NEW before,
           MaskedTo(state, text, before, Len(state.text)), NEW type \in Types
    PROVE  /\ ApplyRule(state, type) \in States(X)
           /\ MaskedTo(ApplyRule(state, type), text, before \cup {type}, Len(state.text))
<1> DEFINE n == Len(state.text)
           done == before \cup {type}
           M0 == ToSet(state.map)
<1>0. state.text \in Seq(X) /\ n \in Nat /\ \A k \in 1 .. n : state.text[k] \in X
  <2>1. state.text \in Seq(X)
        BY DEF States
  <2> QED BY <2>1
<1>1. PICK h : MasksTo(h, state, type, X)
      BY MaskInOrder
<1> DEFINE T == {k \in Nat : k <= n => MaskedTo(h[k], text, done, k) /\ M0 \subseteq ToSet(h[k].map)}
<1>2. 0 \in T
  <2>1. h[0].text = <<>> /\ h[0].map = state.map
        BY <1>1 DEF MasksTo
  <2>2. Sound(M0, done)
        BY DEF MaskedTo, Sound
  <2>3. MaskedTo(h[0], text, done, 0) /\ M0 \subseteq ToSet(h[0].map)
        BY <2>1, <2>2 DEF MaskedTo
  <2> QED BY <2>3
<1>3. ASSUME NEW k \in Nat, k \in T PROVE k + 1 \in T
  <2> SUFFICES ASSUME k + 1 <= n
               PROVE  MaskedTo(h[k + 1], text, done, k + 1) /\ M0 \subseteq ToSet(h[k + 1].map)
      OBVIOUS
  <2> DEFINE acc == h[k]
             new == h[k + 1]
             span == state.text[k + 1]
             was == text[k + 1]
  <2>1. k + 1 \in 1 .. n /\ (k + 1) - 1 = k /\ k \in 0 .. n
        BY <1>0
  <2>2. acc \in States(X) /\ MaskedTo(acc, text, done, k) /\ M0 \subseteq ToSet(acc.map)
        BY <1>0, <1>1, <1>3, <2>1 DEF MasksTo
  <2>3. new = ApplyAt(acc, span, type)
        BY <1>1, <2>1 DEF MasksTo
  <2>4. span \in X
        BY <1>0, <2>1
  <2>5. Masked(span, was, M0, done \ {type})
    <3>1. Masked(span, was, M0, before)
          BY <2>1 DEF MaskedTo
    <3> HIDE DEF span, was, M0
    <3> QED BY <3>1 DEF Masked
  <2>6. Sound(ToSet(acc.map), done) /\ type \in done
        BY <2>2 DEF MaskedTo
  <2>7. Masks(new, acc, span, type)
        BY <2>3, ApplyMasks
  <2> HIDE DEF acc, new, span, was, M0, done
  <2>8. /\ ToSet(acc.map) \subseteq ToSet(new.map) /\ Sound(ToSet(new.map), done)
        /\ Len(new.text) = Len(acc.text) + 1
        /\ \A i \in 1 .. Len(acc.text) : new.text[i] = acc.text[i]
        /\ Masked(new.text[Len(acc.text) + 1], was, ToSet(new.map), done)
        BY <2>2, <2>4, <2>5, <2>6, <2>7, MaskStep
  <2>9. /\ Len(acc.text) = k
        /\ \A i \in 1 .. k : Masked(acc.text[i], text[i], ToSet(acc.map), done)
        BY <2>2 DEF MaskedTo
  <2>10. ASSUME NEW i \in 1 .. k + 1 PROVE Masked(new.text[i], text[i], ToSet(new.map), done)
    <3>1. CASE i = k + 1
          BY <2>8, <2>9, <3>1 DEF was
    <3>2. CASE i \in 1 .. k
      <4>1. Masked(acc.text[i], text[i], ToSet(acc.map), done) /\ new.text[i] = acc.text[i]
            BY <2>8, <2>9, <3>2
      <4> QED BY <2>8, <4>1, MaskedStays
    <3> QED BY <3>1, <3>2
  <2>11. MaskedTo(new, text, done, k + 1)
         BY <2>8, <2>9, <2>10 DEF MaskedTo
  <2> QED BY <2>2, <2>8, <2>11 DEF new
<1> HIDE DEF T
<1>4. \A k \in Nat : k \in T
      BY <1>2, <1>3, NumberInduction
<1>5. n \in T /\ n \in 0 .. n
      BY <1>0, <1>4
<1>6. ApplyRule(state, type) = h[n] /\ h[n] \in States(X)
      BY <1>1, <1>5 DEF MasksTo
<1>7. MaskedTo(h[n], text, done, n)
      BY <1>0, <1>5 DEF T
<1> QED BY <1>6, <1>7

\* The text after each rule.
ScrubsTo(h, text, X) ==
    /\ h[0] = [text |-> text, map |-> <<>>] /\ Scrub(text) = h[Len(RuleOrder)]
    /\ \A k \in 1 .. Len(RuleOrder) : h[k] = ApplyRule(h[k - 1], RuleOrder[k])
    /\ \A k \in 0 .. Len(RuleOrder) : h[k] \in States(X)

LEMMA RuleTyped ==
    ASSUME NEW X, Tokens \subseteq X, NEW state \in States(X), NEW type \in Types
    PROVE  ApplyRule(state, type) \in States(X)
<1>1. PICK h : MasksTo(h, state, type, X)
      BY MaskInOrder
<1>2. Len(state.text) \in Nat
      BY DEF States
<1> QED BY <1>1, <1>2 DEF MasksTo

LEMMA RulesKnown ==
    /\ Len(RuleOrder) \in Nat /\ DOMAIN RuleOrder = 1 .. Len(RuleOrder)
    /\ \A k \in DOMAIN RuleOrder : RuleOrder[k] \in Types
<1>1. Len(RuleOrder) = 6
      BY DEF RuleOrder
<1>2. DOMAIN RuleOrder = 1 .. 6
      BY DEF RuleOrder
<1>3. \A k \in DOMAIN RuleOrder : RuleOrder[k] \in Types
      BY DEF Types, ToSet
<1> QED BY <1>1, <1>2, <1>3

LEMMA ScrubInOrder ==
    ASSUME NEW X, Tokens \subseteq X, NEW text \in Seq(X)
    PROVE  \E h : ScrubsTo(h, text, X)
<1> DEFINE n == Len(RuleOrder)
           D == DOMAIN RuleOrder
           base == [text |-> text, map |-> <<>>]
           Y == States(X)
           step == [p \in D \X Y |-> ApplyRule(p[2], RuleOrder[p[1]])]
           It(g) == g = [t \in SUBSET D |-> IF t = {} THEN base
                            ELSE ApplyRule(g[t \ {Max(t)}], RuleOrder[Max(t)])]
           it == CHOOSE g : It(g)
           h == [k \in 0 .. n |-> it[1 .. k]]
<1>1. n \in Nat /\ D = 1 .. n /\ \A i \in D : RuleOrder[i] \in Types
      BY RulesKnown
<1>2. base \in Y
      BY DEF States
<1>3. \A i \in D, e \in Y : step[<<i, e>>] = ApplyRule(e, RuleOrder[i])
  <2> HIDE DEF D, Y
  <2> QED OBVIOUS
<1>4. ASSUME NEW i \in D, NEW e \in Y PROVE ApplyRule(e, RuleOrder[i]) \in Y
      BY <1>1, RuleTyped
<1> HIDE DEF n, base, Y, step, D, h
<1>5. StepsInto(step, D, Y)
      BY <1>3, <1>4 DEF StepsInto
<1>6. PICK g : Iterated(g, D, Y, base, step)
      BY <1>1, <1>2, <1>5, IterateExists
<1>7. It(g)
  <2>1. g = [t \in SUBSET D |-> g[t]] /\ g[{}] = base
        BY <1>6 DEF Iterated
  <2>2. \A t \in SUBSET D : t # {} => g[t] = ApplyRule(g[t \ {Max(t)}], RuleOrder[Max(t)])
        BY <1>3, <1>6 DEF Iterated
  <2> QED BY <2>1, <2>2
<1>8. It(it)
  <2>1. \E f : It(f)
        BY <1>7
  <2> HIDE DEF It
  <2> QED BY <2>1
<1>9. Scrub(text) = it[D]
      BY DEF Scrub, FoldLeft, MapThenFoldSet, D, base
<1>10. /\ it[{}] = base
       /\ \A t \in SUBSET D : t # {} => it[t] = ApplyRule(it[t \ {Max(t)}], RuleOrder[Max(t)])
  <2>1. {} \in SUBSET D
        OBVIOUS
  <2> HIDE DEF it
  <2> QED BY <1>8, <2>1
<1> HIDE DEF it
<1>11. Prefixed(h, it, n)
       BY DEF Prefixed, h
<1>12. /\ h[0] = base /\ h[n] = it[D]
       /\ \A k \in 1 .. n : h[k] = ApplyRule(h[k - 1], RuleOrder[k])
  <2>1. /\ h[0] = it[{}] /\ h[n] = it[D]
        /\ \A k \in 1 .. n : /\ 1 .. k \in SUBSET D /\ 1 .. k # {} /\ Max(1 .. k) = k
                             /\ h[k] = it[1 .. k] /\ h[k - 1] = it[(1 .. k) \ {Max(1 .. k)}]
    <3>1. Follows(h, it, D, n)
          BY <1>1, <1>11, PrefixValues
    <3> QED BY <3>1 DEF Follows
  <2>2. ASSUME NEW k \in 1 .. n PROVE h[k] = ApplyRule(h[k - 1], RuleOrder[k])
        BY <1>10, <2>1
  <2> QED BY <1>10, <2>1, <2>2
<1> DEFINE T == {k \in Nat : k <= n => h[k] \in Y}
<1>13. 0 \in T
       BY <1>2, <1>12
<1>14. ASSUME NEW k \in Nat, k \in T PROVE k + 1 \in T
  <2> SUFFICES ASSUME k + 1 <= n PROVE h[k + 1] \in Y
      OBVIOUS
  <2>1. k + 1 \in D /\ h[k] \in Y /\ (k + 1) - 1 = k
        BY <1>1, <1>14
  <2>2. h[k + 1] = ApplyRule(h[k], RuleOrder[k + 1])
        BY <1>1, <1>12, <2>1
  <2> QED BY <1>4, <2>1, <2>2
<1> HIDE DEF T
<1>15. \A k \in Nat : k \in T
       BY <1>13, <1>14, NumberInduction
<1>16. \A k \in 0 .. n : h[k] \in Y
       BY <1>1, <1>15 DEF T
<1>17. ScrubsTo(h, text, X)
       BY <1>9, <1>12, <1>16 DEF ScrubsTo, n, Y, base
<1> QED BY <1>17

\* After all rules.
LEMMA ScrubMasks ==
    ASSUME NEW X, Tokens \subseteq X, NEW text \in Seq(X)
    PROVE  Scrub(text) \in States(X) /\ MaskedTo(Scrub(text), text, Types, Len(text))
<1> DEFINE n == Len(RuleOrder)
           l == Len(text)
           done(k) == {RuleOrder[i] : i \in 1 .. k}
<1>1. n \in Nat /\ DOMAIN RuleOrder = 1 .. n /\ \A i \in DOMAIN RuleOrder : RuleOrder[i] \in Types
      BY RulesKnown
<1>2. PICK h : ScrubsTo(h, text, X)
      BY ScrubInOrder
<1> DEFINE T == {k \in Nat : k <= n => MaskedTo(h[k], text, done(k), l)}
<1>3. 0 \in T
  <2>1. h[0].text = text /\ h[0].map = <<>> /\ done(0) = {}
        BY <1>2 DEF ScrubsTo
  <2>2. ToSet(h[0].map) = {}
        BY <2>1 DEF ToSet
  <2> HIDE DEF done
  <2>3. MaskedTo(h[0], text, done(0), l)
        BY <2>1, <2>2 DEF MaskedTo, Sound, Masked
  <2> QED BY <2>3
<1>4. ASSUME NEW k \in Nat, k \in T PROVE k + 1 \in T
  <2> SUFFICES ASSUME k + 1 <= n PROVE MaskedTo(h[k + 1], text, done(k + 1), l)
      OBVIOUS
  <2>1. k + 1 \in 1 .. n /\ (k + 1) - 1 = k /\ k \in 0 .. n
        BY <1>1
  <2>2. h[k] \in States(X) /\ MaskedTo(h[k], text, done(k), l)
        BY <1>1, <1>2, <1>4, <2>1 DEF ScrubsTo
  <2>3. h[k + 1] = ApplyRule(h[k], RuleOrder[k + 1]) /\ RuleOrder[k + 1] \in Types
        BY <1>1, <1>2, <2>1 DEF ScrubsTo
  <2>4. done(k + 1) = done(k) \cup {RuleOrder[k + 1]}
    <3>1. 1 .. k + 1 = (1 .. k) \cup {k + 1}
          OBVIOUS
    <3> QED BY <3>1
  <2>5. Len(h[k].text) = l
        BY <2>2 DEF MaskedTo
  <2> DEFINE was == h[k]
             type == RuleOrder[k + 1]
             before == done(k)
  <2>6. was \in States(X) /\ MaskedTo(was, text, before, Len(was.text)) /\ type \in Types
        BY <2>2, <2>3, <2>5
  <2> HIDE DEF done, l, was, type, before
  <2>7. MaskedTo(ApplyRule(was, type), text, before \cup {type}, Len(was.text))
        BY <2>6, RuleMasks
  <2> QED BY <2>3, <2>4, <2>5, <2>7 DEF was, type, before
<1> HIDE DEF T
<1>5. \A k \in Nat : k \in T
      BY <1>3, <1>4, NumberInduction
<1>6. n \in 0 .. n /\ MaskedTo(h[n], text, done(n), l)
  <2>1. n \in T
        BY <1>1, <1>5
  <2> HIDE DEF done, l, n
  <2>2. n \in Nat
        BY <1>1 DEF n
  <2>3. n <= n => MaskedTo(h[n], text, done(n), l)
        BY <2>1 DEF T
  <2> QED BY <2>2, <2>3
<1>7. Scrub(text) = h[n] /\ h[n] \in States(X) /\ MaskedTo(h[n], text, done(n), l)
  <2> HIDE DEF done, l
  <2> QED BY <1>1, <1>2, <1>6 DEF ScrubsTo
<1>8. done(n) = Types
      BY <1>1 DEF Types, ToSet
<1> HIDE DEF done
<1> QED BY <1>7, <1>8

LEMMA ScrubAnswers ==
    ASSUME NEW text, IsList(text)
    PROVE  ScrubsAndRestores(text, Scrub(text))
<1> DEFINE X == SpansOf(text)
           out == Scrub(text)
           M == ToSet(out.map)
           n == Len(text)
<1>1. Tokens \subseteq X /\ text \in Seq(X)
      BY DEF SpansOf, IsList
<1>2. out \in States(X) /\ MaskedTo(out, text, Types, n)
      BY <1>1, ScrubMasks
<1>3. n \in Nat /\ DOMAIN text = 1 .. n
      BY ListIsFinite
<1>4. Len(out.text) = n /\ DOMAIN out.text = 1 .. n
  <2>1. out.text \in Seq(X) /\ Len(out.text) = n
        BY <1>2 DEF States, MaskedTo
  <2> HIDE DEF X, out
  <2> QED BY <2>1
<1>5. Sound(M, Types) /\ \A i \in 1 .. n : Masked(out.text[i], text[i], M, Types)
      BY <1>2 DEF MaskedTo
<1> HIDE DEF X, out, M, n
<1>6. ASSUME NEW i \in DOMAIN out.text, NEW type \in Types PROVE ~Finds(type, out.text[i])
  <2>1. Masked(out.text[i], text[i], M, Types)
        BY <1>4, <1>5
  <2>2. ASSUME NEW e \in M, out.text[i] = e.token PROVE ~Finds(type, out.text[i])
    <3>1. e.token \in Tokens
          BY <1>5 DEF Sound
    <3> QED BY <2>2, <3>1, TokensAreTokens
  <2> QED BY <2>1, <2>2 DEF Masked
<1>7. \A e \in M : e.token.kind = "token" /\ e.token.type \in Types /\ Finds(e.token.type, e.original)
      BY <1>5, TokensAreTokens DEF Sound
<1>8. ASSUME NEW i \in DOMAIN text, NEW j \in DOMAIN text,
             text[i].kind = "value", text[j].kind = "value"
      PROVE  text[i] = text[j] <=> out.text[i] = out.text[j]
  <2>1. Masked(out.text[i], text[i], M, Types) /\ Masked(out.text[j], text[j], M, Types)
        BY <1>3, <1>5
  <2>2. CASE out.text[i] = text[i] /\ (\A type \in Types : ~Finds(type, text[i]))
             /\ out.text[j] = text[j] /\ (\A type \in Types : ~Finds(type, text[j]))
        BY <2>2
  <2>3. ASSUME NEW e \in M, e.original = text[i], out.text[i] = e.token,
               NEW f \in M, f.original = text[j], out.text[j] = f.token
        PROVE  text[i] = text[j] <=> out.text[i] = out.text[j]
        BY <1>5, <2>3 DEF Sound
  <2>4. ASSUME NEW e \in M, e.original = text[i], out.text[i] = e.token,
               out.text[j] = text[j], \A type \in Types : ~Finds(type, text[j])
        PROVE  text[i] = text[j] <=> out.text[i] = out.text[j]
    <3>1. text[i] # text[j]
          BY <1>7, <2>4
    <3>2. out.text[i] # out.text[j]
          BY <1>7, <1>8, <2>4
    <3> QED BY <3>1, <3>2
  <2>5. ASSUME NEW e \in M, e.original = text[j], out.text[j] = e.token,
               out.text[i] = text[i], \A type \in Types : ~Finds(type, text[i])
        PROVE  text[i] = text[j] <=> out.text[i] = out.text[j]
    <3>1. text[i] # text[j]
          BY <1>7, <2>5
    <3>2. out.text[i] # out.text[j]
          BY <1>7, <1>8, <2>5
    <3> QED BY <3>1, <3>2
  <2> QED BY <2>1, <2>2, <2>3, <2>4, <2>5 DEF Masked
<1>9. ASSUME NoTokens(text) PROVE Unscrub(out.text, out.map) = text
  <2> DEFINE back == Unscrub(out.text, out.map)
             hit(i) == \E e \in M : Matches(out.text[i], e)
             entry(i) == CHOOSE e \in M : Matches(out.text[i], e)
  <2>1. back = [i \in 1 .. n |-> IF hit(i) THEN entry(i).original ELSE out.text[i]]
        BY <1>4 DEF Unscrub, M
  <2>2. ASSUME NEW i \in 1 .. n PROVE back[i] = text[i]
    <3>1. Masked(out.text[i], text[i], M, Types) /\ text[i].kind # "token"
          BY <1>3, <1>5, <1>9 DEF NoTokens
    <3>2. CASE out.text[i] = text[i]
      <4>1. ~hit(i)
            BY <1>7, <3>1, <3>2 DEF Matches
      <4> HIDE DEF back, hit, entry
      <4> QED BY <2>1, <3>2, <4>1
    <3>3. ASSUME NEW e \in M, e.original = text[i], out.text[i] = e.token PROVE back[i] = text[i]
      <4>1. hit(i)
            BY <3>3 DEF Matches
      <4>2. entry(i) \in M /\ Matches(out.text[i], entry(i))
            BY <4>1
      <4>3. entry(i) = e
        <5> HIDE DEF entry
        <5> QED BY <1>5, <3>3, <4>2 DEF Sound, Matches
      <4> HIDE DEF back, hit, entry
      <4> QED BY <2>1, <3>3, <4>1, <4>3
    <3> QED BY <3>1, <3>2, <3>3 DEF Masked
  <2>3. text = [i \in 1 .. n |-> text[i]]
    <3>1. text \in Seq(ToSet(text))
          BY DEF IsList
    <3> QED BY <1>3, <3>1
  <2>4. back = [i \in 1 .. n |-> back[i]]
    <3> HIDE DEF hit, entry, back
    <3> QED BY <2>1
  <2> HIDE DEF back
  <2>5. back = text
        BY <2>2, <2>3, <2>4
  <2> QED BY <2>5 DEF back
<1>10. Len(out.text) = Len(text)
       BY <1>4 DEF n
<1> QED BY <1>6, <1>8, <1>9, <1>10 DEF ScrubsAndRestores, Types, out

\* Nothing a rule finds is left in a scrubbed text, a token stands for one value and a
\* value for one token, and the text comes back (scrub, unscrub), whatever the text.
THEOREM ScrubbingSound == Spec => []ScrubRestores
<1>1. ASSUME Legal, Answers PROVE ScrubRestores
  <2> SUFFICES ASSUME Answered("scrub") PROVE ScrubsAndRestores(a, reply)
      BY DEF ScrubRestores
  <2>1. a \in ScrubCalls /\ reply = Scrub(a)
        BY <1>1 DEF Answers
  <2>2. IsList(a)
        BY <2>1, ScrubCallsAreLegal
  <2> QED BY <2>1, <2>2, ScrubAnswers
<1> QED BY <1>1, AnswersFollow, PTL

-----------------------------------------------------------------------------
(* Sorting what was renamed.                                                    *)

LEMMA SortedByRanks ==
    ASSUME NEW S, IsFiniteSet(S), NEW R, Orders(R, S), NEW k \in 1 .. Cardinality(S)
    PROVE  SortedBy(S, R)[k] \in S /\ Cardinality(Below(SortedBy(S, R)[k], R, S)) = k - 1
<1>1. PICK x \in S : Cardinality(Below(x, R, S)) = k - 1
      BY RankExists
<1>2. SortedBy(S, R)[k] = CHOOSE y \in S : Cardinality(Below(y, R, S)) = k - 1
      BY DEF SortedBy, Below
<1> QED BY <1>1, <1>2

\* p renames S to T and the order R to Q.
Renames(p, S, R, T, Q) ==
    /\ p \in Bijection(S, T)
    /\ \A x, y \in S : <<x, y>> \in R <=> <<p[x], p[y]>> \in Q

LEMMA RenamedOrder ==
    ASSUME NEW S, NEW R, NEW T, NEW Q, NEW p, Renames(p, S, R, T, Q), Orders(R, S)
    PROVE  Orders(Q, T)
<1>1. \A t \in T : \E x \in S : p[x] = t
      BY DEF Renames, Bijection, Surjection
<1>2. \A x \in S : <<p[x], p[x]>> \notin Q
      BY DEF Renames, Orders
<1>3. \A x, y \in S : p[x] # p[y] => <<p[x], p[y]>> \in Q \/ <<p[y], p[x]>> \in Q
      BY DEF Renames, Orders
<1>4. \A x, y, z \in S : <<p[x], p[y]>> \in Q /\ <<p[y], p[z]>> \in Q => <<p[x], p[z]>> \in Q
      BY DEF Renames, Orders
<1>5. \A t \in T : <<t, t>> \notin Q
      BY <1>1, <1>2
<1>6. \A t, u \in T : t # u => <<t, u>> \in Q \/ <<u, t>> \in Q
      BY <1>1, <1>3
<1>7. ASSUME NEW t \in T, NEW u \in T, NEW v \in T, <<t, u>> \in Q, <<u, v>> \in Q
      PROVE  <<t, v>> \in Q
  <2>1. PICK x \in S, y \in S, z \in S : p[x] = t /\ p[y] = u /\ p[z] = v
        BY <1>1
  <2> QED BY <1>4, <1>7, <2>1
<1> QED BY <1>5, <1>6, <1>7 DEF Orders

LEMMA SortTransports ==
    ASSUME NEW S, IsFiniteSet(S), NEW R, Orders(R, S), NEW T, NEW Q, NEW p, Renames(p, S, R, T, Q)
    PROVE  /\ IsFiniteSet(T) /\ Cardinality(T) = Cardinality(S)
           /\ \A k \in 1 .. Cardinality(S) : SortedBy(T, Q)[k] = p[SortedBy(S, R)[k]]
<1>1. IsFiniteSet(T) /\ Cardinality(T) = Cardinality(S)
  <2>1. ExistsBijection(S, T)
        BY DEF ExistsBijection, Renames
  <2> QED BY <2>1, FS_Bijection
<1>2. Orders(Q, T)
      BY RenamedOrder
<1>3. ASSUME NEW x \in S
      PROVE  p[x] \in T /\ Cardinality(Below(p[x], Q, T)) = Cardinality(Below(x, R, S))
  <2> DEFINE B == Below(x, R, S)
             C == Below(p[x], Q, T)
             q == [y \in B |-> p[y]]
  <2>1. p \in [S -> T] /\ (\A y, z \in S : p[y] = p[z] => y = z) /\ \A t \in T : \E y \in S : p[y] = t
        BY DEF Renames, Bijection, Injection, Surjection, IsInjective
  <2>2. B \subseteq S /\ C \subseteq T
        BY DEF Below
  <2>3. \A y \in S : y \in B <=> p[y] \in C
        BY <2>1 DEF Below, Renames
  <2>4. IsFiniteSet(B)
        BY <2>2, FS_Subset
  <2> HIDE DEF B, C
  <2>5. q \in [B -> C] /\ IsInjective(q)
        BY <2>1, <2>2, <2>3 DEF IsInjective
  <2>6. \A t \in C : \E y \in B : q[y] = t
        BY <2>1, <2>2, <2>3
  <2> HIDE DEF q
  <2>7. q \in Bijection(B, C)
        BY <2>5, <2>6 DEF Bijection, Injection, Surjection
  <2>8. Cardinality(C) = Cardinality(B)
        BY <2>4, <2>7, FS_Bijection DEF ExistsBijection
  <2> QED BY <2>1, <2>8 DEF B, C
<1>4. ASSUME NEW k \in 1 .. Cardinality(S) PROVE SortedBy(T, Q)[k] = p[SortedBy(S, R)[k]]
  <2> DEFINE s == SortedBy(S, R)[k]
             t == SortedBy(T, Q)[k]
  <2>1. s \in S /\ Cardinality(Below(s, R, S)) = k - 1
        BY SortedByRanks
  <2>2. t \in T /\ Cardinality(Below(t, Q, T)) = k - 1
        BY <1>1, <1>2, SortedByRanks
  <2> HIDE DEF s, t
  <2>3. p[s] \in T /\ Cardinality(Below(p[s], Q, T)) = k - 1
        BY <1>3, <2>1
  <2>4. t = p[s]
    <3> SUFFICES ASSUME t # p[s] PROVE FALSE
        OBVIOUS
    <3>1. <<t, p[s]>> \in Q \/ <<p[s], t>> \in Q
          BY <1>2, <2>2, <2>3 DEF Orders
    <3>2. k - 1 \in Int
          BY FS_CardinalityType
    <3>3. k - 1 < k - 1
          BY <1>1, <1>2, <2>2, <2>3, <3>1, RanksOrder
    <3> QED BY <3>2, <3>3
  <2> QED BY <2>4 DEF s, t
<1> QED BY <1>1, <1>4

\* Two elements of a set that has one.
LEMMA OnlyOne ==
    ASSUME NEW S, IsFiniteSet(S), Cardinality(S) <= 1, NEW x \in S, NEW y \in S
    PROVE  x = y
<1> SUFFICES ASSUME x # y PROVE FALSE
    OBVIOUS
<1>1. IsFiniteSet({x}) /\ Cardinality({x}) = 1
      BY FS_Singleton
<1>2. Cardinality({x} \cup {y}) = Cardinality({x}) + 1
      BY <1>1, FS_AddElement
<1>3. {x} \cup {y} \in SUBSET S
      OBVIOUS
<1>4. Cardinality({x} \cup {y}) <= Cardinality(S)
      BY <1>3, FS_Subset
<1>5. Cardinality(S) \in Nat
      BY FS_CardinalityType
<1>6. Cardinality({x} \cup {y}) = 2
      BY <1>1, <1>2
<1> QED BY <1>4, <1>5, <1>6

-----------------------------------------------------------------------------
(* Routing: who may, who is forced, who is first.                               *)

RouteInput(task, members, rules, today) ==
    /\ IsList(members) /\ UniqueIds(members) /\ BirthsKnown(members) /\ today \in Dates
    /\ \A m \in ToSet(members) : m.id \in Int /\ IsFiniteSet(m.skills)
    /\ task.minAge \in Maybe(Nat) /\ task.maxAge \in Maybe(Nat)
    /\ IsList(rules) /\ \A r \in ToSet(rules) : r.priority \in Int

\* An age within bounds is a birthday within bounds.
OldEnough(birth, today, n) == n = 0 \/ ~Before(YearsBefore(today, n), birth)
YoungEnough(birth, today, n) == Before(YearsBefore(today, n + 1), birth)

LEMMA FitByAge ==
    ASSUME NEW today \in Dates, NEW birth \in Maybe(Dates),
           NEW least \in Maybe(Nat), NEW most \in Maybe(Nat)
    PROVE  AgeFits(ComputeAge(birth, today), least, most) <=>
               /\ least # Null => birth # Null /\ OldEnough(birth, today, least)
               /\ most # Null => birth # Null /\ YoungEnough(birth, today, most)
<1> DEFINE age == ComputeAge(birth, today)
<1>1. birth = Null => age = Null
      BY DEF ComputeAge
<1>2. ASSUME birth # Null, NEW n \in Nat
      PROVE  /\ age # Null
             /\ age >= n <=> OldEnough(birth, today, n)
             /\ age <= n <=> YoungEnough(birth, today, n)
  <2>1. birth \in Dates
        BY <1>2 DEF Maybe
  <2> QED BY <2>1, AgeByBirthday DEF OldEnough, YoungEnough
<1>3. /\ least # Null => least \in Nat
      /\ most # Null => most \in Nat
      BY DEF Maybe
<1> DEFINE old == OldEnough(birth, today, least)
           young == YoungEnough(birth, today, most)
<1>4. /\ birth # Null /\ least # Null => age # Null /\ (age >= least <=> old)
      /\ birth # Null /\ most # Null => age # Null /\ (age <= most <=> young)
      BY <1>2, <1>3
<1> HIDE DEF age, old, young
<1>5. AgeFits(age, least, most) <=>
               /\ least # Null => birth # Null /\ old
               /\ most # Null => birth # Null /\ young
      BY <1>1, <1>4 DEF AgeFits
<1> QED BY <1>5 DEF age, old, young

LEMMA SoftScore ==
    ASSUME NEW m, NEW task, IsFiniteSet(m.skills)
    PROVE  ScoreCandidate(m, task) \in 0 .. MaxScore
<1> DEFINE presence == CASE m.state = "AVAILABLE" -> 30
                         [] m.state = "TRAVEL"    -> 5
                         [] OTHER                 -> 0
           driving == IF m.drives /\ task.category \in {"LOGISTICS", "ERRAND", "SCHOOL"} THEN 15 ELSE 0
           x == 10
           y == 5 * Cardinality(m.skills \cap task.skills)
           overlap == Min({x, y})
           head == IF m.role = "HEAD" /\ (task.category = "ADMIN" \/ task.approval) THEN 8 ELSE 0
<1>1. presence \in 0 .. 30 /\ driving \in 0 .. 15 /\ head \in 0 .. 8
      OBVIOUS
<1>2. overlap \in 0 .. 10
  <2>1. Cardinality(m.skills \cap task.skills) \in Nat
    <3>1. m.skills \cap task.skills \in SUBSET m.skills
          OBVIOUS
    <3> QED BY <3>1, FS_Subset, FS_CardinalityType
  <2>2. y \in Int /\ y >= 0 /\ x \in Int
        BY <2>1
  <2> HIDE DEF x, y
  <2>3. Min({x, y}) = IF x <= y THEN x ELSE y
        BY <2>2, MinOfTwo
  <2> QED BY <2>2, <2>3 DEF x
<1>3. ScoreCandidate(m, task) = presence + driving + overlap + head
      BY DEF ScoreCandidate
<1> HIDE DEF presence, driving, overlap, head
<1> QED BY <1>1, <1>2, <1>3 DEF MaxScore

\* Positions of members, their ids, and what is eligible among them.
LEMMA CandidatesKnown ==
    ASSUME NEW task, NEW members, NEW rules, NEW today, RouteInput(task, members, rules, today),
           NEW all, all = Candidates(task, members, today)
    PROVE  /\ all \subseteq DOMAIN members /\ IsFiniteSet(all) /\ all \subseteq Nat \ {0}
           /\ \A i \in all : members[i].id \in Int /\ IsFiniteSet(members[i].skills)
           /\ \A i, j \in DOMAIN members : members[i].id = members[j].id => i = j
<1>1. IsList(members) /\ UniqueIds(members)
      BY DEF RouteInput
<1>2. DOMAIN members = 1 .. Len(members) /\ Len(members) \in Nat /\ IsFiniteSet(DOMAIN members)
      BY <1>1, ListIsFinite
<1>3. all \subseteq DOMAIN members
      BY DEF Candidates
<1>4. IsFiniteSet(all)
      BY <1>2, <1>3, FS_Subset
<1>5. \A i \in DOMAIN members : members[i] \in ToSet(members)
      BY DEF ToSet
<1>6. \A i \in all : members[i].id \in Int /\ IsFiniteSet(members[i].skills)
      BY <1>3, <1>5 DEF RouteInput
<1> QED BY <1>1, <1>2, <1>3, <1>4, <1>6 DEF UniqueIds

\* The rule that decides is one of the strongest.
LEMMA FirstRuleFirst ==
    ASSUME NEW rules, IsList(rules), \A r \in ToSet(rules) : r.priority \in Int,
           NEW live \in SUBSET DOMAIN rules, live # {}
    PROVE  /\ FirstRule(rules, live) \in live
           /\ \A l \in live : rules[l].priority <= rules[FirstRule(rules, live)].priority
<1>1. DOMAIN rules \subseteq Int /\ IsFiniteSet(DOMAIN rules)
  <2>1. DOMAIN rules = 1 .. Len(rules) /\ IsFiniteSet(DOMAIN rules)
        BY ListIsFinite
  <2> QED BY <2>1
<1>2. IsFiniteSet(live) /\ \A k \in live : k \in Int /\ rules[k].priority \in Int
  <2>1. IsFiniteSet(live)
        BY <1>1, FS_Subset
  <2>2. \A k \in live : rules[k] \in ToSet(rules)
        BY DEF ToSet
  <2> QED BY <1>1, <2>1, <2>2
<1> DEFINE p == [k \in live |-> rules[k].priority]
           P == {p[k] : k \in live}
<1>3. P \in SUBSET Int /\ IsFiniteSet(P) /\ P # {}
  <2>1. P \in SUBSET Int /\ P # {}
        BY <1>2
  <2>2. p \in Surjection(live, P)
        BY DEF Surjection
  <2> HIDE DEF p, P
  <2>3. IsFiniteSet(P)
        BY <1>2, <2>2, FS_Surjection
  <2> QED BY <2>1, <2>3
<1>4. PICK top \in P : \A y \in P : top >= y
      BY <1>3, ExtremesExist
<1> DEFINE best == {k \in live : rules[k].priority = top}
<1>5. best \in SUBSET Int /\ IsFiniteSet(best) /\ best # {}
  <2>1. best \in SUBSET live
        OBVIOUS
  <2>2. best # {}
        BY <1>4
  <2>3. best \in SUBSET Int
        BY <1>2
  <2> HIDE DEF best
  <2> QED BY <1>2, <2>1, <2>2, <2>3, FS_Subset
<1>6. PICK k \in best : \A l \in best : k <= l
      BY <1>5, ExtremesExist
<1>7. ASSUME NEW l \in live
      PROVE  rules[k].priority > rules[l].priority \/ (rules[k].priority = rules[l].priority /\ k <= l)
  <2>1. rules[k].priority = top /\ rules[k].priority >= rules[l].priority
        BY <1>4
  <2>2. rules[k].priority \in Int /\ rules[l].priority \in Int
        BY <1>2
  <2>3. CASE rules[l].priority = top
        BY <1>6, <2>1, <2>3
  <2>4. CASE rules[l].priority # top
        BY <2>1, <2>2, <2>4
  <2> QED BY <2>3, <2>4
<1> DEFINE f == FirstRule(rules, live)
<1>8. /\ f \in live
      /\ \A l \in live : rules[f].priority > rules[l].priority \/ (rules[f].priority = rules[l].priority /\ f <= l)
      BY <1>7 DEF FirstRule
<1> HIDE DEF f
<1> QED BY <1>2, <1>8 DEF f

\* What the deciding rule does.
Decides(forced, live, task, members, rules, today) ==
    LET all == Candidates(task, members, today)
        k == FirstRule(rules, live)
    IN  /\ live = {} => forced = 0
        /\ live # {} => /\ k \in live /\ \A l \in live : rules[l].priority <= rules[k].priority
                        /\ forced \in all /\ RuleAppliesToMember(rules[k], members[forced], today)

LEMMA ForcedByRule ==
    ASSUME NEW task, NEW members, NEW rules, NEW today, RouteInput(task, members, rules, today),
           NEW live, live = LiveRules(task, members, rules, today)
    PROVE  /\ live \subseteq DOMAIN rules
           /\ Decides(Forced(task, members, rules, today), live, task, members, rules, today)
<1> DEFINE all == Candidates(task, members, today)
           k == FirstRule(rules, live)
           reached == {i \in all : RuleAppliesToMember(rules[k], members[i], today)}
<1>1. live \subseteq DOMAIN rules
      BY DEF LiveRules
<1>2. Forced(task, members, rules, today) = IF live = {} THEN 0 ELSE Min(reached)
      BY DEF Forced
<1>3. ASSUME live # {}
      PROVE  /\ k \in live /\ \A l \in live : rules[l].priority <= rules[k].priority
             /\ Min(reached) \in reached
  <2>1. k \in live /\ \A l \in live : rules[l].priority <= rules[k].priority
    <3>1. IsList(rules) /\ \A r \in ToSet(rules) : r.priority \in Int
          BY DEF RouteInput
    <3> QED BY <1>1, <1>3, <3>1, FirstRuleFirst
  <2> HIDE DEF k
  <2>2. \E i \in all : RuleAppliesToMember(rules[k], members[i], today)
        BY <2>1 DEF LiveRules
  <2>3. all \subseteq Nat \ {0} /\ IsFiniteSet(all)
        BY CandidatesKnown
  <2>4. reached \in SUBSET all /\ reached # {}
        BY <2>2
  <2> HIDE DEF all, reached
  <2>5. reached \in SUBSET Int
        BY <2>3, <2>4
  <2>6. IsFiniteSet(reached)
        BY <2>3, <2>4, FS_Subset
  <2> QED BY <2>1, <2>4, <2>5, <2>6, MinOfFinite
<1> QED BY <1>1, <1>2, <1>3 DEF Decides


RankPairs(score, all, members) ==
    {p \in all \X all : Ahead(score[p[1]], p[1], score[p[2]], p[2], members)}

LEMMA RankOrders ==
    ASSUME NEW all, NEW score, NEW members, \A i \in all : score[i] \in Int /\ members[i].id \in Int,
           \A i, j \in all : members[i].id = members[j].id => i = j
    PROVE  Orders(RankPairs(score, all, members), all)
<1> DEFINE R == RankPairs(score, all, members)
<1>1. \A i, j \in all : <<i, j>> \in R <=> Ahead(score[i], i, score[j], j, members)
      BY DEF RankPairs
<1>2. \A i \in all : ~Ahead(score[i], i, score[i], i, members)
      BY DEF Ahead
<1>3. \A i, j \in all : i # j =>
          Ahead(score[i], i, score[j], j, members) \/ Ahead(score[j], j, score[i], i, members)
      BY DEF Ahead
<1>4. \A i, j, k \in all :
          Ahead(score[i], i, score[j], j, members) /\ Ahead(score[j], j, score[k], k, members)
            => Ahead(score[i], i, score[k], k, members)
      BY DEF Ahead
<1> HIDE DEF R
<1>5. Orders(R, all)
      BY <1>1, <1>2, <1>3, <1>4 DEF Orders
<1> QED BY <1>5 DEF R

\* The answer, read off the ranking.
Reply(all, ranked, score, members, forced) ==
    IF all = {} THEN [member |-> Null, confidence |-> 0]
    ELSE [member |-> members[ranked[1]].id,
          confidence |-> IF ranked[1] = forced THEN 95
                         ELSE IF Len(ranked) = 1 THEN 90
                         ELSE Min({90, 50 + score[ranked[1]] - score[ranked[2]]})]

LEMMA RouteReplies ==
    ASSUME NEW task, NEW members, NEW rules, NEW today,
           NEW all, all = Candidates(task, members, today),
           NEW score, score = [i \in all |-> FinalScore(i, task, members, rules, today)],
           NEW ranked, ranked = SortedBy(all, RankPairs(score, all, members)),
           NEW forced, forced = Forced(task, members, rules, today)
    PROVE  Route(task, members, rules, today) = Reply(all, ranked, score, members, forced)
BY DEF Route, Sorted, RankPairs, Reply

\* Soft signals, and the boost of the one forced.
LEMMA FinalScores ==
    ASSUME NEW task, NEW members, NEW rules, NEW today, RouteInput(task, members, rules, today),
           NEW live, live = LiveRules(task, members, rules, today),
           NEW forced, forced = Forced(task, members, rules, today),
           NEW i \in Candidates(task, members, today)
    PROVE  /\ FinalScore(i, task, members, rules, today) \in Int
           /\ i # forced => FinalScore(i, task, members, rules, today) = ScoreCandidate(members[i], task)
           /\ i = forced => /\ live # {} /\ rules[FirstRule(rules, live)].priority \in Int
                            /\ FinalScore(i, task, members, rules, today)
                                 = ScoreCandidate(members[i], task) + (1000 + rules[FirstRule(rules, live)].priority)
           /\ ScoreCandidate(members[i], task) \in 0 .. MaxScore
<1> DEFINE s == ScoreCandidate(members[i], task)
           b == rules[FirstRule(rules, live)].priority
           f == FinalScore(i, task, members, rules, today)
<1>1. s \in 0 .. MaxScore /\ i \in Nat \ {0}
  <2>1. IsFiniteSet(members[i].skills) /\ i \in Nat \ {0}
        BY CandidatesKnown
  <2> QED BY <2>1, SoftScore
<1>2. live \subseteq DOMAIN rules /\ Decides(forced, live, task, members, rules, today)
      BY ForcedByRule
<1>3. i = forced => live # {}
      BY <1>1, <1>2 DEF Decides
<1>4. live # {} => b \in Int
  <2>1. \A k \in live : rules[k].priority \in Int
        BY <1>2 DEF RouteInput, ToSet
  <2> QED BY <1>2, <2>1 DEF Decides
<1>5. f = s + (IF i = forced THEN 1000 + b ELSE 0)
      BY DEF FinalScore
<1>6. s \in Int
      BY <1>1 DEF MaxScore
<1> HIDE DEF s, b, f
<1>7. /\ f \in Int
      /\ i # forced => f = s
      /\ i = forced => live # {} /\ b \in Int /\ f = s + (1000 + b)
      BY <1>3, <1>4, <1>5, <1>6
<1> QED BY <1>1, <1>7 DEF s, b, f

\* The one assigned has the best score.
LEMMA RouteTakesBest ==
    ASSUME NEW task, NEW members, NEW rules, NEW today, RouteInput(task, members, rules, today),
           NEW all, all = Candidates(task, members, today)
    PROVE  /\ all = {} => Route(task, members, rules, today).member = Null
           /\ all # {} => \E b \in all :
                 /\ Route(task, members, rules, today).member = members[b].id
                 /\ \A i \in all : FinalScore(i, task, members, rules, today)
                                      <= FinalScore(b, task, members, rules, today)
<1> DEFINE score == [i \in all |-> FinalScore(i, task, members, rules, today)]
           R == RankPairs(score, all, members)
           ranked == SortedBy(all, R)
           forced == Forced(task, members, rules, today)
           answer == Route(task, members, rules, today)
<1>1. answer = Reply(all, ranked, score, members, forced)
      BY RouteReplies
<1>2. CASE all = {}
      BY <1>1, <1>2 DEF Reply
<1>3. CASE all # {}
  <2>1. /\ all \subseteq DOMAIN members /\ IsFiniteSet(all)
        /\ \A i \in all : members[i].id \in Int
        /\ \A i, j \in DOMAIN members : members[i].id = members[j].id => i = j
        BY CandidatesKnown
  <2>2. \A i \in all : score[i] = FinalScore(i, task, members, rules, today) /\ score[i] \in Int
        BY FinalScores
  <2> HIDE DEF score
  <2>3. Orders(R, all)
        BY <2>1, <2>2, RankOrders
  <2>4. \A i, j \in all : <<i, j>> \in R => score[i] >= score[j]
        BY <2>2 DEF RankPairs, Ahead
  <2> HIDE DEF R
  <2>5. InOrder(ranked, R, all)
        BY <2>1, <2>3, SortedByFacts
  <2> HIDE DEF ranked
  <2>6. Cardinality(all) \in Nat /\ Cardinality(all) # 0
        BY <1>3, <2>1, FS_EmptySet, FS_CardinalityType
  <2>7. 1 \in 1 .. Cardinality(all) /\ ranked[1] \in all
    <3>1. 1 \in 1 .. Cardinality(all)
          BY <2>6
    <3> QED BY <2>5, <3>1 DEF InOrder
  <2>8. ASSUME NEW i \in all PROVE score[i] <= score[ranked[1]]
    <3>1. PICK k \in 1 .. Cardinality(all) : ranked[k] = i
          BY <2>5 DEF InOrder
    <3>2. CASE k = 1
          BY <2>2, <3>1, <3>2
    <3>3. CASE k # 1
      <4>1. 1 < k
            BY <3>3
      <4>2. <<ranked[1], ranked[k]>> \in R
            BY <2>5, <2>7, <4>1 DEF InOrder
      <4> QED BY <2>2, <2>4, <2>7, <3>1, <4>2
    <3> QED BY <3>2, <3>3
  <2>9. answer.member = members[ranked[1]].id
        BY <1>1, <1>3 DEF Reply
  <2> HIDE DEF answer
  <2>10. \A i \in all : FinalScore(i, task, members, rules, today)
                           <= FinalScore(ranked[1], task, members, rules, today)
         BY <2>2, <2>7, <2>8
  <2> QED BY <1>3, <2>7, <2>9, <2>10 DEF answer
<1> QED BY <1>2, <1>3

LEMMA RouteObeys ==
    ASSUME NEW task, NEW members, NEW rules, NEW today, RouteInput(task, members, rules, today)
    PROVE  Obeys(task, members, rules, today, Route(task, members, rules, today))
<1> DEFINE answer == Route(task, members, rules, today)
           all == Candidates(task, members, today)
           live == LiveRules(task, members, rules, today)
           forced == Forced(task, members, rules, today)
           fit == {m \in ToSet(members) : m.active /\ task.skills \subseteq m.skills
                  /\ (task.minAge # Null => m.birth # Null
                        /\ (task.minAge = 0 \/
                              ~Before([y |-> today.y - task.minAge, m |-> today.m, d |-> today.d], m.birth)))
                  /\ (task.maxAge # Null => m.birth # Null
                        /\ Before([y |-> today.y - task.maxAge - 1, m |-> today.m, d |-> today.d], m.birth))}
           reach(r) == {m \in fit : RuleAppliesToMember(r, m, today)}
           strong == {r \in ToSet(rules) : RuleMatchesTask(r, task) /\ reach(r) # {}}
           chosen == MemberOf(members, answer.member)
<1>0. /\ all \subseteq DOMAIN members /\ IsFiniteSet(all)
      /\ \A i \in all : members[i].id \in Int
      /\ \A i, j \in DOMAIN members : members[i].id = members[j].id => i = j
      BY CandidatesKnown
<1>1. ASSUME NEW i \in DOMAIN members PROVE members[i] \in fit <=> i \in all
  <2> DEFINE m == members[i]
  <2>1. m \in ToSet(members) /\ m.birth \in Maybe(Dates)
        BY DEF RouteInput, BirthsKnown, ToSet
  <2>2. today \in Dates /\ task.minAge \in Maybe(Nat) /\ task.maxAge \in Maybe(Nat)
        BY DEF RouteInput
  <2>3. i \in all <=> /\ m.active /\ task.skills \subseteq m.skills
                      /\ AgeFits(ComputeAge(m.birth, today), task.minAge, task.maxAge)
        BY DEF Candidates, IsEligible
  <2>4. AgeFits(ComputeAge(m.birth, today), task.minAge, task.maxAge) <=>
               /\ task.minAge # Null => m.birth # Null /\ OldEnough(m.birth, today, task.minAge)
               /\ task.maxAge # Null => m.birth # Null /\ YoungEnough(m.birth, today, task.maxAge)
    <3> DEFINE birth == m.birth
               least == task.minAge
               most == task.maxAge
    <3>1. birth \in Maybe(Dates) /\ least \in Maybe(Nat) /\ most \in Maybe(Nat)
          BY <2>1, <2>2
    <3> HIDE DEF birth, least, most
    <3>2. AgeFits(ComputeAge(birth, today), least, most) <=>
               /\ least # Null => birth # Null /\ OldEnough(birth, today, least)
               /\ most # Null => birth # Null /\ YoungEnough(birth, today, most)
          BY <2>2, <3>1, FitByAge
    <3> QED BY <3>2 DEF birth, least, most
  <2>5. task.maxAge # Null => today.y - (task.maxAge + 1) = today.y - task.maxAge - 1
        BY <2>2 DEF Dates, Maybe
  <2>6. m \in fit <=>
               /\ m.active /\ task.skills \subseteq m.skills
               /\ task.minAge # Null => m.birth # Null /\ OldEnough(m.birth, today, task.minAge)
               /\ task.maxAge # Null => m.birth # Null /\ YoungEnough(m.birth, today, task.maxAge)
        BY <2>1, <2>5 DEF OldEnough, YoungEnough, YearsBefore
  <2> HIDE DEF fit, all, m
  <2>7. m \in fit <=> i \in all
        BY <2>3, <2>4, <2>6
  <2> QED BY <2>7 DEF m
<1>2. \A m \in fit : \E i \in all : m = members[i]
  <2>1. \A m \in fit : \E i \in DOMAIN members : m = members[i]
        BY DEF ToSet
  <2> HIDE DEF fit, all
  <2> QED BY <1>1, <2>1
<1>3. live \subseteq DOMAIN rules /\ Decides(forced, live, task, members, rules, today)
      BY ForcedByRule
<1>4. ASSUME NEW k \in DOMAIN rules
      PROVE  k \in live <=> RuleMatchesTask(rules[k], task)
                             /\ \E i \in all : RuleAppliesToMember(rules[k], members[i], today)
      BY DEF LiveRules
<1>5. ASSUME NEW r PROVE \A m : m \in reach(r) <=> m \in fit /\ RuleAppliesToMember(r, m, today)
      OBVIOUS
<1>6. \A r : r \in strong <=> r \in ToSet(rules) /\ RuleMatchesTask(r, task) /\ \E m \in fit : RuleAppliesToMember(r, m, today)
      OBVIOUS
<1>7. /\ all = {} => answer.member = Null
      /\ all # {} => \E b \in all :
            /\ answer.member = members[b].id
            /\ \A i \in all : FinalScore(i, task, members, rules, today)
                                 <= FinalScore(b, task, members, rules, today)
      BY RouteTakesBest
<1>8. \A i \in all : /\ FinalScore(i, task, members, rules, today) \in Int
                     /\ i # forced => FinalScore(i, task, members, rules, today) = ScoreCandidate(members[i], task)
                     /\ i = forced => /\ live # {} /\ rules[FirstRule(rules, live)].priority \in Int
                            /\ FinalScore(i, task, members, rules, today)
                                 = ScoreCandidate(members[i], task) + (1000 + rules[FirstRule(rules, live)].priority)
                     /\ ScoreCandidate(members[i], task) \in 0 .. MaxScore
      BY FinalScores
<1>9. \A k \in DOMAIN rules : k \in live <=> rules[k] \in strong
  <2>1. \A k \in DOMAIN rules : rules[k] \in ToSet(rules)
        BY DEF ToSet
  <2> HIDE DEF fit, all, live, strong
  <2>2. ASSUME NEW k \in DOMAIN rules
        PROVE  (\E i \in all : RuleAppliesToMember(rules[k], members[i], today))
                 <=> \E m \in fit : RuleAppliesToMember(rules[k], m, today)
        BY <1>0, <1>1, <1>2
  <2> QED BY <1>4, <1>6, <2>1, <2>2
<1>10. \A r \in strong : \E k \in live : r = rules[k]
  <2>1. \A r \in strong : \E k \in DOMAIN rules : r = rules[k]
        BY DEF ToSet
  <2> HIDE DEF strong, live
  <2> QED BY <1>9, <2>1
<1>12. Decides(forced, live, task, members, rules, today) =>
          /\ live = {} => forced = 0
          /\ live # {} => /\ FirstRule(rules, live) \in live
                          /\ \A l \in live : rules[l].priority <= rules[FirstRule(rules, live)].priority
                          /\ forced \in all
                          /\ RuleAppliesToMember(rules[FirstRule(rules, live)], members[forced], today)
       BY DEF Decides
<1>13. 0 \notin all
       BY CandidatesKnown
<1> HIDE DEF answer, all, live, forced, fit, strong
<1>14. fit = {} <=> all = {}
       BY <1>0, <1>1, <1>2
<1>15. ASSUME NEW b \in all, answer.member = members[b].id PROVE chosen = members[b]
  <2> DEFINE j == CHOOSE i \in DOMAIN members : members[i].id = answer.member
  <2>1. b \in DOMAIN members /\ members[b].id = answer.member
        BY <1>0, <1>15
  <2>2. j \in DOMAIN members /\ members[j].id = answer.member
        BY <2>1
  <2>3. chosen = members[j]
        BY DEF MemberOf
  <2> HIDE DEF j
  <2>4. j = b
        BY <1>0, <2>1, <2>2
  <2> QED BY <2>3, <2>4
<1> HIDE DEF chosen
<1>16. answer.member = Null <=> fit = {}
  <2>1. CASE all # {}
    <3>1. PICK b \in all : answer.member = members[b].id
          BY <1>7, <2>1
    <3>2. answer.member \in Int
          BY <1>0, <3>1
    <3> QED BY <1>14, <2>1, <3>2, NullIsMissing
  <2> QED BY <1>7, <1>14, <2>1
<1>17. ASSUME fit # {}
       PROVE  /\ chosen \in fit
              /\ strong # {} => \E r \in strong :
                    (\A q \in strong : q.priority <= r.priority) /\ (Outweighs(r) => chosen \in reach(r))
              /\ strong = {} => \A m \in fit : ScoreCandidate(m, task) <= ScoreCandidate(chosen, task)
  <2>1. PICK b \in all :
            /\ answer.member = members[b].id
            /\ \A i \in all : FinalScore(i, task, members, rules, today)
                                 <= FinalScore(b, task, members, rules, today)
        BY <1>7, <1>14, <1>17
  <2>2. chosen = members[b] /\ chosen \in fit
        BY <1>0, <1>1, <1>15, <2>1
  <2>3. ASSUME strong # {}
        PROVE  \E r \in strong : (\A q \in strong : q.priority <= r.priority)
                                   /\ (Outweighs(r) => chosen \in reach(r))
    <3> DEFINE k == FirstRule(rules, live)
    <3>1. live # {}
          BY <1>10, <2>3
    <3>2. /\ k \in live /\ \A l \in live : rules[l].priority <= rules[k].priority
          /\ forced \in all /\ RuleAppliesToMember(rules[k], members[forced], today)
          BY <1>3, <1>12, <3>1
    <3>3. forced \in all => rules[k].priority \in Int
          BY <1>8
    <3>4. FinalScore(forced, task, members, rules, today)
             = ScoreCandidate(members[forced], task) + (1000 + rules[k].priority)
          BY <1>8, <3>2
    <3> HIDE DEF k
    <3>5. rules[k] \in strong
          BY <1>3, <1>9, <3>2
    <3>6. Outweighs(rules[k]) => b = forced
      <4> SUFFICES ASSUME Outweighs(rules[k]), b # forced PROVE FALSE
          OBVIOUS
      <4> DEFINE u == FinalScore(forced, task, members, rules, today)
                 v == FinalScore(b, task, members, rules, today)
                 p == rules[k].priority
                 s == ScoreCandidate(members[forced], task)
                 t == ScoreCandidate(members[b], task)
      <4>1. /\ u <= v /\ v = t /\ u = s + (1000 + p) /\ p \in Int
            /\ s \in 0 .. MaxScore /\ t \in 0 .. MaxScore /\ 1000 + p > MaxScore
            BY <1>8, <2>1, <3>2, <3>3, <3>4 DEF Outweighs
      <4> HIDE DEF u, v, p, s, t
      <4> QED BY <4>1 DEF MaxScore
    <3>7. Outweighs(rules[k]) => chosen \in reach(rules[k])
          BY <2>2, <3>2, <3>6
    <3>8. \A q \in strong : q.priority <= rules[k].priority
          BY <1>10, <3>2
    <3> QED BY <3>5, <3>7, <3>8
  <2>4. ASSUME strong = {}, NEW m \in fit PROVE ScoreCandidate(m, task) <= ScoreCandidate(chosen, task)
    <3>1. live = {}
          BY <1>3, <1>9, <2>4
    <3>2. forced = 0 /\ forced \notin all
          BY <1>3, <1>12, <1>13, <3>1
    <3>3. PICK i \in all : m = members[i]
          BY <1>2, <2>4
    <3>4. /\ FinalScore(i, task, members, rules, today) = ScoreCandidate(m, task)
          /\ FinalScore(b, task, members, rules, today) = ScoreCandidate(chosen, task)
          BY <1>8, <2>2, <3>2, <3>3
    <3> QED BY <2>1, <3>4
  <2> QED BY <2>2, <2>3, <2>4
<1>18. ASSUME strong # {} PROVE fit # {}
       BY <1>6, <1>18
<1>19. /\ answer.member = Null <=> fit = {}
       /\ fit # {} => chosen \in fit
       /\ strong # {} => \E r \in strong :
             /\ \A q \in strong : q.priority <= r.priority
             /\ Outweighs(r) => chosen \in reach(r)
       /\ strong = {} /\ fit # {} =>
             \A m \in fit : ScoreCandidate(m, task) <= ScoreCandidate(chosen, task)
       BY <1>16, <1>17, <1>18
<1> QED BY <1>19 DEF Obeys, answer, fit, strong, chosen

-----------------------------------------------------------------------------
(* Routing: the order of the lists.                                             *)

\* The same members and the same rules, listed in any other way.
Relisted(members, other, rules, back) ==
    /\ IsList(other) /\ UniqueIds(other) /\ ToSet(other) = ToSet(members)
    /\ IsList(back) /\ ToSet(back) = ToSet(rules)

LEMMA InputRelisted ==
    ASSUME NEW task, NEW members, NEW rules, NEW today, RouteInput(task, members, rules, today),
           NEW other, NEW back, Relisted(members, other, rules, back)
    PROVE  RouteInput(task, other, back, today)
BY DEF RouteInput, Relisted, BirthsKnown

\* The position of a member in the other list.
PlaceIn(other, m) == CHOOSE j \in DOMAIN other : other[j] = m

Moved(p, task, members, other, today) ==
    /\ p \in Bijection(Candidates(task, members, today), Candidates(task, other, today))
    /\ \A i \in Candidates(task, members, today) : other[p[i]] = members[i]

LEMMA CandidatesMove ==
    ASSUME NEW task, NEW members, NEW rules, NEW today, RouteInput(task, members, rules, today),
           NEW other, NEW back, Relisted(members, other, rules, back)
    PROVE  \E p : Moved(p, task, members, other, today)
<1> DEFINE A == Candidates(task, members, today)
           B == Candidates(task, other, today)
           p == [i \in A |-> PlaceIn(other, members[i])]
<1>1. /\ \A i \in A : i \in DOMAIN members /\ IsEligible(members[i], task, today)
      /\ \A i \in DOMAIN members : IsEligible(members[i], task, today) => i \in A
      /\ \A j \in B : j \in DOMAIN other /\ IsEligible(other[j], task, today)
      /\ \A j \in DOMAIN other : IsEligible(other[j], task, today) => j \in B
      BY DEF Candidates
<1>2. /\ \A i \in DOMAIN members : \E j \in DOMAIN other : other[j] = members[i]
      /\ \A j \in DOMAIN other : \E i \in DOMAIN members : other[j] = members[i]
      BY DEF Relisted, ToSet
<1>3. /\ \A i, j \in DOMAIN members : members[i] = members[j] => i = j
      /\ \A i, j \in DOMAIN other : other[i] = other[j] => i = j
      BY DEF RouteInput, Relisted, UniqueIds
<1>4. ASSUME NEW i \in A
      PROVE  PlaceIn(other, members[i]) \in DOMAIN other /\ other[PlaceIn(other, members[i])] = members[i]
      BY <1>1, <1>2 DEF PlaceIn
<1> HIDE DEF A, B
<1>5. ASSUME NEW i \in A PROVE p[i] \in B /\ other[p[i]] = members[i]
      BY <1>1, <1>4
<1>6. p \in [A -> B]
      BY <1>5
<1>7. \A i, j \in A : p[i] = p[j] => i = j
      BY <1>1, <1>3, <1>5
<1>8. ASSUME NEW j \in B PROVE \E i \in A : p[i] = j
  <2>1. PICK i \in DOMAIN members : other[j] = members[i]
        BY <1>1, <1>2
  <2>2. i \in A
        BY <1>1, <2>1
  <2>3. p[i] \in DOMAIN other /\ other[p[i]] = other[j]
        BY <1>1, <1>5, <2>1, <2>2
  <2> QED BY <1>1, <1>3, <2>2, <2>3
<1>9. DOMAIN p = A
      OBVIOUS
<1> HIDE DEF p
<1>10. p \in Bijection(A, B)
       BY <1>6, <1>7, <1>8, <1>9 DEF Bijection, Injection, Surjection, IsInjective
<1> QED BY <1>5, <1>10 DEF Moved, A, B

\* The one forced is the same member, or there is none in either list.
LEMMA ForcedMoves ==
    ASSUME NEW task, NEW members, NEW rules, NEW today, RouteInput(task, members, rules, today),
           NEW other, NEW back, Relisted(members, other, rules, back),
           NEW p, Moved(p, task, members, other, today),
           NEW live, live = LiveRules(task, members, rules, today),
           NEW live2, live2 = LiveRules(task, other, back, today),
           NEW forced, forced = Forced(task, members, rules, today),
           NEW forced2, forced2 = Forced(task, other, back, today),
           \A i, j \in Candidates(task, members, today) :
              (/\ \E k \in live : /\ \A l \in live : rules[l].priority <= rules[k].priority
                                  /\ RuleAppliesToMember(rules[k], members[i], today)
               /\ \E k \in live : /\ \A l \in live : rules[l].priority <= rules[k].priority
                                  /\ RuleAppliesToMember(rules[k], members[j], today)) => i = j
    PROVE  /\ \A i \in Candidates(task, members, today) : i = forced <=> p[i] = forced2
           /\ live # {} => live2 # {} /\ rules[FirstRule(rules, live)].priority
                                           = back[FirstRule(back, live2)].priority
<1> DEFINE A == Candidates(task, members, today)
           B == Candidates(task, other, today)
           k == FirstRule(rules, live)
           q == FirstRule(back, live2)
<1>1. live \subseteq DOMAIN rules /\ Decides(forced, live, task, members, rules, today)
      BY ForcedByRule
<1>2. live2 \subseteq DOMAIN back /\ Decides(forced2, live2, task, other, back, today)
  <2>1. RouteInput(task, other, back, today)
        BY InputRelisted
  <2> QED BY <2>1, ForcedByRule
<1>3. /\ live = {} => forced = 0
      /\ live # {} => /\ k \in live /\ \A l \in live : rules[l].priority <= rules[k].priority
                      /\ forced \in A /\ RuleAppliesToMember(rules[k], members[forced], today)
      BY <1>1 DEF Decides
<1>4. /\ live2 = {} => forced2 = 0
      /\ live2 # {} => /\ q \in live2 /\ \A l \in live2 : back[l].priority <= back[q].priority
                       /\ forced2 \in B /\ RuleAppliesToMember(back[q], other[forced2], today)
      BY <1>2 DEF Decides
<1>5. /\ \A l \in DOMAIN rules : l \in live <=>
             RuleMatchesTask(rules[l], task) /\ \E i \in A : RuleAppliesToMember(rules[l], members[i], today)
      /\ \A l \in DOMAIN back : l \in live2 <=>
             RuleMatchesTask(back[l], task) /\ \E i \in B : RuleAppliesToMember(back[l], other[i], today)
      BY DEF LiveRules
<1>6. /\ \A i \in A : p[i] \in B /\ other[p[i]] = members[i]
      /\ \A j \in B : \E i \in A : p[i] = j
      /\ \A i, j \in A : p[i] = p[j] => i = j
      BY DEF Moved, Bijection, Injection, Surjection, IsInjective
<1>7. 0 \notin A /\ 0 \notin B
  <2>1. RouteInput(task, other, back, today)
        BY InputRelisted
  <2> QED BY <2>1, CandidatesKnown
<1>8. /\ \A l \in DOMAIN rules : \E h \in DOMAIN back : back[h] = rules[l]
      /\ \A h \in DOMAIN back : \E l \in DOMAIN rules : back[h] = rules[l]
      BY DEF Relisted, ToSet
<1>9. \A l \in live : rules[l].priority \in Int
      BY <1>1 DEF RouteInput, ToSet
<1> HIDE DEF A, B, k, q
<1>10. \A l \in live : \E h \in live2 : back[h] = rules[l]
       BY <1>1, <1>5, <1>6, <1>8
<1>11. \A h \in live2 : \E l \in live : back[h] = rules[l]
       BY <1>2, <1>5, <1>6, <1>8
<1>12. CASE live = {}
  <2>1. live2 = {}
        BY <1>11, <1>12
  <2> QED BY <1>3, <1>4, <1>6, <1>7, <1>12, <2>1 DEF A
<1>13. CASE live # {}
  <2>1. live2 # {}
        BY <1>10, <1>13
  <2>2. PICK l \in live : back[q] = rules[l]
        BY <1>4, <1>11, <2>1
  <2>3. PICK h \in live2 : back[h] = rules[k]
        BY <1>3, <1>10, <1>13
  <2>4. rules[l].priority = rules[k].priority
    <3>1. rules[l].priority <= rules[k].priority
          BY <1>3, <1>13
    <3>2. rules[k].priority <= rules[l].priority
          BY <1>4, <2>1, <2>2, <2>3
    <3>3. rules[l].priority \in Int /\ rules[k].priority \in Int
          BY <1>3, <1>9, <1>13
    <3> QED BY <3>1, <3>2, <3>3
  <2>5. PICK i \in A : p[i] = forced2
        BY <1>4, <1>6, <2>1
  <2>6. RuleAppliesToMember(rules[l], members[i], today)
        BY <1>4, <1>6, <2>1, <2>2, <2>5
  <2>7. \A m \in live : rules[m].priority <= rules[l].priority
        BY <1>3, <1>13, <2>4
  <2>8. i = forced
    <3>1. /\ \E g \in live : /\ \A m \in live : rules[m].priority <= rules[g].priority
                             /\ RuleAppliesToMember(rules[g], members[i], today)
          /\ \E g \in live : /\ \A m \in live : rules[m].priority <= rules[g].priority
                             /\ RuleAppliesToMember(rules[g], members[forced], today)
          BY <1>3, <1>13, <2>6, <2>7
    <3>2. i \in Candidates(task, members, today) /\ forced \in Candidates(task, members, today)
          BY <1>3, <1>13, <2>5 DEF A
    <3> QED BY <3>1, <3>2
  <2>9. \A j \in A : j = forced <=> p[j] = forced2
        BY <1>6, <2>5, <2>8
  <2> QED BY <2>1, <2>2, <2>4, <2>9 DEF A, k, q
<1> QED BY <1>12, <1>13


LEMMA SameRoute ==
    ASSUME NEW task, NEW members, NEW rules, NEW today, RouteInput(task, members, rules, today),
           NEW other, NEW back, Relisted(members, other, rules, back),
           NEW live, live = LiveRules(task, members, rules, today),
           \A i, j \in Candidates(task, members, today) :
              (/\ \E k \in live : /\ \A l \in live : rules[l].priority <= rules[k].priority
                                  /\ RuleAppliesToMember(rules[k], members[i], today)
               /\ \E k \in live : /\ \A l \in live : rules[l].priority <= rules[k].priority
                                  /\ RuleAppliesToMember(rules[k], members[j], today)) => i = j
    PROVE  Route(task, other, back, today) = Route(task, members, rules, today)
<1> DEFINE A == Candidates(task, members, today)
           B == Candidates(task, other, today)
           forced == Forced(task, members, rules, today)
           forced2 == Forced(task, other, back, today)
           live2 == LiveRules(task, other, back, today)
           score == [i \in A |-> FinalScore(i, task, members, rules, today)]
           score2 == [i \in B |-> FinalScore(i, task, other, back, today)]
           R == RankPairs(score, A, members)
           Q == RankPairs(score2, B, other)
           s == SortedBy(A, R)
           t == SortedBy(B, Q)
<1>1. PICK p : Moved(p, task, members, other, today)
      BY CandidatesMove
<1>2. RouteInput(task, other, back, today)
      BY InputRelisted
<1>3. /\ Route(task, members, rules, today) = Reply(A, s, score, members, forced)
      /\ Route(task, other, back, today) = Reply(B, t, score2, other, forced2)
      BY RouteReplies
<1>4. /\ \A i \in A : i = forced <=> p[i] = forced2
      /\ live # {} => live2 # {} /\ rules[FirstRule(rules, live)].priority = back[FirstRule(back, live2)].priority
      BY <1>1, ForcedMoves
<1>5. /\ p \in Bijection(A, B) /\ \A i \in A : p[i] \in B /\ other[p[i]] = members[i]
      BY <1>1 DEF Moved, Bijection, Injection
<1>6. /\ IsFiniteSet(A) /\ \A i \in A : members[i].id \in Int
      /\ \A i, j \in A : members[i].id = members[j].id => i = j
      BY CandidatesKnown
<1>7. ASSUME NEW i \in A
      PROVE  /\ score[i] \in Int
             /\ i # forced => score[i] = ScoreCandidate(members[i], task)
             /\ i = forced => /\ live # {}
                              /\ score[i] = ScoreCandidate(members[i], task)
                                               + (1000 + rules[FirstRule(rules, live)].priority)
      BY FinalScores
<1>8. ASSUME NEW j \in B
      PROVE  /\ j # forced2 => score2[j] = ScoreCandidate(other[j], task)
             /\ j = forced2 => score2[j] = ScoreCandidate(other[j], task)
                                              + (1000 + back[FirstRule(back, live2)].priority)
      BY <1>2, FinalScores
<1> HIDE DEF A, B, forced, forced2, live2, score, score2
<1>9. ASSUME NEW i \in A PROVE score2[p[i]] = score[i]
  <2> DEFINE x == p[i]
             u == ScoreCandidate(members[i], task)
             b == rules[FirstRule(rules, live)].priority
             b2 == back[FirstRule(back, live2)].priority
  <2>1. x \in B /\ other[x] = members[i] /\ (i = forced <=> x = forced2)
        BY <1>4, <1>5
  <2>2. /\ i # forced => score[i] = u
        /\ i = forced => live # {} /\ score[i] = u + (1000 + b)
        BY <1>7
  <2>3. /\ x # forced2 => score2[x] = u
        /\ x = forced2 => score2[x] = u + (1000 + b2)
        BY <1>8, <2>1
  <2>4. live # {} => b = b2
        BY <1>4
  <2> HIDE DEF x, u, b, b2
  <2>5. score2[x] = score[i]
        BY <2>1, <2>2, <2>3, <2>4
  <2> QED BY <2>5 DEF x
<1>10. Orders(R, A)
       BY <1>6, <1>7, RankOrders
<1>11. Renames(p, A, R, B, Q)
  <2>1. ASSUME NEW i \in A, NEW j \in A PROVE <<i, j>> \in R <=> <<p[i], p[j]>> \in Q
    <3>1. /\ p[i] \in B /\ p[j] \in B /\ other[p[i]] = members[i] /\ other[p[j]] = members[j]
          /\ score2[p[i]] = score[i] /\ score2[p[j]] = score[j]
          BY <1>5, <1>9
    <3>2. Ahead(score2[p[i]], p[i], score2[p[j]], p[j], other) <=> Ahead(score[i], i, score[j], j, members)
          BY <3>1 DEF Ahead
    <3> QED BY <3>1, <3>2 DEF RankPairs
  <2> QED BY <1>5, <2>1 DEF Renames
<1> HIDE DEF R, Q
<1>12. /\ IsFiniteSet(B) /\ Cardinality(B) = Cardinality(A)
       /\ \A k \in 1 .. Cardinality(A) : t[k] = p[s[k]]
       BY <1>6, <1>10, <1>11, SortTransports
<1>13. InOrder(s, R, A)
       BY <1>6, <1>10, SortedByFacts
<1>14. Len(t) = Cardinality(B)
  <2>1. Orders(Q, B)
        BY <1>10, <1>11, RenamedOrder
  <2>2. InOrder(t, Q, B)
        BY <1>12, <2>1, SortedByFacts
  <2> HIDE DEF t
  <2> QED BY <2>2 DEF InOrder
<1> HIDE DEF s, t
<1>15. Cardinality(A) \in Nat /\ Len(s) = Cardinality(A) /\ \A k \in 1 .. Cardinality(A) : s[k] \in A
       BY <1>13 DEF InOrder
<1>16. CASE A = {}
  <2>1. B = {}
        BY <1>12, <1>16, FS_EmptySet
  <2> QED BY <1>3, <1>16, <2>1 DEF Reply
<1>17. CASE A # {}
  <2>1. B # {} /\ Cardinality(A) # 0
        BY <1>6, <1>12, <1>17, FS_EmptySet
  <2>2. s[1] \in A /\ t[1] = p[s[1]]
        BY <1>12, <1>15, <2>1
  <2>3. other[t[1]] = members[s[1]] /\ score2[t[1]] = score[s[1]] /\ (s[1] = forced <=> t[1] = forced2)
        BY <1>4, <1>5, <1>9, <2>2
  <2>4. Len(s) = Len(t)
        BY <1>12, <1>14, <1>15
  <2>5. Len(s) # 1 => score2[t[2]] = score[s[2]]
    <3> SUFFICES ASSUME Len(s) # 1 PROVE score2[t[2]] = score[s[2]]
        OBVIOUS
    <3>1. 2 \in 1 .. Cardinality(A)
          BY <1>15, <2>1
    <3>2. s[2] \in A /\ t[2] = p[s[2]]
          BY <1>12, <1>15, <3>1
    <3> QED BY <1>9, <3>2
  <2> DEFINE sure(r, f, v) == IF r[1] = f THEN 95
                              ELSE IF Len(r) = 1 THEN 90 ELSE Min({90, 50 + v[r[1]] - v[r[2]]})
  <2>6. sure(s, forced, score) = sure(t, forced2, score2)
    <3>1. CASE s[1] = forced
          BY <2>3, <3>1
    <3>2. CASE s[1] # forced /\ Len(s) = 1
          BY <2>3, <2>4, <3>2
    <3>3. CASE s[1] # forced /\ Len(s) # 1
          BY <2>3, <2>4, <2>5, <3>3
    <3> QED BY <3>1, <3>2, <3>3
  <2>7. /\ Reply(A, s, score, members, forced)
              = [member |-> members[s[1]].id, confidence |-> sure(s, forced, score)]
        /\ Reply(B, t, score2, other, forced2)
              = [member |-> other[t[1]].id, confidence |-> sure(t, forced2, score2)]
        BY <1>17, <2>1 DEF Reply
  <2> HIDE DEF sure
  <2> QED BY <1>3, <2>3, <2>6, <2>7
<1> QED BY <1>16, <1>17

LEMMA ReversedIsList ==
    ASSUME NEW s, IsList(s)
    PROVE  IsList(Reverse(s)) /\ ToSet(Reverse(s)) = ToSet(s)
<1> DEFINE n == Len(s)
           r == Reverse(s)
<1>1. n \in Nat /\ DOMAIN s = 1 .. n
      BY ListIsFinite
<1>2. r = [i \in 1 .. n |-> s[(n - i) + 1]]
      BY DEF Reverse
<1>3. \A i \in 1 .. n : (n - i) + 1 \in 1 .. n /\ (n - ((n - i) + 1)) + 1 = i
      BY <1>1
<1>4. \A i \in 1 .. n : s[i] \in ToSet(s)
      BY <1>1 DEF ToSet
<1> HIDE DEF n, r
<1>5. DOMAIN r = 1 .. n /\ \A i \in 1 .. n : r[i] = s[(n - i) + 1]
      BY <1>2
<1>6. \A i \in 1 .. n : r[i] \in ToSet(s)
      BY <1>3, <1>4, <1>5
<1>7. \A i \in 1 .. n : \E j \in 1 .. n : r[j] = s[i]
  <2> TAKE i \in 1 .. n
  <2> DEFINE j == (n - i) + 1
  <2>1. j \in 1 .. n /\ (n - j) + 1 = i
        BY <1>3
  <2> HIDE DEF j
  <2> QED BY <1>5, <2>1
<1>8. ToSet(r) = ToSet(s)
  <2>1. ToSet(r) \subseteq ToSet(s)
        BY <1>5, <1>6 DEF ToSet
  <2>2. ToSet(s) \subseteq ToSet(r)
        BY <1>1, <1>5, <1>7 DEF ToSet
  <2> QED BY <2>1, <2>2
<1>9. r \in Seq(ToSet(s))
      BY <1>1, <1>2, <1>3, <1>4
<1> QED BY <1>8, <1>9 DEF IsList, r

LEMMA ArrangementRelists ==
    ASSUME NEW task, NEW members, NEW rules, NEW today, RouteInput(task, members, rules, today),
           NEW other \in SetToSeqs(ToSet(members))
    PROVE  Relisted(members, other, rules, Reverse(rules))
<1> DEFINE S == ToSet(members)
           n == Cardinality(S)
<1>1. IsList(members) /\ UniqueIds(members) /\ IsList(rules)
      BY DEF RouteInput
<1>2. IsFiniteSet(S) /\ n \in Nat
      BY <1>1, ListIsFinite, FS_CardinalityType
<1>3. ToSet(other) = S
      BY <1>2, ArrangementHoldsAll
<1>4. other \in [1 .. n -> S] /\ \A i, j \in 1 .. n : i # j => other[i] # other[j]
      BY DEF SetToSeqs
<1>5. \A m, o \in S : m.id = o.id => m = o
      BY <1>1 DEF UniqueIds, ToSet
<1> HIDE DEF S, n
<1>6. IsList(other)
      BY <1>2, <1>3, <1>4 DEF IsList
<1>7. UniqueIds(other)
  <2>1. DOMAIN other = 1 .. n /\ \A i \in 1 .. n : other[i] \in S
        BY <1>4
  <2> QED BY <1>4, <1>5, <2>1 DEF UniqueIds
<1> QED BY <1>1, <1>3, <1>6, <1>7, ReversedIsList DEF Relisted, S

LEMMA RouteOrderFree ==
    ASSUME NEW task, NEW members, NEW rules, NEW today, RouteInput(task, members, rules, today)
    PROVE  OrderFree(task, members, rules, today)
<1> DEFINE all == Candidates(task, members, today)
           live == {k \in DOMAIN rules : /\ RuleMatchesTask(rules[k], task)
                       /\ \E i \in Candidates(task, members, today) :
                             RuleAppliesToMember(rules[k], members[i], today)}
           top == {k \in live : \A l \in live : rules[l].priority <= rules[k].priority}
           targets == {i \in Candidates(task, members, today) :
                          \E k \in top : RuleAppliesToMember(rules[k], members[i], today)}
<1>1. live = LiveRules(task, members, rules, today)
      BY DEF LiveRules
<1>2. IsFiniteSet(targets)
  <2>1. IsFiniteSet(all)
        BY CandidatesKnown
  <2>2. targets \in SUBSET all
        OBVIOUS
  <2> HIDE DEF targets, all
  <2> QED BY <2>1, <2>2, FS_Subset
<1>3. ASSUME NEW i \in all, NEW k \in live, \A l \in live : rules[l].priority <= rules[k].priority,
             RuleAppliesToMember(rules[k], members[i], today)
      PROVE  i \in targets
  <2> HIDE DEF live
  <2> QED BY <1>3
<1>4. ASSUME Cardinality(targets) <= 1, NEW other \in SetToSeqs(ToSet(members))
      PROVE  Route(task, other, Reverse(rules), today) = Route(task, members, rules, today)
  <2>1. Relisted(members, other, rules, Reverse(rules))
        BY ArrangementRelists
  <2> HIDE DEF live, targets
  <2>2. \A i, j \in Candidates(task, members, today) :
              (/\ \E k \in live : /\ \A l \in live : rules[l].priority <= rules[k].priority
                                  /\ RuleAppliesToMember(rules[k], members[i], today)
               /\ \E k \in live : /\ \A l \in live : rules[l].priority <= rules[k].priority
                                  /\ RuleAppliesToMember(rules[k], members[j], today)) => i = j
        BY <1>2, <1>3, <1>4, OnlyOne
  <2> QED BY <1>1, <2>1, <2>2, SameRoute
<1> QED BY <1>4 DEF OrderFree

\* Every hard constraint is met and the strongest rule obeyed, and the order in which
\* the database lists members and rules does not decide (route), whatever the calls.
THEOREM RoutingSound == Spec => []RoutingIsSound
<1>1. Legal /\ Answers => RoutingIsSound
  <2> SUFFICES ASSUME Answers, Answered("route")
               PROVE  /\ Obeys(a.task, a.members, a.rules, a.today, reply)
                      /\ OrderFree(a.task, a.members, a.rules, a.today)
      BY DEF RoutingIsSound, RoutingObeysRules, RoutingIgnoresOrder
  <2>1. a \in RouteCalls /\ reply = Route(a.task, a.members, a.rules, a.today)
        BY DEF Answers
  <2>2. RouteInput(a.task, a.members, a.rules, a.today)
        BY <2>1, RouteCallsAreLegal DEF RouteInput
  <2> QED BY <2>1, <2>2, RouteObeys, RouteOrderFree
<1> QED BY <1>1, AnswersFollow, PTL

-----------------------------------------------------------------------------
(* Recurrence: the calendar.                                                    *)

LEMMA MonthLengths ==
    ASSUME NEW m \in Nat
    PROVE  DaysIn(m) \in Int /\ 28 <= DaysIn(m) /\ DaysIn(m) <= 31 /\ DaysIn(m + 12) = DaysIn(m)
<1>1. m % 12 \in 0 .. 11 /\ (m + 12) % 12 = m % 12
      OBVIOUS
<1> QED BY <1>1 DEF DaysIn

LEMMA MonthAfter ==
    ASSUME NEW m \in Nat
    PROVE  DaysTo(m) \in Int /\ DaysTo(m + 1) = DaysTo(m) + DaysIn(m)
<1> DEFINE S == 0 .. m
           T == 0 .. m - 1
           v == [i \in 0 .. m |-> DaysIn(i)]
           w == [i \in 0 .. m - 1 |-> DaysIn(i)]
<1>1. IsFiniteSet(S) /\ IsFiniteSet(T)
      BY FS_Interval
<1>0. T \in SUBSET S /\ S \in SUBSET S /\ m \in S /\ S \ {m} = T
      OBVIOUS
<1>2. \A i \in S : v[i] \in Int
      BY MonthLengths
<1>3. \A i \in T : v[i] \in Int /\ v[i] = w[i]
      BY <1>2
<1>4. v[m] = DaysIn(m)
      OBVIOUS
<1>5. DaysTo(m) = SumOf(w, T) /\ DaysTo(m + 1) = SumOf(v, S)
  <2>1. m + 1 - 1 = m
        OBVIOUS
  <2> QED BY <2>1 DEF DaysTo
<1> HIDE DEF S, T, v, w
<1>9. \A t \in SUBSET S : /\ SumOf(v, t) \in Int
                          /\ \A x \in t : SumOf(v, t) = v[x] + SumOf(v, t \ {x})
      BY <1>1, <1>2, SumFacts
<1>6. SumOf(v, S) = v[m] + SumOf(v, S \ {m})
      BY <1>0, <1>9
<1>7. SumOf(v, T) = SumOf(w, T)
      BY <1>1, <1>3, SumSame
<1>8. SumOf(v, T) \in Int
      BY <1>0, <1>9
<1>10. SumOf(v, S) = DaysIn(m) + SumOf(v, T) /\ DaysIn(m) \in Int
       BY <1>0, <1>4, <1>6, MonthLengths
<1> QED BY <1>5, <1>7, <1>8, <1>10

LEMMA LaterMonths ==
    ASSUME NEW m \in Nat, NEW k \in Nat
    PROVE  DaysTo(m + k + 1) >= DaysTo(m) + 28
<1> DEFINE T == {n \in Nat : DaysTo(m + n + 1) >= DaysTo(m) + 28}
<1>1. 0 \in T
  <2>1. m + 0 + 1 = m + 1
        OBVIOUS
  <2> QED BY <2>1, MonthAfter, MonthLengths
<1>2. ASSUME NEW n \in Nat, n \in T PROVE n + 1 \in T
  <2>1. m + n + 1 \in Nat /\ m + (n + 1) + 1 = (m + n + 1) + 1
        OBVIOUS
  <2>2. DaysTo(m + (n + 1) + 1) = DaysTo(m + n + 1) + DaysIn(m + n + 1)
        BY <2>1, MonthAfter
  <2>3. DaysTo(m) \in Int /\ DaysTo(m + n + 1) \in Int /\ DaysTo(m + n + 1) >= DaysTo(m) + 28
        BY <1>2, <2>1, MonthAfter
  <2>4. DaysIn(m + n + 1) \in Int /\ DaysIn(m + n + 1) >= 28
        BY <2>1, MonthLengths
  <2>5. DaysTo(m + (n + 1) + 1) >= DaysTo(m) + 28
        BY <2>2, <2>3, <2>4
  <2> QED BY <2>5
<1> HIDE DEF T
<1>3. k \in T
      BY <1>1, <1>2, NumberInduction
<1> QED BY <1>3 DEF T

LEMMA MonthsInOrder ==
    ASSUME NEW m \in Nat, NEW n \in Nat, m < n
    PROVE  DaysTo(m) \in Int /\ DaysTo(n) \in Int /\ DaysTo(m) + 28 <= DaysTo(n)
<1> DEFINE k == n - m - 1
<1>1. k \in Nat /\ m + k + 1 = n
      OBVIOUS
<1> HIDE DEF k
<1>2. DaysTo(m + k + 1) >= DaysTo(m) + 28
      BY <1>1, LaterMonths
<1>3. DaysTo(n) >= DaysTo(m) + 28
      BY <1>1, <1>2
<1> QED BY <1>3, MonthAfter

LEMMA YearOfDays ==
    ASSUME NEW m \in Nat
    PROVE  DaysTo(m + 12) = DaysTo(m) + 365
<1> DEFINE T == {n \in Nat : DaysTo(n + 12) = DaysTo(n) + 365}
<1>1. 0 \in T
  <2>1. /\ DaysTo(0 + 1) = DaysTo(0) + DaysIn(0) /\ DaysTo(1 + 1) = DaysTo(1) + DaysIn(1)
        /\ DaysTo(2 + 1) = DaysTo(2) + DaysIn(2) /\ DaysTo(3 + 1) = DaysTo(3) + DaysIn(3)
        /\ DaysTo(4 + 1) = DaysTo(4) + DaysIn(4) /\ DaysTo(5 + 1) = DaysTo(5) + DaysIn(5)
        /\ DaysTo(6 + 1) = DaysTo(6) + DaysIn(6) /\ DaysTo(7 + 1) = DaysTo(7) + DaysIn(7)
        /\ DaysTo(8 + 1) = DaysTo(8) + DaysIn(8) /\ DaysTo(9 + 1) = DaysTo(9) + DaysIn(9)
        /\ DaysTo(10 + 1) = DaysTo(10) + DaysIn(10) /\ DaysTo(11 + 1) = DaysTo(11) + DaysIn(11)
        BY MonthAfter
  <2>2. /\ DaysIn(0) = 31 /\ DaysIn(1) = 28 /\ DaysIn(2) = 31 /\ DaysIn(3) = 30 /\ DaysIn(4) = 31
        /\ DaysIn(5) = 30 /\ DaysIn(6) = 31 /\ DaysIn(7) = 31 /\ DaysIn(8) = 30 /\ DaysIn(9) = 31
        /\ DaysIn(10) = 30 /\ DaysIn(11) = 31
        BY DEF DaysIn
  <2>3. DaysTo(0) \in Int
        BY MonthAfter
  <2>4. DaysTo(12) = DaysTo(0) + 365
        BY <2>1, <2>2, <2>3
  <2> QED BY <2>4
<1>2. ASSUME NEW n \in Nat, n \in T PROVE n + 1 \in T
  <2>1. n + 12 \in Nat /\ (n + 1) + 12 = (n + 12) + 1
        OBVIOUS
  <2>2. DaysTo((n + 12) + 1) = DaysTo(n + 12) + DaysIn(n + 12)
        BY <2>1, MonthAfter
  <2>3. DaysTo(n + 1) = DaysTo(n) + DaysIn(n) /\ DaysTo(n) \in Int
        BY MonthAfter
  <2>4. DaysIn(n + 12) = DaysIn(n) /\ DaysIn(n) \in Int
        BY MonthLengths
  <2>5. DaysTo(n + 12) = DaysTo(n) + 365
        BY <1>2
  <2>6. DaysTo((n + 1) + 12) = DaysTo(n + 1) + 365
        BY <2>1, <2>2, <2>3, <2>4, <2>5
  <2> QED BY <2>6
<1> HIDE DEF T
<1>3. m \in T
      BY <1>1, <1>2, NumberInduction
<1> QED BY <1>3 DEF T

\* Date.UTC moves a day past the end of its month to the next one.
LEMMA DateMoved ==
    ASSUME NEW m \in Nat, NEW d \in 1 .. 31
    PROVE  /\ DateUTC(m, d).m \in Nat /\ DateUTC(m, d).d \in 1 .. DaysIn(DateUTC(m, d).m)
           /\ DayNumber(DateUTC(m, d)) = DaysTo(m) + d
<1>1. /\ DaysIn(m) \in Int /\ DaysIn(m) \in 28 .. 31 /\ DaysIn(m + 1) \in Int /\ DaysIn(m + 1) >= 28
      BY MonthLengths
<1>2. DaysTo(m) \in Int /\ DaysTo(m + 1) = DaysTo(m) + DaysIn(m)
      BY MonthAfter
<1>3. CASE d <= DaysIn(m)
  <2>1. DateUTC(m, d).m = m /\ DateUTC(m, d).d = d
        BY <1>3 DEF DateUTC
  <2> QED BY <1>1, <1>2, <1>3, <2>1 DEF DayNumber
<1>4. CASE ~(d <= DaysIn(m))
  <2>1. DateUTC(m, d).m = m + 1 /\ DateUTC(m, d).d = d - DaysIn(m)
        BY <1>4 DEF DateUTC
  <2>2. d - DaysIn(m) \in 1 .. 3
        BY <1>1, <1>4
  <2>3. DayNumber(DateUTC(m, d)) = DaysTo(m + 1) + (d - DaysIn(m))
        BY <2>1 DEF DayNumber
  <2> QED BY <1>1, <1>2, <2>1, <2>2, <2>3
<1> QED BY <1>3, <1>4

-----------------------------------------------------------------------------
(* Recurrence: the anchor and the rule of a template.                           *)

RealDate(date) == date.m \in Nat /\ date.d \in 1 .. DaysIn(date.m)

TemplateKnown(t) ==
    /\ t.rule \in Maybe([freq : {"DAILY", "MONTHLY"}, interval : Nat \ {0}])
    /\ t.everyDays \in Maybe(Nat \ {0}) /\ t.everyMonths \in Maybe(Nat \ {0})
    /\ t.anchorMonth \in Maybe(1 .. 12) /\ t.anchorDay \in Maybe(1 .. 31)

LEMMA RuleKnown ==
    ASSUME NEW tpl, TemplateKnown(tpl)
    PROVE  BuildRrule(tpl).freq \in {"DAILY", "MONTHLY"} /\ BuildRrule(tpl).interval \in Nat \ {0}
<1>1. CASE tpl.rule # Null
  <2>1. tpl.rule \in [freq : {"DAILY", "MONTHLY"}, interval : Nat \ {0}]
        BY <1>1 DEF TemplateKnown, Maybe
  <2>2. BuildRrule(tpl) = tpl.rule
        BY <1>1 DEF BuildRrule
  <2> QED BY <2>1, <2>2
<1>2. CASE tpl.rule = Null /\ tpl.everyDays # Null
  <2>1. BuildRrule(tpl) = [freq |-> "DAILY", interval |-> tpl.everyDays]
        BY <1>2 DEF BuildRrule
  <2> QED BY <1>2, <2>1 DEF TemplateKnown, Maybe
<1>3. CASE tpl.rule = Null /\ tpl.everyDays = Null
  <2> DEFINE n == IF tpl.everyMonths = Null THEN 3 ELSE tpl.everyMonths
  <2>1. BuildRrule(tpl) = [freq |-> "MONTHLY", interval |-> n]
        BY <1>3 DEF BuildRrule
  <2>2. n \in Nat \ {0}
        BY DEF TemplateKnown, Maybe
  <2> QED BY <2>1, <2>2
<1> QED BY <1>1, <1>2, <1>3

LEMMA MonthOfYear ==
    ASSUME NEW m \in Nat
    PROVE  /\ (m \div 12) * 12 \in Nat /\ (m \div 12) * 12 <= m /\ m < (m \div 12) * 12 + 12
           /\ DaysIn((m \div 12) * 12 + 11) = 31
<1> DEFINE q == m \div 12
<1>1. q \in Nat /\ q * 12 <= m /\ m < q * 12 + 12
      OBVIOUS
<1> HIDE DEF q
<1>2. (q * 12 + 11) % 12 = 11
      BY <1>1
<1>3. DaysIn(q * 12 + 11) = 31
      BY <1>2 DEF DaysIn
<1>4. q * 12 \in Nat
      BY <1>1
<1>5. q * 12 \in Nat /\ q * 12 <= m /\ m < q * 12 + 12 /\ DaysIn(q * 12 + 11) = 31
      BY <1>1, <1>3, <1>4
<1> QED BY <1>5 DEF q

LEMMA AnchorWithinYear ==
    ASSUME NEW tpl, TemplateKnown(tpl), NEW from, RealDate(from)
    PROVE  /\ RealDate(ComputeAnchor(tpl, from))
           /\ DayNumber(from) \in Int /\ DayNumber(ComputeAnchor(tpl, from)) \in Int
           /\ DayNumber(from) <= DayNumber(ComputeAnchor(tpl, from))
           /\ DayNumber(ComputeAnchor(tpl, from)) <= DayNumber(from) + 365
<1>1. /\ from.m \in Nat /\ DaysIn(from.m) \in Int /\ from.d \in Int /\ 1 <= from.d
      /\ from.d <= DaysIn(from.m)
      BY MonthLengths DEF RealDate
<1>2. /\ DaysTo(from.m) \in Int /\ DaysTo(from.m + 1) = DaysTo(from.m) + DaysIn(from.m)
      /\ DayNumber(from) = DaysTo(from.m) + from.d
      BY <1>1, MonthAfter DEF DayNumber
<1>3. CASE tpl.anchorMonth = Null
      BY <1>1, <1>2, <1>3 DEF ComputeAnchor
<1>4. CASE tpl.anchorMonth # Null
  <2> DEFINE day == IF tpl.anchorDay = Null THEN 1 ELSE tpl.anchorDay
             jan == (from.m \div 12) * 12
             mon == jan + tpl.anchorMonth - 1
             nextMon == jan + 12 + tpl.anchorMonth - 1
             thisYear == DateUTC(mon, day)
             nextYear == DateUTC(nextMon, day)
  <2>1. ComputeAnchor(tpl, from) = IF DayNumber(thisYear) < DayNumber(from) THEN nextYear ELSE thisYear
        BY <1>4 DEF ComputeAnchor
  <2>2. day \in 1 .. 31 /\ tpl.anchorMonth \in 1 .. 12
        BY <1>4 DEF TemplateKnown, Maybe
  <2>3. jan \in Nat /\ jan <= from.m /\ from.m < jan + 12 /\ DaysIn(jan + 11) = 31
        BY <1>1, MonthOfYear
  <2> HIDE DEF jan, day
  <2>4. mon \in Nat /\ nextMon \in Nat /\ nextMon = mon + 12 /\ jan <= mon /\ mon <= jan + 11
        BY <2>2, <2>3
  <2> HIDE DEF mon, nextMon
  <2>5. /\ RealDate(thisYear) /\ RealDate(nextYear)
        /\ DayNumber(thisYear) = DaysTo(mon) + day /\ DayNumber(nextYear) = DaysTo(nextMon) + day
        BY <2>2, <2>4, DateMoved DEF RealDate
  <2> HIDE DEF thisYear, nextYear
  <2>6. DaysTo(mon) \in Int /\ DaysTo(nextMon) = DaysTo(mon) + 365
        BY <2>4, YearOfDays, MonthAfter
  <2>7. DaysTo(jan) \in Int /\ DaysTo(jan) <= DaysTo(from.m) /\ DaysTo(jan) <= DaysTo(mon)
    <3>1. jan = from.m \/ jan < from.m
          BY <1>1, <2>3
    <3>2. jan = mon \/ jan < mon
          BY <2>3, <2>4
    <3>3. DaysTo(jan) <= DaysTo(from.m)
          BY <1>1, <1>2, <2>3, <3>1, MonthsInOrder
    <3>4. DaysTo(jan) <= DaysTo(mon)
          BY <2>3, <2>4, <2>6, <3>2, MonthsInOrder
    <3> QED BY <2>3, <3>3, <3>4, MonthAfter
  <2>8. DaysTo(jan + 12) = DaysTo(jan) + 365
        BY <2>3, YearOfDays
  <2>9. DaysTo(mon) + 31 <= DaysTo(jan) + 365
    <3>1. jan + 11 \in Nat /\ (jan + 11) + 1 = jan + 12
          BY <2>3
    <3>2. DaysTo(jan + 11) \in Int /\ DaysTo(jan + 12) = DaysTo(jan + 11) + 31
          BY <2>3, <3>1, MonthAfter
    <3>3. mon = jan + 11 \/ mon < jan + 11
          BY <2>3, <2>4
    <3>4. DaysTo(mon) <= DaysTo(jan + 11)
          BY <2>4, <2>6, <3>1, <3>3, MonthsInOrder
    <3> QED BY <2>6, <2>7, <2>8, <3>2, <3>4
  <2>10. DayNumber(from) <= DaysTo(jan) + 365
    <3>1. jan + 12 \in Nat /\ from.m + 1 \in Nat
          BY <1>1, <2>3
    <3>2. from.m + 1 = jan + 12 \/ from.m + 1 < jan + 12
          BY <1>1, <2>3
    <3>3. DaysTo(from.m + 1) <= DaysTo(jan + 12)
          BY <1>1, <1>2, <2>7, <2>8, <3>1, <3>2, MonthsInOrder
    <3> QED BY <1>1, <1>2, <2>7, <2>8, <3>3
  <2>11. CASE DayNumber(thisYear) < DayNumber(from)
    <3>1. ComputeAnchor(tpl, from) = nextYear
          BY <2>1, <2>11
    <3>2. /\ DayNumber(from) \in Int /\ DayNumber(nextYear) \in Int
          /\ DayNumber(from) <= DayNumber(nextYear) /\ DayNumber(nextYear) <= DayNumber(from) + 365
          BY <1>1, <1>2, <2>2, <2>5, <2>6, <2>7, <2>10, <2>11
    <3> QED BY <2>5, <3>1, <3>2
  <2>12. CASE ~(DayNumber(thisYear) < DayNumber(from))
    <3>1. ComputeAnchor(tpl, from) = thisYear
          BY <2>1, <2>12
    <3>2. /\ DayNumber(from) \in Int /\ DayNumber(thisYear) \in Int
          /\ DayNumber(from) <= DayNumber(thisYear) /\ DayNumber(thisYear) <= DayNumber(from) + 365
          BY <1>1, <1>2, <2>2, <2>5, <2>6, <2>7, <2>9, <2>12
    <3> QED BY <2>5, <3>1, <3>2
  <2> QED BY <2>11, <2>12
<1> QED BY <1>3, <1>4

-----------------------------------------------------------------------------
(* Recurrence: the first of a set of days.                                      *)

Earlier(X) == {p \in X \X X : p[1] < p[2]}

Firsts(d, X, limit) ==
    /\ Min({limit, Cardinality(X)}) \in Nat
    /\ DOMAIN d = 1 .. Min({limit, Cardinality(X)})
    /\ \A k \in DOMAIN d : d[k] \in X /\ d[k] \in Int /\ Cardinality(Below(d[k], Earlier(X), X)) = k - 1
    /\ \A i, j \in DOMAIN d : i < j => d[i] < d[j]

LEMMA FirstsOfSorted ==
    ASSUME NEW X \in SUBSET Int, IsFiniteSet(X), NEW limit \in Nat
    PROVE  Firsts(Capped(Sorted(X, LAMBDA x, y : x < y), limit), X, limit)
<1> DEFINE R == Earlier(X)
           s == SortedBy(X, R)
           n == Cardinality(X)
           c == Min({limit, n})
           d == SubSeq(s, 1, c)
<1>1. n \in Nat
      BY FS_CardinalityType
<1>2. Orders(R, X)
  <2>1. \A x, y \in X : <<x, y>> \in R <=> x < y
        BY DEF Earlier
  <2> HIDE DEF R
  <2> QED BY <2>1 DEF Orders
<1>3. InOrder(s, R, X)
  <2> HIDE DEF R
  <2> QED BY <1>2, SortedByFacts
<1>4. \A k \in 1 .. n : Cardinality(Below(s[k], R, X)) = k - 1
  <2> HIDE DEF R
  <2> QED BY <1>2, SortedByRanks
<1>5. s \in Seq(X) /\ Len(s) = n /\ \A i, j \in 1 .. n : i < j => s[i] < s[j]
  <2>1. \A i, j \in 1 .. n : i < j => <<s[i], s[j]>> \in R
        BY <1>3 DEF InOrder
  <2> HIDE DEF s
  <2>2. \A i, j \in 1 .. n : i < j => s[i] < s[j]
        BY <2>1 DEF Earlier
  <2> QED BY <1>3, <2>2 DEF InOrder
<1>6. c \in Nat /\ c <= n
  <2>1. c = IF limit <= n THEN limit ELSE n
    <3> HIDE DEF n
    <3> QED BY <1>1, MinOfTwo
  <2> HIDE DEF c, n
  <2> QED BY <1>1, <2>1
<1>7. Capped(Sorted(X, LAMBDA x, y : x < y), limit) = d
  <2>1. Sorted(X, LAMBDA x, y : x < y) = s
        BY DEF Sorted, Earlier
  <2> HIDE DEF s
  <2> QED BY <1>5, <2>1 DEF Capped
<1> HIDE DEF s, n, c
<1>8. DOMAIN d = 1 .. c /\ \A k \in 1 .. c : d[k] = s[k] /\ s[k] \in X /\ k \in 1 .. n
      BY <1>1, <1>5, <1>6
<1> HIDE DEF d
<1>9. \A k \in DOMAIN d : d[k] \in X /\ d[k] \in Int /\ Cardinality(Below(d[k], R, X)) = k - 1
      BY <1>4, <1>8
<1>10. \A i, j \in DOMAIN d : i < j => d[i] < d[j]
       BY <1>5, <1>8
<1> QED BY <1>6, <1>7, <1>8, <1>9, <1>10 DEF Firsts, c, n

\* A rising sequence of n days has n members.
Rising(f, n) ==
    /\ \A i \in 0 .. n - 1 : f[i] \in Int
    /\ \A i, j \in 0 .. n - 1 : i < j => f[i] < f[j]

ValuesOf(f, n) == {f[i] : i \in 0 .. n - 1}

LEMMA RisingCounts ==
    ASSUME NEW n \in Nat, NEW f, Rising(f, n)
    PROVE  IsFiniteSet(ValuesOf(f, n)) /\ Cardinality(ValuesOf(f, n)) = n
<1> DEFINE I == 0 .. n - 1
           g == [i \in I |-> f[i]]
           X == ValuesOf(f, n)
<1>1. IsFiniteSet(I) /\ Cardinality(I) = n
      BY FS_Interval
<1>2. \A i, j \in I : f[i] = f[j] => i = j
      BY DEF Rising
<1>3. X = {f[i] : i \in I}
      BY DEF ValuesOf
<1> HIDE DEF I, X
<1>4. g \in Bijection(I, X)
  <2>1. \A i \in I : g[i] = f[i] /\ f[i] \in X
        BY <1>3
  <2>2. g \in [I -> X]
        BY <2>1
  <2> HIDE DEF g
  <2>3. \A x \in X : \E i \in I : g[i] = x
        BY <1>3, <2>1
  <2>4. \A i, j \in I : g[i] = g[j] => i = j
        BY <1>2, <2>1
  <2> QED BY <2>2, <2>3, <2>4 DEF Bijection, Injection, Surjection, IsInjective
<1>5. ExistsBijection(I, X)
      BY <1>4 DEF ExistsBijection
<1>6. IsFiniteSet(X) /\ Cardinality(X) = n
      BY <1>1, <1>5, FS_Bijection
<1> QED BY <1>6 DEF X

LEMMA FirstsOfRising ==
    ASSUME NEW n \in Nat, NEW f, Rising(f, n), NEW limit \in Nat,
           NEW d, Firsts(d, ValuesOf(f, n), limit)
    PROVE  /\ DOMAIN d = 1 .. Min({limit, n}) /\ Min({limit, n}) \in Nat /\ Min({limit, n}) <= n
           /\ \A k \in DOMAIN d : d[k] = f[k - 1]
<1> DEFINE X == ValuesOf(f, n)
<1>1. Cardinality(X) = n
      BY RisingCounts
<1>2. Min({limit, n}) = IF limit <= n THEN limit ELSE n
      BY MinOfTwo
<1>3. DOMAIN d = 1 .. Min({limit, n}) /\ Min({limit, n}) \in Nat /\ Min({limit, n}) <= n
      BY <1>1, <1>2 DEF Firsts
<1>4. ASSUME NEW k \in DOMAIN d PROVE d[k] = f[k - 1]
  <2>1. d[k] \in X /\ Cardinality(Below(d[k], Earlier(X), X)) = k - 1
        BY <1>4 DEF Firsts
  <2>2. PICK i \in 0 .. n - 1 : d[k] = f[i]
        BY <2>1 DEF ValuesOf
  <2>3. Below(f[i], Earlier(X), X) = ValuesOf(f, i)
    <3>1. \A y \in X : <<y, f[i]>> \in Earlier(X) <=> y < f[i]
          BY <2>1, <2>2 DEF Earlier
    <3>2. \A y \in X : y < f[i] <=> \E j \in 0 .. i - 1 : y = f[j]
      <4>1. \A j \in 0 .. n - 1 : f[j] < f[i] <=> j \in 0 .. i - 1
            BY DEF Rising
      <4>2. \A y \in X : \E j \in 0 .. n - 1 : y = f[j]
            BY DEF ValuesOf
      <4>3. \A j \in 0 .. i - 1 : j \in 0 .. n - 1
            OBVIOUS
      <4> HIDE DEF X
      <4> QED BY <4>1, <4>2, <4>3
    <3>3. \A j \in 0 .. i - 1 : f[j] \in X
          BY DEF ValuesOf
    <3> HIDE DEF X
    <3> QED BY <3>1, <3>2, <3>3 DEF Below, ValuesOf
  <2>4. Rising(f, i) /\ i \in Nat
        BY DEF Rising
  <2>5. Cardinality(ValuesOf(f, i)) = i
        BY <2>4, RisingCounts
  <2>6. i = k - 1
        BY <2>1, <2>2, <2>3, <2>5
  <2> QED BY <2>2, <2>6
<1> QED BY <1>3, <1>4

\* A set of first numbers is known by how many it has.
LEMMA FirstNumbers ==
    ASSUME NEW h \in Nat, NEW E \in SUBSET (0 .. h), \A j \in E : \A i \in 0 .. j : i \in E
    PROVE  Cardinality(E) \in Nat /\ E = 0 .. Cardinality(E) - 1
<1>1. IsFiniteSet(E) /\ E \in SUBSET Int
  <2>1. IsFiniteSet(0 .. h)
        BY FS_Interval
  <2>2. IsFiniteSet(E)
        BY <2>1, FS_Subset
  <2> QED BY <2>2
<1>2. CASE E = {}
      BY <1>2, FS_EmptySet
<1>3. CASE E # {}
  <2>1. PICK j \in E : \A y \in E : j >= y
        BY <1>1, <1>3, ExtremesExist
  <2>0. j \in 0 .. h /\ \A y \in E : y \in 0 .. h
        OBVIOUS
  <2>4. \A y \in E : y \in 0 .. j
        BY <2>0, <2>1
  <2>5. \A y \in 0 .. j : y \in E
        BY <2>1
  <2>2. j \in Nat /\ E = 0 .. j
    <3> DEFINE J == 0 .. j
    <3>1. E \subseteq J /\ J \subseteq E
          BY <2>4, <2>5
    <3> HIDE DEF J
    <3>2. E = J
          BY <3>1
    <3> QED BY <2>0, <3>2 DEF J
  <2>3. Cardinality(0 .. j) = j + 1
        BY <2>2, FS_Interval
  <2> QED BY <2>2, <2>3
<1> QED BY <1>2, <1>3

-----------------------------------------------------------------------------
(* Recurrence: when a template is due.                                          *)

DueDays(tpl, from, to) ==
    {n \in Occurrences(BuildRrule(tpl), ComputeAnchor(tpl, from), 24) :
        DayNumber(from) <= n /\ n <= DayNumber(to)}

DueOf(tpl, from, to, limit) == Capped(Sorted(DueDays(tpl, from, to), LAMBDA x, y : x < y), limit)

\* The date of the n-th occurrence of a monthly rule.
MonthsOn(tpl, from) ==
    [n \in 0 .. 24 |-> DayNumber([m |-> ComputeAnchor(tpl, from).m + n * BuildRrule(tpl).interval,
                                  d |-> ComputeAnchor(tpl, from).d])]

LEMMA DaysAreFinite ==
    ASSUME NEW tpl, TemplateKnown(tpl), NEW from, RealDate(from), NEW to
    PROVE  DueDays(tpl, from, to) \in SUBSET Int /\ IsFiniteSet(DueDays(tpl, from, to))
<1> DEFINE rule == BuildRrule(tpl)
           anchor == ComputeAnchor(tpl, from)
           I == 0 .. 24
           daily == [k \in I |-> DayNumber(anchor) + k * rule.interval]
           monthly == MonthsOn(tpl, from)
           all == Occurrences(rule, anchor, 24)
<1>1. rule.freq \in {"DAILY", "MONTHLY"} /\ rule.interval \in Nat
      BY RuleKnown
<1>2. anchor.m \in Nat /\ anchor.d \in Int /\ DayNumber(anchor) \in Int
  <2>1. RealDate(anchor) /\ DayNumber(anchor) \in Int
        BY AnchorWithinYear
  <2>2. anchor.m \in Nat /\ DaysIn(anchor.m) \in Int
        BY <2>1, MonthLengths DEF RealDate
  <2> HIDE DEF anchor
  <2> QED BY <2>1, <2>2 DEF RealDate
<1>3. IsFiniteSet({daily[k] : k \in I}) /\ IsFiniteSet({monthly[k] : k \in I})
  <2>0. 0 \in Int /\ 24 \in Int
        OBVIOUS
  <2>1. IsFiniteSet(I)
        BY ONLY <2>0, FS_Interval
  <2> HIDE DEF I, daily, monthly
  <2> QED BY <2>1, ImageIsFinite
<1>4. \A k \in I : daily[k] \in Int /\ monthly[k] \in Int
  <2> SUFFICES ASSUME NEW k \in I PROVE daily[k] \in Int /\ monthly[k] \in Int
      OBVIOUS
  <2> HIDE DEF rule, anchor
  <2>1. k * rule.interval \in Nat /\ anchor.m + k * rule.interval \in Nat
        BY <1>1, <1>2
  <2>2. daily[k] \in Int
        BY <1>2, <2>1
  <2>3. DaysTo(anchor.m + k * rule.interval) \in Int
        BY <2>1, MonthAfter
  <2>4. monthly[k] = DaysTo(anchor.m + k * rule.interval) + anchor.d
        BY DEF MonthsOn, DayNumber, rule, anchor
  <2> QED BY <1>2, <2>2, <2>3, <2>4
<1>5. all \subseteq {daily[k] : k \in I} \/ all \subseteq {monthly[k] : k \in I}
      BY <1>1 DEF Occurrences, MonthsOn
<1>6. DueDays(tpl, from, to) \subseteq all
      BY DEF DueDays
<1> HIDE DEF all, I, daily, monthly
<1>7. CASE all \subseteq {daily[k] : k \in I}
  <2>1. DueDays(tpl, from, to) \subseteq {daily[k] : k \in I}
        BY <1>6, <1>7
  <2>2. IsFiniteSet(DueDays(tpl, from, to))
        BY <1>3, <2>1, FS_Subset
  <2> QED BY <1>4, <2>1, <2>2
<1>8. CASE all \subseteq {monthly[k] : k \in I}
  <2>1. DueDays(tpl, from, to) \subseteq {monthly[k] : k \in I}
        BY <1>6, <1>8
  <2>2. IsFiniteSet(DueDays(tpl, from, to))
        BY <1>3, <2>1, FS_Subset
  <2> QED BY <1>4, <2>1, <2>2
<1> QED BY <1>5, <1>7, <1>8

LEMMA MonthsRise ==
    ASSUME NEW tpl, TemplateKnown(tpl), NEW from, RealDate(from), ComputeAnchor(tpl, from).d <= 28
    PROVE  /\ \A i \in 0 .. 24 : MonthsOn(tpl, from)[i] \in Int /\ DayNumber(from) <= MonthsOn(tpl, from)[i]
           /\ \A i, j \in 0 .. 24 : i < j => MonthsOn(tpl, from)[i] < MonthsOn(tpl, from)[j]
           /\ \A i \in 0 .. 24 : ComputeAnchor(tpl, from).d
                                   <= DaysIn(ComputeAnchor(tpl, from).m + i * BuildRrule(tpl).interval)
<1> DEFINE iv == BuildRrule(tpl).interval
           anchor == ComputeAnchor(tpl, from)
           occ == MonthsOn(tpl, from)
           at(i) == anchor.m + i * iv
<1>1. iv \in Nat \ {0}
      BY RuleKnown
<1>2. RealDate(anchor) /\ DayNumber(anchor) \in Int /\ DayNumber(from) \in Int /\ DayNumber(from) <= DayNumber(anchor)
      BY AnchorWithinYear
<1>3. anchor.m \in Nat /\ anchor.d \in Int /\ anchor.d <= 28
  <2>1. anchor.m \in Nat /\ DaysIn(anchor.m) \in Int
        BY <1>2, MonthLengths DEF RealDate
  <2>2. anchor.d \in 1 .. DaysIn(anchor.m) /\ anchor.d <= 28
        BY <1>2 DEF RealDate
  <2> HIDE DEF anchor
  <2> QED BY <2>1, <2>2
<1>4. \A i \in 0 .. 24 : occ[i] = DaysTo(at(i)) + anchor.d
      BY DEF MonthsOn, DayNumber
<1>5. DayNumber(anchor) = DaysTo(anchor.m) + anchor.d
      BY DEF DayNumber
<1> HIDE DEF iv, anchor, occ
<1>6. \A i \in 0 .. 24 : at(i) \in Nat /\ (at(i) = anchor.m \/ anchor.m < at(i))
  <2> SUFFICES ASSUME NEW i \in 0 .. 24 PROVE at(i) \in Nat /\ (at(i) = anchor.m \/ anchor.m < at(i))
      OBVIOUS
  <2>1. i * iv \in Nat
        BY <1>1
  <2> QED BY <1>3, <2>1
<1>7. \A i, j \in 0 .. 24 : i < j => at(i) < at(j)
  <2> SUFFICES ASSUME NEW i \in 0 .. 24, NEW j \in 0 .. 24, i < j PROVE at(i) < at(j)
      OBVIOUS
  <2> DEFINE k == j - i
  <2>1. k \in Nat \ {0} /\ j = i + k
        OBVIOUS
  <2> HIDE DEF k
  <2>2. k * iv \in Nat \ {0} /\ i * iv \in Nat /\ j * iv = i * iv + k * iv
        BY <1>1, <2>1
  <2> QED BY <1>3, <2>2
<1> HIDE DEF at
<1>8. \A i \in 0 .. 24 : DaysTo(at(i)) \in Int /\ DaysTo(anchor.m) <= DaysTo(at(i)) /\ anchor.d <= DaysIn(at(i))
  <2> SUFFICES ASSUME NEW i \in 0 .. 24
               PROVE  DaysTo(at(i)) \in Int /\ DaysTo(anchor.m) <= DaysTo(at(i)) /\ anchor.d <= DaysIn(at(i))
      OBVIOUS
  <2>1. at(i) \in Nat /\ (at(i) = anchor.m \/ anchor.m < at(i))
        BY <1>6
  <2>2. DaysTo(at(i)) \in Int /\ DaysTo(anchor.m) \in Int
        BY <1>3, <2>1, MonthAfter
  <2>3. DaysTo(anchor.m) <= DaysTo(at(i))
        BY <1>3, <2>1, <2>2, MonthsInOrder
  <2>4. DaysIn(at(i)) \in Int /\ 28 <= DaysIn(at(i))
        BY <2>1, MonthLengths
  <2> QED BY <1>3, <2>2, <2>3, <2>4
<1>9. \A i, j \in 0 .. 24 : i < j => DaysTo(at(i)) < DaysTo(at(j))
  <2> SUFFICES ASSUME NEW i \in 0 .. 24, NEW j \in 0 .. 24, i < j PROVE DaysTo(at(i)) < DaysTo(at(j))
      OBVIOUS
  <2>1. at(i) \in Nat /\ at(j) \in Nat /\ at(i) < at(j)
        BY <1>6, <1>7
  <2>2. DaysTo(at(i)) \in Int /\ DaysTo(at(j)) \in Int /\ DaysTo(at(i)) + 28 <= DaysTo(at(j))
        BY <2>1, MonthsInOrder
  <2> QED BY <2>2
<1>10. \A i \in 0 .. 24 : occ[i] \in Int /\ DayNumber(from) <= occ[i]
  <2> SUFFICES ASSUME NEW i \in 0 .. 24 PROVE occ[i] \in Int /\ DayNumber(from) <= occ[i]
      OBVIOUS
  <2>1. DaysTo(at(i)) \in Int /\ DaysTo(anchor.m) \in Int /\ DaysTo(anchor.m) <= DaysTo(at(i))
        BY <1>3, <1>8, MonthAfter
  <2>2. occ[i] = DaysTo(at(i)) + anchor.d
        BY <1>4
  <2> QED BY <1>2, <1>3, <1>5, <2>1, <2>2
<1>11. \A i, j \in 0 .. 24 : i < j => occ[i] < occ[j]
  <2> SUFFICES ASSUME NEW i \in 0 .. 24, NEW j \in 0 .. 24, i < j PROVE occ[i] < occ[j]
      OBVIOUS
  <2>1. DaysTo(at(i)) \in Int /\ DaysTo(at(j)) \in Int /\ DaysTo(at(i)) < DaysTo(at(j))
        BY <1>8, <1>9
  <2>2. occ[i] = DaysTo(at(i)) + anchor.d /\ occ[j] = DaysTo(at(j)) + anchor.d
        BY <1>4
  <2> QED BY <1>3, <2>1, <2>2
<1>12. \A i \in 0 .. 24 : anchor.d <= DaysIn(anchor.m + i * iv)
       BY <1>8 DEF at
<1> QED BY <1>10, <1>11, <1>12 DEF iv, anchor, occ

\* The occurrences no later than a day are the first ones.
LEMMA MonthsDue ==
    ASSUME NEW tpl, TemplateKnown(tpl), NEW from, RealDate(from), NEW to, DayNumber(to) \in Int,
           ComputeAnchor(tpl, from).d <= 28, BuildRrule(tpl).freq = "MONTHLY",
           NEW c, c = Cardinality({n \in 0 .. 24 : MonthsOn(tpl, from)[n] <= DayNumber(to)})
    PROVE  /\ c \in Nat /\ c <= 25 /\ Rising(MonthsOn(tpl, from), c)
           /\ DueDays(tpl, from, to) = ValuesOf(MonthsOn(tpl, from), c)
<1> DEFINE iv == BuildRrule(tpl).interval
           anchor == ComputeAnchor(tpl, from)
           occ == MonthsOn(tpl, from)
           h == 24
           E == {n \in 0 .. h : occ[n] <= DayNumber(to)}
<1>1. /\ \A i \in 0 .. h : occ[i] \in Int /\ DayNumber(from) <= occ[i]
      /\ \A i, j \in 0 .. h : i < j => occ[i] < occ[j]
      /\ \A i \in 0 .. h : anchor.d <= DaysIn(anchor.m + i * iv)
      BY MonthsRise
<1>2. DueDays(tpl, from, to) = {occ[n] : n \in E}
  <2>1. \A n \in 0 .. h : occ[n] = DayNumber([m |-> anchor.m + n * iv, d |-> anchor.d])
        BY DEF MonthsOn
  <2>2. Occurrences(BuildRrule(tpl), anchor, h)
          = {DayNumber([m |-> anchor.m + k * iv, d |-> anchor.d]) :
                k \in {j \in 0 .. h : anchor.d <= DaysIn(anchor.m + j * iv)}}
        BY DEF Occurrences
  <2>3. DueDays(tpl, from, to) = {n \in Occurrences(BuildRrule(tpl), anchor, h) :
                                     DayNumber(from) <= n /\ n <= DayNumber(to)}
        BY DEF DueDays
  <2> HIDE DEF iv, anchor, occ, h
  <2>4. Occurrences(BuildRrule(tpl), anchor, h) = {occ[n] : n \in 0 .. h}
        BY <1>1, <2>1, <2>2
  <2>5. \A n \in 0 .. h : DayNumber(from) <= occ[n]
        BY <1>1
  <2> QED BY <2>3, <2>4, <2>5
<1>3. c = Cardinality(E)
      OBVIOUS
<1>4. h \in Nat /\ h = 24
      OBVIOUS
<1> HIDE DEF iv, anchor, occ, h
<1>5. \A j \in E : \A i \in 0 .. j : i \in E
  <2> SUFFICES ASSUME NEW j \in E, NEW i \in 0 .. j PROVE i \in E
      OBVIOUS
  <2>1. j \in 0 .. h /\ i \in 0 .. h /\ (i = j \/ i < j)
        BY <1>4
  <2>2. occ[i] \in Int /\ occ[j] \in Int /\ occ[j] <= DayNumber(to) /\ (i = j \/ occ[i] < occ[j])
        BY <1>1, <2>1
  <2> QED BY <2>1, <2>2
<1>6. E \in SUBSET (0 .. h)
      OBVIOUS
<1> HIDE DEF E
<1>7. c \in Nat /\ E = 0 .. c - 1
  <2>1. h \in Nat
        BY <1>4
  <2>2. Cardinality(E) \in Nat /\ E = 0 .. Cardinality(E) - 1
        BY <1>5, <1>6, <2>1, FirstNumbers
  <2> QED BY <1>3, <2>2
<1>8. \A i \in 0 .. c - 1 : i \in 0 .. h
      BY <1>6, <1>7
<1>9. c <= 25
  <2>1. c = 0 \/ c - 1 \in 0 .. c - 1
        BY <1>7
  <2> QED BY <1>4, <1>7, <1>8, <2>1
<1>10. Rising(occ, c)
       BY <1>1, <1>8 DEF Rising
<1>11. DueDays(tpl, from, to) = ValuesOf(occ, c)
       BY <1>2, <1>7 DEF ValuesOf
<1> QED BY <1>7, <1>9, <1>10, <1>11 DEF occ

-----------------------------------------------------------------------------
(* Recurrence: the chores of several templates in one list.                     *)

Listed(due, n) == UNION {{[template |-> t, due |-> due[t][k]] : k \in DOMAIN due[t]} : t \in 1 .. n}

ByDue(C) ==
    {p \in C \X C : p[1].due < p[2].due \/ (p[1].due = p[2].due /\ p[1].template < p[2].template)}

DueLists(due, n, size) ==
    \A t \in 1 .. n :
       /\ size[t] \in Nat /\ DOMAIN due[t] = 1 .. size[t]
       /\ \A k \in 1 .. size[t] : due[t][k] \in Int
       /\ \A j, k \in 1 .. size[t] : j < k => due[t][j] < due[t][k]

LEMMA ListedAre ==
    ASSUME NEW n \in Nat, NEW due, NEW size, DueLists(due, n, size)
    PROVE  /\ IsFiniteSet(Listed(due, n)) /\ Listed(due, n) \subseteq [template : Int, due : Int]
           /\ \A t \in 1 .. n : \A x : [template |-> t, due |-> x] \in Listed(due, n)
                                          <=> \E k \in 1 .. size[t] : x = due[t][k]
<1> DEFINE part == [t \in 1 .. n |-> {[template |-> t, due |-> due[t][k]] : k \in DOMAIN due[t]}]
           C == Listed(due, n)
<1>1. C = UNION {part[t] : t \in 1 .. n}
      BY DEF Listed
<1>2. \A t \in 1 .. n : part[t] = {[template |-> t, due |-> due[t][k]] : k \in 1 .. size[t]}
      BY DEF DueLists
<1>3. \A t \in 1 .. n : IsFiniteSet(part[t])
  <2> SUFFICES ASSUME NEW t \in 1 .. n PROVE IsFiniteSet(part[t])
      OBVIOUS
  <2> DEFINE I == 1 .. size[t]
             f == [k \in I |-> [template |-> t, due |-> due[t][k]]]
  <2>1. IsFiniteSet(I)
        BY FS_Interval DEF DueLists
  <2>2. part[t] = {f[k] : k \in I}
        BY <1>2
  <2> HIDE DEF I, f, part
  <2>3. IsFiniteSet({f[k] : k \in I})
        BY <2>1, ImageIsFinite
  <2> QED BY <2>2, <2>3
<1> HIDE DEF part, C
<1>4. IsFiniteSet(C)
  <2> DEFINE parts == {part[t] : t \in 1 .. n}
  <2>1. IsFiniteSet(parts)
    <3> DEFINE I == 1 .. n
    <3>1. IsFiniteSet(I)
          BY FS_Interval
    <3> HIDE DEF I
    <3>2. IsFiniteSet({part[t] : t \in I})
          BY <3>1, ImageIsFinite
    <3> QED BY <3>2 DEF I
  <2>2. \A T \in parts : IsFiniteSet(T)
        BY <1>3
  <2> HIDE DEF parts
  <2>3. IsFiniteSet(UNION parts)
        BY <2>1, <2>2, FS_UNION
  <2> QED BY <1>1, <2>3 DEF parts
<1>5. C \subseteq [template : Int, due : Int]
  <2> SUFFICES ASSUME NEW t \in 1 .. n, NEW k \in 1 .. size[t]
               PROVE  [template |-> t, due |-> due[t][k]] \in [template : Int, due : Int]
      BY <1>1, <1>2
  <2> QED BY DEF DueLists
<1>6. ASSUME NEW t \in 1 .. n, NEW x
      PROVE  [template |-> t, due |-> x] \in C <=> \E k \in 1 .. size[t] : x = due[t][k]
  <2>1. ASSUME NEW k \in 1 .. size[t], x = due[t][k] PROVE [template |-> t, due |-> x] \in C
        BY <1>1, <1>2, <2>1
  <2>2. ASSUME [template |-> t, due |-> x] \in C PROVE \E k \in 1 .. size[t] : x = due[t][k]
    <3>1. PICK u \in 1 .. n : [template |-> t, due |-> x] \in part[u]
          BY <1>1, <2>2
    <3>2. PICK k \in 1 .. size[u] : [template |-> t, due |-> x] = [template |-> u, due |-> due[u][k]]
          BY <1>2, <3>1
    <3>3. t = u /\ x = due[u][k]
          BY <3>2
    <3> QED BY <3>3
  <2> QED BY <2>1, <2>2
<1> QED BY <1>4, <1>5, <1>6 DEF C

OwnPlaces(s, t) == {k \in DOMAIN s : s[k].template = t}

InDueOrder(s, due, n, size) ==
    /\ \A i, j \in DOMAIN s : i < j => s[i].due <= s[j].due
    /\ \A t \in 1 .. n : /\ Cardinality(OwnPlaces(s, t)) = size[t]
                         /\ {s[k].due : k \in OwnPlaces(s, t)} = {due[t][k] : k \in 1 .. size[t]}

LEMMA ListedInOrder ==
    ASSUME NEW n \in Nat, NEW due, NEW size, DueLists(due, n, size),
           NEW s, s = SortedBy(Listed(due, n), ByDue(Listed(due, n)))
    PROVE  InDueOrder(s, due, n, size)
<1> DEFINE C == Listed(due, n)
           R == ByDue(C)
           N == Cardinality(C)
<1>1. /\ IsFiniteSet(C) /\ C \subseteq [template : Int, due : Int]
      /\ \A t \in 1 .. n : \A x : [template |-> t, due |-> x] \in C <=> \E k \in 1 .. size[t] : x = due[t][k]
      BY ListedAre
<1> HIDE DEF C
<1>2. \A x, y \in C : <<x, y>> \in R <=> x.due < y.due \/ (x.due = y.due /\ x.template < y.template)
      BY DEF ByDue
<1>3. \A x \in C : x.due \in Int /\ x.template \in Int /\ x = [template |-> x.template, due |-> x.due]
      BY <1>1
<1> HIDE DEF R
<1>4. Orders(R, C)
  <2>1. \A x \in C : <<x, x>> \notin R
        BY <1>2, <1>3
  <2>2. \A x, y \in C : x # y => <<x, y>> \in R \/ <<y, x>> \in R
    <3> SUFFICES ASSUME NEW x \in C, NEW y \in C, x # y PROVE <<x, y>> \in R \/ <<y, x>> \in R
        OBVIOUS
    <3>1. x.due # y.due \/ x.template # y.template
          BY <1>3
    <3>2. x.due \in Int /\ y.due \in Int /\ x.template \in Int /\ y.template \in Int
          BY <1>3
    <3> QED BY <1>2, <3>1, <3>2
  <2>3. \A x, y, z \in C : <<x, y>> \in R /\ <<y, z>> \in R => <<x, z>> \in R
    <3> SUFFICES ASSUME NEW x \in C, NEW y \in C, NEW z \in C, <<x, y>> \in R, <<y, z>> \in R
                 PROVE  <<x, z>> \in R
        OBVIOUS
    <3>1. /\ x.due \in Int /\ y.due \in Int /\ z.due \in Int
          /\ x.template \in Int /\ y.template \in Int /\ z.template \in Int
          BY <1>3
    <3> QED BY <1>2, <3>1
  <2> QED BY <2>1, <2>2, <2>3 DEF Orders
<1>5. InOrder(s, R, C)
  <2>1. s = SortedBy(C, R)
        BY DEF C, R
  <2> QED BY <1>1, <1>4, <2>1, SortedByFacts
<1> HIDE DEF N
<1>6. /\ DOMAIN s = 1 .. N /\ N \in Nat /\ \A k \in 1 .. N : s[k] \in C
      /\ \A x \in C : \E k \in 1 .. N : s[k] = x
      /\ \A i, j \in 1 .. N : i < j => <<s[i], s[j]>> \in R
      /\ \A i, j \in 1 .. N : s[i] = s[j] => i = j
      BY <1>5 DEF InOrder, N
<1>7. \A i, j \in DOMAIN s : i < j => s[i].due <= s[j].due
  <2> SUFFICES ASSUME NEW i \in 1 .. N, NEW j \in 1 .. N, i < j PROVE s[i].due <= s[j].due
      BY <1>6
  <2>1. s[i] \in C /\ s[j] \in C /\ <<s[i], s[j]>> \in R
        BY <1>6
  <2>2. s[i].due \in Int /\ s[j].due \in Int
        BY <1>3, <2>1
  <2> QED BY <1>2, <2>1, <2>2
<1>8. ASSUME NEW t \in 1 .. n
      PROVE  /\ Cardinality(OwnPlaces(s, t)) = size[t]
             /\ {s[k].due : k \in OwnPlaces(s, t)} = {due[t][k] : k \in 1 .. size[t]}
  <2> DEFINE own == OwnPlaces(s, t)
             m == size[t]
             I == 1 .. m
             d == due[t]
             f == [k \in own |-> CHOOSE i \in I : s[k].due = d[i]]
  <2>1. m \in Nat /\ \A i \in I : d[i] \in Int
        BY DEF DueLists
  <2>2. \A i, j \in I : d[i] = d[j] => i = j
    <3> SUFFICES ASSUME NEW i \in I, NEW j \in I, d[i] = d[j] PROVE i = j
        OBVIOUS
    <3>1. i < j \/ i = j \/ j < i
          BY <2>1
    <3>2. \A x, y \in I : x < y => d[x] < d[y]
          BY DEF DueLists
    <3> HIDE DEF I, d, m
    <3> QED BY <2>1, <3>1, <3>2
  <2>3. \A x : [template |-> t, due |-> x] \in C <=> \E i \in I : x = d[i]
        BY <1>1
  <2>4. IsFiniteSet(I) /\ Cardinality(I) = m
    <3>0. m \in Nat
          BY <2>1
    <3> HIDE DEF m
    <3> QED BY <3>0, FS_Interval
  <2> HIDE DEF I, d, m
  <2>5. \A k \in own : s[k] \in C /\ s[k] = [template |-> t, due |-> s[k].due]
    <3> SUFFICES ASSUME NEW k \in own PROVE s[k] \in C /\ s[k] = [template |-> t, due |-> s[k].due]
        OBVIOUS
    <3>1. s[k] \in C /\ s[k].template = t
          BY <1>6 DEF OwnPlaces
    <3> QED BY <1>3, <3>1
  <2>6. \A k \in own : \E i \in I : s[k].due = d[i]
        BY <2>3, <2>5
  <2>7. \A i \in I : \E k \in own : s[k].due = d[i]
    <3> SUFFICES ASSUME NEW i \in I PROVE \E k \in own : s[k].due = d[i]
        OBVIOUS
    <3>1. [template |-> t, due |-> d[i]] \in C
          BY <2>3
    <3>2. PICK k \in 1 .. N : s[k] = [template |-> t, due |-> d[i]]
          BY <1>6, <3>1
    <3>3. s[k].template = t /\ s[k].due = d[i] /\ k \in DOMAIN s
          BY <1>6, <3>2
    <3> QED BY <3>3 DEF OwnPlaces
  <2>8. \A j, k \in own : s[j].due = s[k].due => j = k
    <3> SUFFICES ASSUME NEW j \in own, NEW k \in own, s[j].due = s[k].due PROVE j = k
        OBVIOUS
    <3>1. s[j] = s[k]
          BY <2>5
    <3>2. j \in 1 .. N /\ k \in 1 .. N
          BY <1>6 DEF OwnPlaces
    <3> QED BY <1>6, <3>1, <3>2
  <2>9. {s[k].due : k \in own} = {d[i] : i \in I}
    <3> HIDE DEF own
    <3> QED BY <2>6, <2>7
  <2>10. \A k \in own : f[k] \in I /\ s[k].due = d[f[k]]
    <3> HIDE DEF own
    <3> QED BY <2>6
  <2>11. f \in [own -> I]
    <3>1. f = [k \in own |-> f[k]]
          OBVIOUS
    <3> HIDE DEF f, own
    <3> QED BY <2>10, <3>1
  <2> HIDE DEF own, f
  <2>12. \A j, k \in own : f[j] = f[k] => j = k
         BY <2>8, <2>10
  <2>13. \A i \in I : \E k \in own : f[k] = i
    <3> SUFFICES ASSUME NEW i \in I PROVE \E k \in own : f[k] = i
        OBVIOUS
    <3>1. PICK k \in own : s[k].due = d[i]
          BY <2>7
    <3>2. f[k] \in I /\ d[f[k]] = d[i]
          BY <2>10, <3>1
    <3> QED BY <2>2, <3>2
  <2>14. f \in Bijection(own, I)
         BY <2>11, <2>12, <2>13 DEF Bijection, Injection, Surjection, IsInjective
  <2>15. IsFiniteSet(own)
         BY <2>4, <2>14, FS_Injection DEF Bijection
  <2>16. Cardinality(own) = m
    <3>1. ExistsBijection(own, I)
          BY <2>14 DEF ExistsBijection
    <3> QED BY <2>4, <2>15, <3>1, FS_Bijection
  <2> QED BY <2>9, <2>16 DEF own, m, I, d
<1> QED BY <1>7, <1>8 DEF InDueOrder

-----------------------------------------------------------------------------
(* Recurrence: the cadence is kept.                                             *)

ChoreInput(templates, from, to, limit) ==
    /\ RealDate(from) /\ DayNumber(to) \in Int /\ limit \in Nat
    /\ IsList(templates) /\ \A t \in ToSet(templates) : TemplateKnown(t)

\* How many chores a template gets.
DueCount(tpl, from, to, limit) == Min({limit, Cardinality(DueDays(tpl, from, to))})

LEMMA TemplateIsDue ==
    ASSUME NEW tpl, TemplateKnown(tpl), NEW from, RealDate(from), NEW to, DayNumber(to) \in Int,
           NEW limit \in Nat
    PROVE  Firsts(DueOf(tpl, from, to, limit), DueDays(tpl, from, to), limit)
<1> DEFINE X == DueDays(tpl, from, to)
<1>1. X \in SUBSET Int /\ IsFiniteSet(X)
      BY DaysAreFinite
<1>2. DueOf(tpl, from, to, limit) = Capped(Sorted(X, LAMBDA x, y : x < y), limit)
      BY DEF DueOf
<1> HIDE DEF X
<1>3. Firsts(Capped(Sorted(X, LAMBDA x, y : x < y), limit), X, limit)
      BY <1>1, FirstsOfSorted
<1>4. Firsts(DueOf(tpl, from, to, limit), X, limit)
      BY <1>2, <1>3
<1> QED BY <1>4 DEF X

LEMMA ChoresAnswer ==
    ASSUME NEW templates, NEW from, NEW to, NEW limit, ChoreInput(templates, from, to, limit)
    PROVE  CadenceKept(templates, from, to, limit, GenerateMaintenanceTasks(templates, from, to, limit, 24))
<1> DEFINE n == Len(templates)
           due == [t \in 1 .. n |-> DueOf(templates[t], from, to, limit)]
           size == [t \in 1 .. n |-> DueCount(templates[t], from, to, limit)]
           chores == GenerateMaintenanceTasks(templates, from, to, limit, 24)
           own(t) == OwnPlaces(chores, t)
<1>1. n \in Nat /\ DOMAIN templates = 1 .. n /\ \A t \in 1 .. n : TemplateKnown(templates[t])
  <2>1. n \in Nat /\ DOMAIN templates = 1 .. n
        BY ListIsFinite DEF ChoreInput
  <2>2. \A t \in DOMAIN templates : templates[t] \in ToSet(templates)
        BY DEF ToSet
  <2> QED BY <2>1, <2>2 DEF ChoreInput
<1>2. chores = SortedBy(Listed(due, n), ByDue(Listed(due, n)))
  <2>1. Listed(due, n) = UNION {{[template |-> t, due |-> due[t][k]] : k \in DOMAIN due[t]} : t \in DOMAIN templates}
        BY <1>1 DEF Listed
  <2>2. \A t \in DOMAIN templates :
           due[t] = Capped(Between(BuildRrule(templates[t]), ComputeAnchor(templates[t], from),
                                   DayNumber(from), DayNumber(to), 24), limit)
        BY <1>1 DEF DueOf, DueDays, Between
  <2> HIDE DEF due
  <2>3. Listed(due, n) =
           UNION {{[template |-> t, due |-> Capped(Between(BuildRrule(templates[t]),
                        ComputeAnchor(templates[t], from), DayNumber(from), DayNumber(to), 24), limit)[k]] :
                      k \in DOMAIN Capped(Between(BuildRrule(templates[t]),
                        ComputeAnchor(templates[t], from), DayNumber(from), DayNumber(to), 24), limit)} :
                  t \in DOMAIN templates}
        BY <2>1, <2>2
  <2> QED BY <2>3 DEF GenerateMaintenanceTasks, Sorted, ByDue
<1>3. \A t \in 1 .. n : /\ due[t] = DueOf(templates[t], from, to, limit)
                        /\ size[t] = DueCount(templates[t], from, to, limit)
      OBVIOUS
<1> HIDE DEF n, due, size, chores
<1>4. \A t \in 1 .. n : Firsts(due[t], DueDays(templates[t], from, to), limit)
      BY <1>1, <1>3, TemplateIsDue DEF ChoreInput
<1>5. DueLists(due, n, size)
      BY <1>3, <1>4 DEF DueLists, Firsts, DueCount
<1>6. /\ \A i, j \in DOMAIN chores : i < j => chores[i].due <= chores[j].due
      /\ \A t \in 1 .. n : /\ Cardinality(own(t)) = size[t]
                           /\ {chores[k].due : k \in own(t)} = {due[t][k] : k \in 1 .. size[t]}
  <2>1. InDueOrder(chores, due, n, size)
        BY <1>1, <1>2, <1>5, ListedInOrder
  <2> QED BY <2>1 DEF InDueOrder
<1> HIDE DEF own
<1>7. ASSUME NEW t \in 1 .. n, BuildRrule(templates[t]).freq = "MONTHLY",
             ComputeAnchor(templates[t], from).d <= 28,
             NEW c, c = Cardinality({i \in 0 .. 24 : MonthsOn(templates[t], from)[i] <= DayNumber(to)})
      PROVE  /\ Cardinality(own(t)) = Min({limit, c})
             /\ {chores[k].due : k \in own(t)} = {MonthsOn(templates[t], from)[i] : i \in 0 .. Min({limit, c}) - 1}
             /\ Min({limit, c}) \in Nat /\ Min({limit, c}) <= 25
  <2> DEFINE occ == MonthsOn(templates[t], from)
             m == Min({limit, c})
  <2>1. TemplateKnown(templates[t]) /\ RealDate(from) /\ DayNumber(to) \in Int /\ limit \in Nat
        BY <1>1 DEF ChoreInput
  <2>2. c \in Nat /\ c <= 25 /\ Rising(occ, c) /\ DueDays(templates[t], from, to) = ValuesOf(occ, c)
        BY <1>7, <2>1, MonthsDue
  <2> HIDE DEF occ
  <2>3. Firsts(due[t], ValuesOf(occ, c), limit)
        BY <1>4, <2>2
  <2>4. /\ DOMAIN due[t] = 1 .. m /\ m \in Nat /\ m <= c
        /\ \A k \in DOMAIN due[t] : due[t][k] = occ[k - 1]
        BY <2>1, <2>2, <2>3, FirstsOfRising
  <2>5. size[t] = m
    <3>1. Cardinality(ValuesOf(occ, c)) = c
          BY <2>2, RisingCounts
    <3> QED BY <1>3, <2>2, <3>1 DEF DueCount
  <2> HIDE DEF m
  <2>6. {due[t][k] : k \in 1 .. m} = {occ[i] : i \in 0 .. m - 1}
    <3>1. \A k \in 1 .. m : k - 1 \in 0 .. m - 1 /\ due[t][k] = occ[k - 1]
          BY <2>4
    <3>2. \A i \in 0 .. m - 1 : i + 1 \in 1 .. m /\ due[t][i + 1] = occ[i]
          BY <2>4
    <3> QED BY <3>1, <3>2
  <2>7. Cardinality(own(t)) = m /\ {chores[k].due : k \in own(t)} = {occ[i] : i \in 0 .. m - 1}
        BY <1>6, <2>5, <2>6
  <2>8. m \in Nat /\ m <= 25
        BY <2>2, <2>4
  <2> QED BY <2>7, <2>8 DEF occ, m
<1>8. ASSUME NEW t \in 1 .. n
      PROVE  LET rule == BuildRrule(templates[t])
                 anchor == ComputeAnchor(templates[t], from)
                 occurrence(i) == DayNumber([m |-> anchor.m + i * rule.interval, d |-> anchor.d])
                 count == Min({limit, Cardinality({i \in 0 .. 24 : occurrence(i) <= DayNumber(to)})})
             IN  /\ DayNumber(from) <= DayNumber(anchor) /\ DayNumber(anchor) <= DayNumber(from) + 365
                 /\ rule.freq = "MONTHLY" /\ anchor.d <= 28 =>
                       /\ Cardinality(own(t)) = count
                       /\ {chores[k].due : k \in own(t)} = {occurrence(i) : i \in 0 .. count - 1}
  <2> DEFINE rule == BuildRrule(templates[t])
             anchor == ComputeAnchor(templates[t], from)
             occurrence(i) == DayNumber([m |-> anchor.m + i * rule.interval, d |-> anchor.d])
             occ == MonthsOn(templates[t], from)
             c == Cardinality({i \in 0 .. 24 : occurrence(i) <= DayNumber(to)})
             count == Min({limit, c})
  <2>1. DayNumber(from) <= DayNumber(anchor) /\ DayNumber(anchor) <= DayNumber(from) + 365
        BY <1>1, AnchorWithinYear DEF ChoreInput
  <2>2. \A i \in 0 .. 24 : occ[i] = occurrence(i)
        BY DEF MonthsOn
  <2> HIDE DEF occ
  <2>3. c = Cardinality({i \in 0 .. 24 : occ[i] <= DayNumber(to)})
    <3> HIDE DEF occurrence
    <3>1. {i \in 0 .. 24 : occ[i] <= DayNumber(to)} = {i \in 0 .. 24 : occurrence(i) <= DayNumber(to)}
          BY <2>2
    <3> QED BY <3>1
  <2> HIDE DEF occurrence, c
  <2>4. ASSUME rule.freq = "MONTHLY", anchor.d <= 28
        PROVE  /\ Cardinality(own(t)) = count
               /\ {chores[k].due : k \in own(t)} = {occurrence(i) : i \in 0 .. count - 1}
    <3>1. /\ Cardinality(own(t)) = count
          /\ {chores[k].due : k \in own(t)} = {occ[i] : i \in 0 .. count - 1}
          /\ count \in Nat /\ count <= 25
          BY <1>7, <2>3, <2>4 DEF occ
    <3> HIDE DEF count
    <3>2. \A i \in 0 .. count - 1 : occ[i] = occurrence(i)
          BY <2>2, <3>1
    <3>3. {occ[i] : i \in 0 .. count - 1} = {occurrence(i) : i \in 0 .. count - 1}
          BY <3>2
    <3> QED BY <3>1, <3>3
  <2> QED BY <2>1, <2>4 DEF occurrence, c
<1> QED BY <1>1, <1>6, <1>8 DEF CadenceKept, own, OwnPlaces, chores

\* Every template that repeats by days or months (or by a DAILY or MONTHLY rule with
\* an interval; rules of other forms are not among the calls) gets the chores of its
\* rule, each on its day and none twice, from an anchor at most a year after the window
\* opens (generateMaintenanceTasks).
THEOREM CadenceSound == Spec => []CadenceIsKept
<1>1. Legal /\ Answers => CadenceIsKept
  <2> SUFFICES ASSUME Answers, Answered("chores")
               PROVE  CadenceKept(a.templates, a.from, a.to, a.limit, reply)
      BY DEF CadenceIsKept
  <2>1. a \in ChoreCalls /\ reply = GenerateMaintenanceTasks(a.templates, a.from, a.to, a.limit, 24)
        BY DEF Answers
  <2>2. ChoreInput(a.templates, a.from, a.to, a.limit)
    <3>1. RealDate(a.from) /\ IsList(a.templates) /\ a.limit \in Nat /\ a.to.m \in Nat /\ a.to.d \in Nat
          BY <2>1, ChoreCallsAreLegal DEF RealDate
    <3>2. DayNumber(a.to) \in Int
          BY <3>1, MonthAfter DEF DayNumber
    <3>3. \A t \in ToSet(a.templates) : TemplateKnown(t)
          BY <2>1, ChoreCallsAreLegal DEF TemplateKnown
    <3> QED BY <3>1, <3>2, <3>3 DEF ChoreInput
  <2> QED BY <2>1, <2>2, ChoresAnswer
<1> QED BY <1>1, AnswersFollow, PTL
=============================================================================
