------------------------------ MODULE MCCoreLibrary ------------------------------
(* Small inputs for the functions of the core library.  Identifiers are numbers, *)
(* every threshold of the code is met exactly, missed by one and passed by one.  *)
(* A minute has two instants, so an odd instant lies within one.                 *)
EXTENDS CoreLibrary

none == Null
Today == [y |-> 2026, m |-> 6, d |-> 15]
Born(y, m, d) == [y |-> y, m |-> m, d |-> d]

\* Sequences of distinct members, in the order of S and of length 1 to n.
Lists(s, n) == {t \in {SelectSeq(s, LAMBDA x : x \in u) : u \in SUBSET ToSet(s)} : Len(t) \in 1 .. n}
Upto(S, n) == BoundedSeq(S, n)

\* route: a head, a child 13 tomorrow, a child 13 today, somebody of unknown age
\* and somebody away, in both orders of their ids.
Person(id, role, birth, skills, state, drives, active) ==
    [id |-> id, role |-> role, birth |-> birth, skills |-> skills, state |-> state,
     drives |-> drives, active |-> active]
People ==
    <<Person(4, "DEPENDENT", Born(2013, 6, 16), {"cook"}, "AVAILABLE", FALSE, TRUE),
      Person(3, "DEPENDENT", Born(2013, 6, 15), {"cook"}, "AVAILABLE", FALSE, TRUE),
      Person(2, "HEAD", none, {"cook", "fix"}, "TRAVEL", TRUE, TRUE),
      Person(1, "HEAD", Born(1980, 1, 1), {}, "AVAILABLE", TRUE, TRUE),
      Person(5, "THIRD_PARTY", Born(1990, 1, 1), {"cook"}, "AVAILABLE", TRUE, FALSE)>>
Job(category, skills, minAge, maxAge, approval) ==
    [category |-> category, skills |-> skills, minAge |-> minAge, maxAge |-> maxAge, approval |-> approval]
Jobs == {Job("ERRAND", {}, none, none, FALSE), Job("ADMIN", {"cook"}, 13, none, FALSE),
         Job("ERRAND", {"cook"}, none, 12, TRUE), Job("SCHOOL", {}, 13, 45, FALSE)}
RuleOf(category, skills, minAge, maxAge, to, priority) ==
    [category |-> category, skills |-> skills, minAge |-> minAge, maxAge |-> maxAge, to |-> to,
     priority |-> priority]
Rules == {RuleOf(none, {}, none, none, 3, 5), RuleOf("ERRAND", {}, 13, none, none, 7),
          RuleOf(none, {"cook"}, none, 12, none, 7), RuleOf("ADMIN", {}, none, none, 1, 0),
          RuleOf("ERRAND", {}, none, none, 4, -1000)}
MCRouteCalls == [task : Jobs, members : Lists(People, 3), rules : Upto(Rules, 2), today : {Today}]

\* broadcast: two hours from minute 100 or from now, blocks that touch, overlap
\* and lie inside, two adults of equal score.
Adult(id, role, state, drives, commute) ==
    [id |-> id, role |-> role, state |-> state, drives |-> drives, commute |-> commute, active |-> TRUE]
Adults ==
    <<Adult(2, "HEAD", "AVAILABLE", TRUE, none), Adult(1, "HEAD", "TRAVEL", TRUE, 20),
      Adult(3, "THIRD_PARTY", "AVAILABLE", FALSE, 50), Adult(4, "DEPENDENT", "AVAILABLE", FALSE, none)>>
Busy(m, kind, from, to) == [member |-> m, kind |-> kind, from |-> from, to |-> to]
Blocks == {Busy(1, "TRAVEL", 339, 350), Busy(2, "BUSY", 40, 100), Busy(3, "AVAILABLE", 100, 150),
           Busy(2, "BUSY", 150, 160)}
MCBroadcastCalls == [members : Lists(Adults, 4), urgency : {"MED", "HIGH"}, dueAt : {none, 100}, now : {95},
                     exclude : {{}, {1}}, blocks : SUBSET Blocks]
Moves == {[kind |-> "claim", member |-> 1, at |-> 3], [kind |-> "claim", member |-> 2, at |-> 4],
          [kind |-> "reject"]}
MCOfferCalls == [moves : Upto(Moves, 4), deadline : {60, 61}]

\* filterByCommute, assignByRouteSynergy: at, under and over the limits.
Driver(id, role, drives, commute, km) ==
    [id |-> id, role |-> role, drives |-> drives, commute |-> commute, km |-> km, active |-> id # 5]
Drivers ==
    <<Driver(1, "HEAD", TRUE, 0, none), Driver(2, "HEAD", TRUE, 30, 45), Driver(3, "THIRD_PARTY", TRUE, none, 5),
      Driver(4, "DEPENDENT", TRUE, 10, 1), Driver(5, "HEAD", TRUE, none, 0), Driver(6, "HEAD", FALSE, none, 2)>>
MCDropoffCalls == [members : Lists(Drivers, 6), km : {5, 45},
    trip : [pickupAt : {120}, leaveAt : {none, 58, 59, 60, 61}, buffer : {0, 1}, driving : BOOLEAN]]

\* detectConflicts: nested, touching, less than 6 and 15 minutes apart and just that,
\* equal starts.
Commit(m, from, to, driver) == [member |-> m, from |-> from, to |-> to, driver |-> driver, task |-> none]
Commitments == {Commit(1, 0, 60, FALSE), Commit(1, 10, 20, TRUE), Commit(1, 20, 30, FALSE),
                Commit(1, 31, 40, FALSE), Commit(1, 51, 60, FALSE), Commit(1, 52, 90, FALSE), Commit(1, 59, 70, FALSE),
                Commit(1, 60, 80, FALSE), Commit(2, 10, 20, FALSE), Commit(2, 10, 35, FALSE)}
MCRadarCalls == [commitments : Upto(Commitments, 3), members : Lists(SubSeq(Drivers, 1, 2), 2), buffer : {15}]

\* findMicroWindows: blocks that nest, touch and cross the ends of the range.
Slot(from, to, label) == [from |-> from, to |-> to, label |-> label]
Slots == {Slot(-3, 2, none), Slot(5, 15, "school"), Slot(7, 9, none), Slot(15, 17, "shop"), Slot(33, 40, none)}
Goal(id, m, minutes) == [id |-> id, member |-> m, minutes |-> minutes]
MCWindowCalls == [member : {1}, goals : Upto({Goal(1, 1, 2), Goal(2, 1, 4), Goal(3, 2, 1)}, 2), busy : Upto(Slots, 3),
                  range : {[from |-> 0, to |-> 36]}, buffer : {0, 1}]

\* computeLoadEquity, computeBalanceBattery: thirds, nobody's tasks, no goals.
Load(urgency, category, assignee) == [urgency |-> urgency, category |-> category, assignee |-> assignee]
Loads == {Load("LOW", "ERRAND", 1), Load("MED", "SCHOOL", 2), Load("CRITICAL", "LOGISTICS", 3),
          Load("HIGH", "ADMIN", 1), Load("HIGH", "ERRAND", none)}
Claimed(id, m, status) == [id |-> id, member |-> m, status |-> status]
MCBatteryCalls == [tasks : Upto(Loads, 3), members : {{1, 2, 3}},
    goals : SUBSET {[id |-> 1, member |-> 1, count |-> 2], [id |-> 2, member |-> 2, count |-> 1]},
    windows : SUBSET {Claimed(1, 1, "CLAIMED"), Claimed(2, 1, "CLAIMED"), Claimed(3, 2, "SUGGESTED")}]

\* computeMilestones: a year of ten days of two instants each.
MCMilestoneCalls == [goalDate : {none, 4}, target : {none, 30}, now : 0 .. 41,
    rule : {none, [kind |-> "date", at |-> 7, leadDays |-> 3], [kind |-> "other", leadDays |-> 0]}
             \cup [kind : {"phrase"}, day : {0, 5, 9, 12}, leadDays : {0, 3}]]
MCIntentCalls == [hits : [1 .. 5 -> 0 .. 1], hinted : BOOLEAN]

\* expandRecurrence, generateMaintenanceTasks: the ends of months, anchors before,
\* on and after the window's start.
At(m, d) == [m |-> m, d |-> d]
Starts == {At(m, d) : m \in {0, 1, 10, 11}, d \in {1, 15, 28}} \cup {At(0, 31)}
MCExpandCalls == [rule : [freq : {"DAILY", "MONTHLY"}, interval : {1, 3}, dtstart : {none, At(0, 31)}],
                  from : {At(0, 15), At(2, 1)}, to : {At(4, 30)}, dtstart : {none, At(1, 28)}, limit : {2, 500}]
Template(months, days, month, day) ==
    [rule |-> none, everyMonths |-> months, everyDays |-> days, anchorMonth |-> month, anchorDay |-> day]
Ruled(freq, n, month) ==
    [Template(none, none, month, none) EXCEPT !.rule = [freq |-> freq, interval |-> n]]
Templates == {<<Template(n, none, m, d)>> : n \in {none, 1, 6, 12}, m \in {none, 2, 11}, d \in {none, 15, 31}}
               \cup {<<Ruled("MONTHLY", 2, 3), Ruled("DAILY", 45, none)>>, <<Template(none, 30, none, none)>>,
                      <<Template(1, none, none, none), Template(none, 30, none, none)>>,
                      <<Template(6, none, 2, 31), Template(12, none, 11, none), Template(6, none, none, none)>>}
MCChoreCalls == [templates : Templates, from : Starts, to : {At(12, 15)}, limit : {3, 12}]

\* generateDependencyChain
Asset(id, kind, words) == [id |-> id, kind |-> kind, words |-> words]
Assets == <<Asset("car", "VEHICLE", {}), Asset("van", "VEHICLE", {"roof rack"}), Asset("tent", "GEAR", {"tent"}),
            Asset("chains", "GEAR", {"tire chains"}), Asset("bed", "GEAR", {"sleeping bag"})>>
Kids == <<Person("ann", "DEPENDENT", Born(2012, 6, 15), {}, none, FALSE, TRUE),
          Person("ben", "DEPENDENT", Born(2011, 6, 15), {}, none, FALSE, TRUE),
          Person("cat", "DEPENDENT", none, {}, none, FALSE, TRUE),
          Person("dad", "HEAD", none, {}, none, FALSE, TRUE)>>
MCChainCalls == [kind : {"SKI_TRIP", "CAMPSITE", "TRIP", "CAMP", "SPORTS"}, assets : Lists(Assets, 5),
                 members : Lists(Kids, 4), today : {Today}, ceiling : {14}]

\* postProcess: one title in two spellings, fields missing or out of range.
MCTitles == {"", "Pickup", "pickup", "Dentist"}
MCLower(t) == IF t = "Pickup" THEN "pickup" ELSE t
Raw(title, due, category, confidence) ==
    [title |-> title, dueAt |-> due, category |-> category, confidence |-> confidence,
     urgency |-> "soon", minAge |-> -1]
Drafts == {Raw("Pickup", none, "ERRAND", 50), Raw("pickup", none, "ERRAND", 90), Raw("pickup", 1, "ERRAND", 140),
           Raw("pickup", none, "bogus", none), Raw("Dentist", 1, "ADMIN", -5), Raw(none, 1, "ADMIN", 70)}
MCExtractCalls == [drafts : Upto(Drafts, 3), minConfidence : {0, 50}]

\* scrub: a value two rules find, two phones, words between.
Spans == {[kind |-> "words", text |-> "at"],
          [kind |-> "value", text |-> "555-123-4567", rules |-> {"PHONE"}],
          [kind |-> "value", text |-> "555-123-9999", rules |-> {"PHONE"}],
          [kind |-> "value", text |-> "123-45-6789", rules |-> {"SSN", "PHONE"}],
          [kind |-> "token", type |-> "PHONE", n |-> 1]}
MCScrubCalls == Upto(Spans, 4)
=============================================================================
