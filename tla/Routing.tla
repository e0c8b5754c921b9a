-------------------------------- MODULE Routing --------------------------------
(* packages/core/src/routing/engine.ts: who should do a task.  Members and     *)
(* rules are sequences in the order the database returns them; an id is a      *)
(* number, compared as localeCompare compares the strings.  What only shapes   *)
(* the rationale is left out.                                                  *)
EXTENDS CoreTime, SequencesExt

\* A broken form of the next definition: the upper bound is forgotten.
AgeFitsMinOnly(age, minAge, maxAge) == minAge # Null => age # Null /\ age >= minAge

\* An age bound holds of a known age only; no bound holds of every age.
AgeFits(age, minAge, maxAge) ==
    /\ minAge # Null => age # Null /\ age >= minAge
    /\ maxAge # Null => age # Null /\ age <= maxAge

IsEligible(member, task, today) ==
    /\ member.active
    /\ task.skills \subseteq member.skills
    /\ AgeFits(ComputeAge(member.birth, today), task.minAge, task.maxAge)

RuleMatchesTask(rule, task) ==
    /\ rule.category \in {Null, task.category}
    /\ rule.skills \subseteq task.skills

RuleAppliesToMember(rule, member, today) ==
    /\ rule.skills \subseteq member.skills
    /\ AgeFits(ComputeAge(member.birth, today), rule.minAge, rule.maxAge)
    /\ rule.to \in {Null, member.id}

ScoreCandidate(member, task) ==
    LET presence == CASE member.state = "AVAILABLE" -> 30
                      [] member.state = "TRAVEL"    -> 5
                      [] OTHER                      -> 0
        driving == IF member.drives /\ task.category \in {"LOGISTICS", "ERRAND", "SCHOOL"}
                   THEN 15 ELSE 0
        overlap == Min({10, 5 * Cardinality(member.skills \cap task.skills)})
        head == IF member.role = "HEAD" /\ (task.category = "ADMIN" \/ task.approval)
                THEN 8 ELSE 0
    IN  presence + driving + overlap + head

\* Positions of the eligible members, in the order of the list.
Candidates(task, members, today) ==
    {i \in DOMAIN members : IsEligible(members[i], task, today)}

\* Positions of the rules that match the task and reach some candidate.
LiveRules(task, members, rules, today) ==
    {k \in DOMAIN rules :
        /\ RuleMatchesTask(rules[k], task)
        /\ \E i \in Candidates(task, members, today) :
              RuleAppliesToMember(rules[k], members[i], today)}

\* The rule that decides: highest priority, earliest of equals (the sort is stable).
FirstRule(rules, live) ==
    CHOOSE k \in live : \A l \in live :
        rules[k].priority > rules[l].priority \/ (rules[k].priority = rules[l].priority /\ k <= l)

\* The first candidate the deciding rule applies to, 0 when no rule is live.
Forced(task, members, rules, today) ==
    LET live == LiveRules(task, members, rules, today)
    IN  IF live = {} THEN 0
        ELSE Min({i \in Candidates(task, members, today) :
                     RuleAppliesToMember(rules[FirstRule(rules, live)], members[i], today)})

FinalScore(i, task, members, rules, today) ==
    LET live == LiveRules(task, members, rules, today)
    IN  ScoreCandidate(members[i], task)
          + (IF i = Forced(task, members, rules, today)
             THEN 1000 + rules[FirstRule(rules, live)].priority ELSE 0)

\* Score first, then the smaller id, whatever the order of the list.
Ahead(s1, i1, s2, i2, members) ==
    s1 > s2 \/ (s1 = s2 /\ members[i1].id < members[i2].id)

\* The member assigned and the confidence in percent.
Route(task, members, rules, today) ==
    LET all == Candidates(task, members, today)
        score == [i \in all |-> FinalScore(i, task, members, rules, today)]
        ranked == Sorted(all, LAMBDA i, j :
                      Ahead(score[i], i, score[j], j, members))
    IN  IF all = {} THEN [member |-> Null, confidence |-> 0]
        ELSE [member |-> members[ranked[1]].id,
              confidence |->
                IF ranked[1] = Forced(task, members, rules, today) THEN 95
                ELSE IF Len(ranked) = 1 THEN 90
                ELSE Min({90, 50 + score[ranked[1]] - score[ranked[2]]})]
-----------------------------------------------------------------------------
\* The member with an id in a list.
MemberOf(members, id) == members[CHOOSE i \in DOMAIN members : members[i].id = id]

\* The most that the soft signals add up to, and a rule whose boost outweighs them: one
\* of priority -937 or less is a suggestion that may lose.
MaxScore == 30 + 15 + 10 + 8
Outweighs(rule) == 1000 + rule.priority > MaxScore

\* Whoever is assigned may do the task, and the strongest live rule is obeyed:
\* no boost, tie or order of the lists overrides a hard constraint or a rule.
Obeys(task, members, rules, today, answer) ==
    LET fit == {m \in ToSet(members) : m.active /\ task.skills \subseteq m.skills
                  /\ (task.minAge # Null => m.birth # Null
                        /\ (task.minAge = 0 \/
                              ~Before([y |-> today.y - task.minAge, m |-> today.m, d |-> today.d], m.birth)))
                  /\ (task.maxAge # Null => m.birth # Null
                        /\ Before([y |-> today.y - task.maxAge - 1, m |-> today.m, d |-> today.d], m.birth))}
        reach(r) == {m \in fit : RuleAppliesToMember(r, m, today)}
        strong == {r \in ToSet(rules) : RuleMatchesTask(r, task) /\ reach(r) # {}}
    IN  /\ answer.member = Null <=> fit = {}
        /\ fit # {} => MemberOf(members, answer.member) \in fit
        /\ strong # {} => \E r \in strong :
              /\ \A q \in strong : q.priority <= r.priority
              /\ Outweighs(r) => MemberOf(members, answer.member) \in reach(r)
        /\ strong = {} /\ fit # {} =>
              \A m \in fit : ScoreCandidate(m, task)
                               <= ScoreCandidate(MemberOf(members, answer.member), task)

\* The answer depends on who is in the lists, not on their order, as long as
\* the deciding rule is one and reaches one member.
OrderFree(task, members, rules, today) ==
    LET live == {k \in DOMAIN rules : /\ RuleMatchesTask(rules[k], task)
                    /\ \E i \in Candidates(task, members, today) :
                          RuleAppliesToMember(rules[k], members[i], today)}
        top == {k \in live : \A l \in live : rules[l].priority <= rules[k].priority}
        targets == {i \in Candidates(task, members, today) :
                       \E k \in top : RuleAppliesToMember(rules[k], members[i], today)}
    IN  Cardinality(targets) <= 1 =>
            \A other \in SetToSeqs(ToSet(members)) :
                Route(task, other, Reverse(rules), today) = Route(task, members, rules, today)
=============================================================================
