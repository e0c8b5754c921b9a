-------------------------------- MODULE Wellbeing --------------------------------
(* packages/core/src/wellbeing/wellbeing.ts: free micro-windows for a member's  *)
(* goals, the balance battery and the share of the household's load.  Goals and *)
(* buffers are minutes, the scan of a range works with instants.  Shares are    *)
(* tenths of a percent, rounded as round1 rounds them.                          *)
EXTENDS CoreTime, SequencesExt

\* Busy blocks that touch the range, by start; equal starts keep their order.
BlocksIn(busy, range) ==
    ByStart(busy, {i \in DOMAIN busy : busy[i].to > range.from /\ busy[i].from < range.to})

\* A broken form of the next definition: a block inside an earlier one moves the
\* cursor back.
AdvanceTo(cursor, block, edge) == block.to + edge

\* The cursor never moves back: a block may lie inside an earlier one.
Advance(cursor, block, edge) == Max({cursor, block.to + edge})

\* A block of the scan: the gap before it, if any, and the cursor after it.
ScanBlock(acc, b, edge) ==
    [cursor |-> Advance(acc.cursor, b, edge),
     gaps |-> IF b.from - edge > acc.cursor
              THEN Append(acc.gaps, [from |-> acc.cursor, to |-> b.from - edge, by |-> b.label])
              ELSE acc.gaps]

\* The scan of the blocks from a start.
ScanEnd(blocks, start, edge) ==
    FoldLeft(LAMBDA acc, b : ScanBlock(acc, b, edge), [cursor |-> start, gaps |-> <<>>], blocks)

\* The free gaps of the range, each with the label of the block it leads to (the
\* last one with the label of the block it follows).
ComputeGaps(busy, range, buffer) ==
    LET blocks == BlocksIn(busy, range)
        scan == ScanEnd(blocks, range.from, AddMinutes(0, buffer))
    IN  IF range.to > scan.cursor
        THEN Append(scan.gaps, [from |-> scan.cursor, to |-> range.to,
                 by |-> IF blocks = <<>> THEN Null ELSE Last(blocks).label])
        ELSE scan.gaps

\* Gaps next to a labelled block first, then by start.
IsPreferred(gaps, i, j) ==
    \/ gaps[i].by # Null /\ gaps[j].by = Null
    \/ (gaps[i].by # Null <=> gaps[j].by # Null) /\ StartsFirst(gaps, i, j)

PreferAdjacent(gaps) ==
    LET D == DOMAIN gaps
        order == SortedBy(D, {p \in D \X D : IsPreferred(gaps, p[1], p[2])})
    IN  [k \in DOMAIN order |-> gaps[order[k]]]

\* A gap that any suggestion overlaps is used up.
GapIsFree(gap, taken) ==
    \A w \in ToSet(taken) : ~WindowsOverlap(gap.from, gap.to, w.from, w.to)

\* The gaps a goal may use, and the window it gets, at the start of the first.
Fits(goal, taken, gaps) ==
    {k \in DOMAIN gaps : /\ AddMinutes(gaps[k].from, goal.minutes) <= gaps[k].to
                         /\ GapIsFree(gaps[k], taken)}

Suggest(taken, goal, member, gaps) ==
    IF goal.member # member \/ Fits(goal, taken, gaps) = {} THEN taken
    ELSE LET gap == gaps[Min(Fits(goal, taken, gaps))]
         IN  Append(taken, [goal |-> goal.id, from |-> gap.from, to |-> AddMinutes(gap.from, goal.minutes)])

SuggestAll(goals, member, gaps) ==
    FoldLeft(LAMBDA taken, goal : Suggest(taken, goal, member, gaps), <<>>, goals)

\* At most one window per goal, each at the start of the first gap that is long
\* enough and unused; the earlier goal chooses first, the answer is by start.
FindMicroWindows(member, goals, busy, range, buffer) ==
    LET gaps == PreferAdjacent(ComputeGaps(busy, range, buffer))
        chosen == SuggestAll(goals, member, gaps)
    IN  ByStart(chosen, DOMAIN chosen)

-----------------------------------------------------------------------------
Urgencies == {"LOW", "MED", "HIGH", "CRITICAL"}
UrgencyWeight == [LOW |-> 1, MED |-> 2, HIGH |-> 3, CRITICAL |-> 4]

\* Logistics of a known member, whatever the status of the task.
Counted(task, members) ==
    /\ task.category \in {"LOGISTICS", "SCHOOL", "ERRAND"}
    /\ task.assignee \in members

\* n/d as tenths of a percent, rounded half up.
Tenths(n, d) == (2000 * n + d) \div (2 * d)

Weight(tasks, S) == SumOf([i \in S |-> UrgencyWeight[tasks[i].urgency]], S)

LoadOf(m, tasks, members) ==
    Weight(tasks, {i \in DOMAIN tasks : Counted(tasks[i], members) /\ tasks[i].assignee = m})

\* Each member's share of the weighted load.
ComputeLoadEquity(tasks, members) ==
    LET total == Weight(tasks, {i \in DOMAIN tasks : Counted(tasks[i], members)})
    IN  [m \in members |-> [load |-> LoadOf(m, tasks, members),
            share |-> IF total = 0 THEN 0
                      ELSE Clamp(Tenths(LoadOf(m, tasks, members), total), 0, 1000)]]

\* The windows a member's goals ask for, and those claimed.
Target(m, goals) == LET own == {g \in goals : g.member = m} IN SumOf([g \in own |-> g.count], own)

Met(m, windows) == Cardinality({w \in windows : w.member = m /\ w.status = "CLAIMED"})

\* Claimed windows against the target of the member's goals, and the load share.
ComputeBalanceBattery(m, goals, windows, tasks, members) ==
    LET target == Target(m, goals)
    IN  [completion |-> IF target = 0 THEN 1000 ELSE Clamp(Tenths(Met(m, windows), target), 0, 1000),
         load |-> IF m \in members THEN ComputeLoadEquity(tasks, members)[m].share ELSE 0]

-----------------------------------------------------------------------------
\* The gaps are exactly the free time: with no buffer and no block that ends before
\* it starts, an instant of the range is in one gap if no block covers it and in
\* none otherwise.
GapsAreFreeTime(busy, range, gaps) ==
    (\A b \in ToSet(busy) : b.from <= b.to) => \A t \in range.from .. range.to - 1 :
        Cardinality({g \in ToSet(gaps) : g.from <= t /\ t < g.to})
          = IF \E b \in ToSet(busy) : b.from <= t /\ t < b.to THEN 0 ELSE 1

\* Suggestions keep the buffer to every block, stay in the range, do not overlap
\* each other and have the length their goal asks for.
WindowsAreUsable(goals, busy, range, buffer, windows) ==
    /\ \A w \in ToSet(windows) :
          /\ range.from <= w.from /\ w.to <= range.to
          /\ \E g \in ToSet(goals) : g.id = w.goal /\ w.to = AddMinutes(w.from, g.minutes)
          /\ \A b \in ToSet(busy) : b.to > range.from /\ b.from < range.to =>
                ~WindowsOverlap(w.from, w.to, AddMinutes(b.from, -buffer), AddMinutes(b.to, buffer))
    /\ \A i, j \in DOMAIN windows : i # j =>
          ~WindowsOverlap(windows[i].from, windows[i].to, windows[j].from, windows[j].to)
=============================================================================
