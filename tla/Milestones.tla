------------------------------- MODULE Milestones -------------------------------
(* services/api modules/seasonal and the milestone job of the scheduler: a       *)
(* project is stored, its milestones are computed and stored after it, and runs  *)
(* of the job, which may overlap, mark the milestones that are due.              *)
EXTENDS ApiCall, Seasonal

CONSTANTS
    Projects,   \* the seasonal projects that are created
    FireRuns,   \* runs of the job that can be in flight at once
    Instants,   \* the moments at which something happens
    GoalDates,  \* what callers give as a goal date or a target window, or Null
    Timelines   \* opens rules a registration timeline of the kind may have, or Null

ASSUME MilestonesAssumption ==
    /\ DayLength \in Nat \ {0} /\ YearDays \in Nat \ {0} /\ Instants \subseteq Int
    /\ Null \notin Int /\ Null \in GoalDates /\ GoalDates \subseteq Int \cup {Null}
    /\ Null \in Timelines
    /\ \A rule \in Timelines \ {Null} :
          /\ rule.leadDays \in Nat
          /\ \/ rule.kind = "date" /\ rule.at \in Int
             \/ rule.kind = "phrase" /\ rule.day \in Int
             \/ rule.kind = "other"

VARIABLES
    now,
    creating,   \* per project, how far its call has come and what it was given
    milestones, \* rows of Milestone, with their project
    due         \* what each run of the job has read

milestoneVars == <<now, creating, milestones, due>>

Untouched == [step |-> "none", goalDate |-> Null, target |-> Null, timeline |-> Null]

MilestoneRow == [project : Projects, stage : Range(Stages), fireAt : Int, fired : BOOLEAN]

MilestonesTypeOK ==
    /\ now \in Instants
    /\ creating \in [Projects -> [step : {"none", "timeline", "milestones", "returned", "failed"},
                                  goalDate : GoalDates, target : GoalDates, timeline : Timelines]]
    /\ milestones \subseteq MilestoneRow
    /\ \A r \in FireRuns : due[r] \subseteq Projects \X Range(Stages)

MilestonesInit ==
    /\ now \in Instants /\ \A t \in Instants : now <= t
    /\ creating = [p \in Projects |-> Untouched]
    /\ milestones = {}
    /\ due = [r \in FireRuns |-> {}]

\* POST /seasonal: the project is stored as it was given.
CreateProject(p) ==
    /\ creating[p].step = "none"
    /\ \E goalDate, target \in GoalDates :
          creating' = [creating EXCEPT ![p] = [step |-> "timeline", goalDate |-> goalDate,
                                               target |-> target, timeline |-> Null]]
    /\ Works
    /\ UNCHANGED <<now, milestones, due>>

\* The household's timeline of the same kind, if there is one.
FindTimeline(p) ==
    /\ creating[p].step = "timeline"
    /\ \/ /\ \E timeline \in Timelines :
                creating' = [creating EXCEPT ![p].step = "milestones", ![p].timeline = timeline]
          /\ Works
       \/ creating' = [creating EXCEPT ![p].step = "failed"] /\ Fails
    /\ UNCHANGED <<now, milestones, due>>

\* A broken form of the next definition: a stage that is past is left out.
StagesOfAhead(p, computed) == SelectSeq(computed, LAMBDA m : m.fireAt > now)

\* All four stages are stored, past ones too.
StagesOf(p, computed) == computed

\* One createMany.  Without a goal date there is nothing to store; a failure to
\* store is swallowed just the same, and the call answers with the project.
StoreMilestones(p) ==
    LET c == creating[p]
        computed == ComputeMilestones(c.goalDate, c.timeline, c.target, now)
        rows == {[project |-> p, stage |-> m.stage, fireAt |-> m.fireAt, fired |-> FALSE] :
                    m \in ToSet(StagesOf(p, computed))}
    IN  /\ c.step = "milestones"
        /\ \/ milestones' = milestones \cup rows /\ Works
           \/ UNCHANGED milestones /\ Fails
        /\ creating' = [creating EXCEPT ![p].step = "returned"]
        /\ UNCHANGED <<now, due>>

-----------------------------------------------------------------------------
\* A broken form of the next definition: only what fires just now.
IsDueNow(m) == ~m.fired /\ m.fireAt = now

IsDue(m) == ~m.fired /\ m.fireAt <= now

\* The run reads what is due; it has nothing to do when nothing is.
ReadDue(r) ==
    /\ due[r] = {}
    /\ \E m \in milestones : IsDue(m)
    /\ due' = [due EXCEPT ![r] = {<<m.project, m.stage>> : m \in {k \in milestones : IsDue(k)}}]
    /\ Works
    /\ UNCHANGED <<now, creating, milestones>>

Marked(r, m) == <<m.project, m.stage>> \in due[r]

\* One updateMany over what was read; a run that read the same before does it again.
MarkFired(r) ==
    /\ due[r] # {}
    /\ \/ /\ milestones' = {IF Marked(r, m) THEN [m EXCEPT !.fired = TRUE] ELSE m : m \in milestones}
          /\ Works
       \/ UNCHANGED milestones /\ Fails
    /\ due' = [due EXCEPT ![r] = {}]
    /\ UNCHANGED <<now, creating>>

TimePasses ==
    /\ \E t \in Instants : t > now /\ now' = t
    /\ Works
    /\ UNCHANGED <<creating, milestones, due>>

MilestonesNext ==
    \/ \E p \in Projects : CreateProject(p) \/ FindTimeline(p) \/ StoreMilestones(p)
    \/ \E r \in FireRuns : ReadDue(r) \/ MarkFired(r)
    \/ TimePasses

\* The job is on schedule, every five minutes.
MilestonesFairness ==
    /\ WF_<<milestoneVars, failures>>(\E r \in FireRuns : ReadDue(r))
    /\ \A r \in FireRuns : WF_<<milestoneVars, failures>>(MarkFired(r))

-----------------------------------------------------------------------------
\* Each project has the four stages or none, and none when no date is known; none
\* fires early, and a stage never fires before the ones that lead up to it.
MilestonesFireInOrder ==
    /\ \A p \in Projects :
          LET mine == {m \in milestones : m.project = p}
          IN  /\ Cardinality(mine) \in {0, Len(Stages)}
              /\ creating[p].goalDate = Null /\ creating[p].timeline = Null /\ creating[p].target = Null
                    => mine = {}
    /\ \A m \in milestones : m.fired =>
          /\ m.fireAt <= now
          /\ \A k \in milestones : k.project = m.project /\ k.fireAt < m.fireAt => k.fired

\* What is due is marked in the end, whatever fails on the way and however many
\* runs overlap.
DueMilestonesFire ==
    \A p \in Projects, s \in Range(Stages) :
        (\E m \in milestones : m.project = p /\ m.stage = s /\ IsDue(m))
            ~> (\E m \in milestones : m.project = p /\ m.stage = s /\ m.fired)
=============================================================================
