-------------------------------- MODULE Services --------------------------------
(* The services of the API around the core of the system.  Their tables are      *)
(* separate, so each behaviour is about one of them and the others stand still.  *)
EXTENDS Milestones, LocalTime, SchoolDocuments, Digests, Planner, Tenancy

CONSTANT Topics  \* the services looked at

VARIABLE topic  \* the service this behaviour is about

servicesVars == <<topic, failures, milestoneVars, timeVars, schoolVars, digestVars, plannerVars, tenancyVars>>

Init ==
    /\ topic \in Topics
    /\ failures = 0
    /\ MilestonesInit /\ SchoolInit /\ PlannerInit
    /\ IF topic = "localTime" THEN LocalTimeInit ELSE home = Null /\ phase = 0
    /\ DigestsInit /\ (topic # "digests" => \A t \in DigestTasks : chores[t].holder = Null)
    /\ TenancyInit

MilestonesStep ==
    /\ topic = "milestones" /\ MilestonesNext
    /\ UNCHANGED <<topic, timeVars, schoolVars, digestVars, plannerVars, tenancyVars>>

SchoolStep ==
    /\ topic = "school" /\ SchoolNext
    /\ UNCHANGED <<topic, milestoneVars, timeVars, digestVars, plannerVars, tenancyVars>>

DigestsStep ==
    /\ topic = "digests" /\ DigestsNext
    /\ UNCHANGED <<topic, milestoneVars, timeVars, schoolVars, plannerVars, tenancyVars>>

PlannerStep ==
    /\ \/ topic = "radar" /\ RadarNext
       \/ topic = "search" /\ SearchNext
    /\ UNCHANGED <<topic, milestoneVars, timeVars, schoolVars, digestVars, tenancyVars>>

TenancyStep ==
    /\ topic = "tenancy" /\ TenancyNext
    /\ UNCHANGED <<topic, milestoneVars, timeVars, schoolVars, digestVars, plannerVars>>

Next == MilestonesStep \/ SchoolStep \/ DigestsStep \/ PlannerStep \/ TenancyStep

Spec == Init /\ [][Next]_servicesVars /\ MilestonesFairness

\* The types of every service.
TypeOK ==
    /\ failures \in 0 .. MaxFailures
    /\ MilestonesTypeOK /\ SchoolTypeOK /\ DigestsTypeOK /\ PlannerTypeOK /\ TenancyTypeOK
=============================================================================
