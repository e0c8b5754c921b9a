------------------------------ MODULE JobScheduler ------------------------------
(* services/api/src/queue and scheduler/scheduler.service.ts: how the recurring  *)
(* jobs get on the queue, run, and are taken off it.  A process of the API       *)
(* registers its handlers, schedules the jobs one by one, and on SIGTERM removes *)
(* what it scheduled and closes the queue.  With the in-memory driver a schedule *)
(* is an interval of the process; with BullMQ it is an entry of Redis, shared by *)
(* every process and outliving it, and each process has a worker per job.  The   *)
(* bodies of the jobs are modelled elsewhere: here a run starts and settles.     *)
EXTENDS Integers, Sequences, FiniteSets

CONSTANTS
    Procs,       \* processes of the API, over time or side by side
    JobSeq,      \* the job names, in the order they are scheduled
    Drivers,     \* "memory", "bullmq" or both
    MaxRuns,     \* bound: runs of one job in flight in one process
    MaxShots,    \* bound: one-shot jobs enqueued
    MaxCrashes   \* bound: processes that crash, fail to start or are refused by Redis

ASSUME ConstantsAssumption ==
    /\ Drivers \subseteq {"memory", "bullmq"}
    /\ MaxRuns \in Nat \ {0} /\ MaxShots \in Nat /\ MaxCrashes \in Nat
    /\ JobSeq \in Seq(STRING)
    /\ \A i, j \in DOMAIN JobSeq : JobSeq[i] = JobSeq[j] => i = j

VARIABLES
    driver,      \* the driver of every process (REDIS_URL set or not)
    proc,        \* what each process is doing
    intervals,   \* memory: the intervals of each process, [job, seq]
    seq,         \* memory: the number of the last interval of each process
    timeouts,    \* memory: pending one-shot timers per process and job
    queues,      \* bullmq: jobs each process has a queue object for
    workers,     \* bullmq: jobs each process has a worker for that takes jobs
    redis,       \* bullmq: the repeatable jobs in Redis, [job, spec]
    waiting,     \* bullmq: one-shot jobs in Redis, per job
    runs,        \* runs in flight per process and job
    shots, crashes

queueVars == <<intervals, seq, timeouts, queues, workers, redis, waiting>>
vars == <<driver, proc, intervals, seq, timeouts, queues, workers, redis, waiting, runs, shots, crashes>>

Jobs == {JobSeq[i] : i \in DOMAIN JobSeq}

\* A process that is not there.  "init" is the progress of onModuleInit, "keys"
\* are the repeatKeys, "stop" the progress of onModuleDestroy, "next" the job the
\* loop is at and "removed" how many keys were removed without an error.
Down == [init |-> "none", keys |-> 0, stop |-> "none", next |-> 1, removed |-> 0]

TypeOK ==
    /\ driver \in Drivers
    /\ proc \in [Procs -> [init : {"none", "busy", "disabled", "done"}, keys : {0, Len(JobSeq)},
                           stop : {"none", "remove", "workers", "queues", "done"},
                           next : 1 .. Len(JobSeq) + 1, removed : 0 .. Len(JobSeq)]]
    /\ \A p \in Procs : intervals[p] \subseteq [job : Jobs, seq : 1 .. Len(JobSeq)]
    /\ seq \in [Procs -> 0 .. Len(JobSeq)]
    /\ timeouts \in [Procs -> [Jobs -> 0 .. MaxShots]]
    /\ queues \in [Procs -> SUBSET Jobs] /\ workers \in [Procs -> SUBSET Jobs]
    /\ redis \subseteq [job : Jobs, spec : {"cron", "every"}]
    /\ waiting \in [Jobs -> 0 .. MaxShots]
    /\ runs \in [Procs -> [Jobs -> 0 .. MaxRuns]]
    /\ shots \in 0 .. MaxShots /\ crashes \in 0 .. MaxCrashes

NoRuns == [j \in Jobs |-> 0]

Init ==
    /\ driver \in Drivers
    /\ proc = [p \in Procs |-> Down]
    /\ intervals = [p \in Procs |-> {}] /\ seq = [p \in Procs |-> 0]
    /\ timeouts = [p \in Procs |-> NoRuns]
    /\ queues = [p \in Procs |-> {}] /\ workers = [p \in Procs |-> {}]
    /\ redis = {} /\ waiting = NoRuns
    /\ runs = [p \in Procs |-> NoRuns]
    /\ shots = 0 /\ crashes = 0

Memory == driver = "memory"
Alive(p) == proc[p].init # "none"

-----------------------------------------------------------------------------
(* The JobQueue port.  An operation of the driver says what becomes of the      *)
(* queue variables.                                                             *)

\* A broken form of the next definition: only the first queue gets a worker.
NewWorkersFirst(p, job) == IF queues[p] = {} THEN {job} ELSE {}

\* A worker is made along with the queue, not for a queue that is there.
NewWorkers(p, job) == {job} \ queues[p]

\* BullMQ: the queue of a job and its worker are made when first asked for.
GetQueue(p, job) ==
    /\ queues' = [queues EXCEPT ![p] = @ \cup {job}]
    /\ workers' = [workers EXCEPT ![p] = @ \cup NewWorkers(p, job)]

\* A key that is all digits is an interval; anything else is a cron pattern.
\* The scheduler gives both, and cron wins.
RepeatSpec == "cron"

Repeat(p, job) ==
    IF Memory
    THEN /\ seq' = [seq EXCEPT ![p] = @ + 1]
         /\ intervals' = [intervals EXCEPT ![p] = @ \cup {[job |-> job, seq |-> seq[p] + 1]}]
         /\ UNCHANGED <<timeouts, queues, workers, redis, waiting>>
    ELSE /\ GetQueue(p, job)
         /\ redis' = redis \cup {[job |-> job, spec |-> RepeatSpec]}
         /\ UNCHANGED <<intervals, seq, timeouts, waiting>>

\* A broken form of the next definition: the key is always taken for an interval.
RemovedEntryEvery(job) == [job |-> job, spec |-> "every"]

\* BullMQ: the entry a key "name:spec" stands for.
RemovedEntry(job) == [job |-> job, spec |-> RepeatSpec]

\* The keys are those of this process, n-th job first: "name#n" or "name:spec".
RemoveRepeatable(p, n) ==
    IF Memory
    THEN /\ intervals' = [intervals EXCEPT ![p] = @ \ {[job |-> JobSeq[n], seq |-> n]}]
         /\ UNCHANGED <<seq, timeouts, queues, workers, redis, waiting>>
    ELSE /\ GetQueue(p, JobSeq[n])
         /\ redis' = redis \ {RemovedEntry(JobSeq[n])}
         /\ UNCHANGED <<intervals, seq, timeouts, waiting>>

\* A one-shot job of any caller; no service of the API has one so far.
Enqueue(p, job) ==
    /\ Alive(p)
    /\ shots < MaxShots
    /\ shots' = shots + 1
    /\ IF Memory
       THEN /\ timeouts' = [timeouts EXCEPT ![p][job] = @ + 1]
            /\ UNCHANGED <<queues, workers, waiting>>
       ELSE /\ GetQueue(p, job)
            /\ waiting' = [waiting EXCEPT ![job] = @ + 1]
            /\ UNCHANGED timeouts
    /\ UNCHANGED <<driver, proc, intervals, seq, redis, runs, crashes>>

-----------------------------------------------------------------------------
\* onModuleInit registers all handlers; under test, or when told to, that is all.
Boot(p) ==
    /\ ~Alive(p)
    /\ \E how \in {"busy", "disabled"} :
          proc' = [proc EXCEPT ![p] = [Down EXCEPT !.init = how]]
    /\ UNCHANGED <<driver, queueVars, runs, shots, crashes>>

\* The next repeat of scheduleRepeatables.
ScheduleNext(p) ==
    /\ proc[p].init = "busy" /\ proc[p].next <= Len(JobSeq)
    /\ Repeat(p, JobSeq[proc[p].next])
    /\ proc' = [proc EXCEPT ![p].next = @ + 1]
    /\ UNCHANGED <<driver, runs, shots, crashes>>

\* The keys are kept only after the last repeat has answered.
Scheduled(p) ==
    /\ proc[p].init = "busy" /\ proc[p].next > Len(JobSeq)
    /\ proc' = [proc EXCEPT ![p].init = "done", ![p].keys = Len(JobSeq), ![p].next = 1]
    /\ UNCHANGED <<driver, queueVars, runs, shots, crashes>>

\* A broken form of the next definition: numbers go on where the last one stopped.
FreshSeqKept(p) == seq[p]

\* A new process counts its intervals from one again.
FreshSeq(p) == 0

\* Everything of a process goes with it; Redis stays.
Gone(p) ==
    /\ proc' = [proc EXCEPT ![p] = Down]
    /\ intervals' = [intervals EXCEPT ![p] = {}] /\ seq' = [seq EXCEPT ![p] = FreshSeq(p)]
    /\ timeouts' = [timeouts EXCEPT ![p] = NoRuns]
    /\ queues' = [queues EXCEPT ![p] = {}] /\ workers' = [workers EXCEPT ![p] = {}]
    /\ runs' = [runs EXCEPT ![p] = NoRuns]
    /\ UNCHANGED <<driver, redis, waiting, shots>>

\* Redis refuses a repeat, or the optional package is missing: the bootstrap
\* fails and the process exits.  A crash is no different.
Crash(p) ==
    /\ Alive(p)
    /\ crashes < MaxCrashes
    /\ crashes' = crashes + 1
    /\ Gone(p)

\* SIGTERM: onModuleDestroy.  The in-memory repeats answer at once, so only with
\* BullMQ can it begin before onModuleInit has ended; it has no key to remove then.
Stop(p) ==
    /\ Alive(p) /\ proc[p].stop = "none"
    /\ Memory => proc[p].init # "busy"
    /\ proc' = [proc EXCEPT ![p].stop = IF @ = "none" /\ proc[p].keys > 0 THEN "remove" ELSE "workers"]
    /\ UNCHANGED <<driver, queueVars, runs, shots, crashes>>

\* The next key is removed; an error (BullMQ only) is swallowed.
RemoveNext(p) ==
    /\ proc[p].stop = "remove" /\ proc[p].next <= proc[p].keys
    /\ \/ /\ RemoveRepeatable(p, proc[p].next)
          /\ proc' = [proc EXCEPT ![p].next = @ + 1, ![p].removed = @ + 1]
          /\ UNCHANGED crashes
       \/ /\ ~Memory
          /\ crashes < MaxCrashes
          /\ crashes' = crashes + 1
          /\ proc' = [proc EXCEPT ![p].next = @ + 1]
          /\ UNCHANGED queueVars
    /\ UNCHANGED <<driver, runs, shots>>

Removed(p) ==
    /\ proc[p].stop = "remove" /\ proc[p].next > proc[p].keys
    /\ proc' = [proc EXCEPT ![p].stop = "workers"]
    /\ UNCHANGED <<driver, queueVars, runs, shots, crashes>>

\* BullMQ: a worker that is being closed takes no job and waits for its run; the
\* next one is closed after it.
SettledWorkers(p) == \A j \in Jobs \ workers[p] : runs[p][j] = 0

CloseWorker(p, job) ==
    /\ ~Memory
    /\ proc[p].stop = "workers" /\ job \in workers[p]
    /\ SettledWorkers(p)
    /\ workers' = [workers EXCEPT ![p] = @ \ {job}]
    /\ UNCHANGED <<driver, proc, intervals, seq, timeouts, queues, redis, waiting, runs, shots, crashes>>

\* BullMQ: the queues follow; a worker that opens meanwhile is left open.
CloseQueues(p) ==
    /\ ~Memory
    /\ proc[p].stop = "workers" /\ workers[p] = {} /\ SettledWorkers(p)
    /\ proc' = [proc EXCEPT ![p].stop = "queues"]
    /\ UNCHANGED <<driver, queueVars, runs, shots, crashes>>

\* In memory: every timer is cleared at once, the runs in flight go on.
Closed(p) ==
    /\ \/ Memory /\ proc[p].stop = "workers"
       \/ ~Memory /\ proc[p].stop = "queues"
    /\ proc' = [proc EXCEPT ![p].stop = "done"]
    /\ IF Memory
       THEN /\ intervals' = [intervals EXCEPT ![p] = {}]
            /\ timeouts' = [timeouts EXCEPT ![p] = NoRuns]
            /\ UNCHANGED queues
       ELSE /\ queues' = [queues EXCEPT ![p] = {}]
            /\ UNCHANGED <<intervals, timeouts>>
    /\ UNCHANGED <<driver, seq, workers, redis, waiting, runs, shots, crashes>>

\* Nest raises the signal again once the hooks are done, and the process ends.
Exit(p) ==
    /\ proc[p].stop = "done"
    /\ Gone(p)
    /\ UNCHANGED crashes

-----------------------------------------------------------------------------
\* A process has this job on schedule and can run it.
OnSchedule(p, job) ==
    IF Memory THEN \E i \in intervals[p] : i.job = job
    ELSE job \in workers[p] /\ \E e \in redis : e.job = job

\* A run starts: an interval fires whether or not the last run has ended, a
\* worker takes one job at a time.
StartRun(p, job) ==
    /\ runs[p][job] < IF Memory THEN MaxRuns ELSE 1
    /\ runs' = [runs EXCEPT ![p][job] = @ + 1]

Fire(p, job) ==
    /\ OnSchedule(p, job)
    /\ StartRun(p, job)
    /\ UNCHANGED <<driver, proc, queueVars, shots, crashes>>

\* A broken form of the next definition: the timer stays in the set.
TakeTimeoutKept(p, job) == timeouts

\* A timer that fires leaves the set.
TakeTimeout(p, job) == [timeouts EXCEPT ![p][job] = @ - 1]

FireOnce(p, job) ==
    /\ IF Memory
       THEN /\ timeouts[p][job] > 0
            /\ timeouts' = TakeTimeout(p, job)
            /\ UNCHANGED waiting
       ELSE /\ waiting[job] > 0 /\ job \in workers[p]
            /\ waiting' = [waiting EXCEPT ![job] = @ - 1]
            /\ UNCHANGED timeouts
    /\ StartRun(p, job)
    /\ UNCHANGED <<driver, proc, intervals, seq, queues, workers, redis, shots, crashes>>

\* A broken form of the next definition: a failing run never settles.
SettledLost(p, job) == runs

\* The handler answers or throws; a throw is logged (in memory) or recorded by
\* BullMQ, and neither ends the process nor the schedule.
Settled(p, job) == [runs EXCEPT ![p][job] = @ - 1]

RunEnds(p, job) ==
    /\ runs[p][job] > 0
    /\ runs' = Settled(p, job)
    /\ UNCHANGED <<driver, proc, queueVars, shots, crashes>>

Next == \E p \in Procs :
    \/ Boot(p) \/ ScheduleNext(p) \/ Scheduled(p) \/ Crash(p) \/ Stop(p) \/ RemoveNext(p)
    \/ Removed(p) \/ CloseQueues(p) \/ Closed(p) \/ Exit(p)
    \/ \E job \in Jobs : \/ Enqueue(p, job) \/ CloseWorker(p, job)
                         \/ Fire(p, job) \/ FireOnce(p, job) \/ RunEnds(p, job)

\* Timers fire, workers take jobs and handlers settle; nobody has to start, stop
\* or crash a process.
Fairness == \A p \in Procs :
    /\ WF_vars(ScheduleNext(p)) /\ WF_vars(Scheduled(p))
    /\ WF_vars(RemoveNext(p)) /\ WF_vars(Removed(p))
    /\ WF_vars(CloseQueues(p)) /\ WF_vars(Closed(p)) /\ WF_vars(Exit(p))
    /\ \A job \in Jobs : /\ WF_vars(CloseWorker(p, job))
                         /\ SF_vars(Fire(p, job)) /\ SF_vars(FireOnce(p, job))
                         /\ WF_vars(RunEnds(p, job))

Spec == Init /\ [][Next]_vars
FairSpec == Spec /\ Fairness
-----------------------------------------------------------------------------
\* A process that has finished its start and was not told to stop.
Ready(p) == proc[p].init = "done" /\ proc[p].stop = "none"

\* scheduler.service.ts "registers and schedules the system's recurring jobs": a
\* process that has started and is not stopping has each job on schedule, once.
RunningIsScheduled ==
    \A p \in Procs : Ready(p) => \A job \in Jobs :
        /\ OnSchedule(p, job)
        /\ Cardinality({i \in intervals[p] : i.job = job}) + Cardinality({e \in redis : e.job = job}) = 1

\* onModuleDestroy: a stop that removed all its keys leaves no schedule behind,
\* neither its own nor one that an earlier process left in Redis by crashing.
StopLeavesNoSchedule ==
    [][\A p \in Procs : Closed(p) /\ proc[p].removed = Len(JobSeq) => redis' = {} /\ intervals'[p] = {}]_vars

\* A failing run never ends the schedule: in a process that stays up each job is
\* run again and again, with either driver.
JobsKeepRunning ==
    \A p \in Procs, job \in Jobs : <>[]Ready(p) => []<><<Fire(p, job)>>_vars

\* A one-shot job is run as long as a process that can run it stays up.
ShotsAreRun ==
    \A p \in Procs, job \in Jobs : <>[]Ready(p) => <>[](timeouts[p][job] + waiting[job] = 0)

\* close() waits for BullMQ's workers, and a process always ends once told to.
StopEnds == \A p \in Procs : proc[p].stop # "none" ~> proc[p].stop = "none"

\* Nothing that is scheduled or enqueued is left waiting in a process that stays up.
QueuedJobsRun == JobsKeepRunning /\ ShotsAreRun
=============================================================================
