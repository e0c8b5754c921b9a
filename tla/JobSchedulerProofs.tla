--------------------------- MODULE JobSchedulerProofs ---------------------------
(***************************************************************************)
(* What one process of the API guarantees, starting, stopping and crashing *)
(* over and over, for any jobs and with either driver: once started it has *)
(* each job on schedule exactly once, and a stop that removed all its keys *)
(* leaves none.  A second process breaks both, as the run jobs_scale_in    *)
(* shows, so the assumption is necessary.                                  *)
(***************************************************************************)
EXTENDS JobScheduler, FiniteSetTheorems, TLAPS

\* One process at a time.
OneProcess == \A p, q \in Procs : p = q

Last == Len(JobSeq)

ProcRow ==
    [init : {"none", "busy", "disabled", "done"}, keys : {0, Last},
     stop : {"none", "remove", "workers", "queues", "done"},
     next : 1 .. Last + 1, removed : 0 .. Last]

\* The n-th job's interval, and a job's entry of Redis.
Interval(n) == [job |-> JobSeq[n], seq |-> n]
Entry(n) == [job |-> JobSeq[n], spec |-> "cron"]

Typed ==
    /\ proc \in [Procs -> ProcRow]
    /\ intervals \in [Procs -> SUBSET {Interval(n) : n \in 1 .. Last}]
    /\ seq \in [Procs -> Nat]
    /\ queues \in [Procs -> SUBSET Jobs] /\ workers \in [Procs -> SUBSET Jobs]
    /\ redis \subseteq {Entry(n) : n \in 1 .. Last}

\* Each driver keeps to its own variables.
DriverApart == IF Memory THEN redis = {} ELSE \A p \in Procs : intervals[p] = {}

\* How far a process has come, and what its locals say of it.
Stages(p) ==
    LET c == proc[p]
    IN  /\ c.stop # "none" => c.init # "none"
        /\ c.stop = "remove" => c.init = "done" /\ c.keys = Last
        /\ c.removed > 0 => c.init = "done" /\ c.stop # "none"
        /\ c.init = "none" => intervals[p] = {} /\ seq[p] = 0
        /\ c.init # "done" => c.keys = 0
        /\ Memory /\ c.init = "busy" => c.stop = "none"
        /\ c.init \in {"none", "disabled"} => c.next = 1
        /\ c.init = "done" /\ c.stop = "none" => c.next = 1 /\ c.keys = Last

\* What has been scheduled, while nothing has been told to stop.
Begun(p) ==
    LET c == proc[p]
        upTo == IF c.init = "done" THEN Last ELSE c.next - 1
    IN  c.stop = "none" =>
        /\ Memory => seq[p] = upTo /\ intervals[p] = {Interval(n) : n \in 1 .. upTo}
        /\ ~Memory => /\ workers[p] = queues[p]
                      /\ c.init # "none" =>
                            \A n \in 1 .. upTo : Entry(n) \in redis /\ JobSeq[n] \in workers[p]

\* What a stop has removed, if it has removed every key so far.
Undone(p) ==
    LET c == proc[p]
    IN  /\ c.stop = "remove" =>
              /\ c.removed < c.next
              /\ c.removed = c.next - 1 => redis \subseteq {Entry(n) : n \in c.next .. Last}
        /\ c.stop \in {"workers", "queues", "done"} /\ c.removed = Last => redis = {}

JobsInv == Typed /\ DriverApart /\ \A p \in Procs : Stages(p) /\ Begun(p) /\ Undone(p)

LEMMA JobSeqFacts ==
    /\ Last \in Nat /\ DOMAIN JobSeq = 1 .. Last
    /\ Jobs = {JobSeq[n] : n \in 1 .. Last}
    /\ \A n, k \in 1 .. Last : JobSeq[n] = JobSeq[k] => n = k
BY ConstantsAssumption DEF Jobs, Last

LEMMA JobsInitHolds == Init => JobsInv
<1> SUFFICES ASSUME Init PROVE JobsInv
    OBVIOUS
<1>1. Down \in ProcRow
      BY JobSeqFacts DEF Down, ProcRow
<1>2. Typed
      BY <1>1 DEF Init, Typed
<1>3. DriverApart
      BY DEF Init, DriverApart
<1>4. ASSUME NEW p \in Procs PROVE Stages(p) /\ Begun(p) /\ Undone(p)
      BY <1>4, JobSeqFacts DEF Init, Down, Stages, Begun, Undone
<1> QED BY <1>2, <1>3, <1>4 DEF JobsInv

\* A started process has every job on schedule, once.
LEMMA InvSchedules == JobsInv => RunningIsScheduled
<1> SUFFICES ASSUME JobsInv, NEW p \in Procs, Ready(p), NEW job \in Jobs
             PROVE  /\ OnSchedule(p, job)
                    /\ Cardinality({i \in intervals[p] : i.job = job})
                       + Cardinality({e \in redis : e.job = job}) = 1
    BY DEF RunningIsScheduled
<1>1. PICK n \in 1 .. Last : job = JobSeq[n]
      BY JobSeqFacts
<1>2. Cardinality({}) = 0 /\ Cardinality({Interval(n)}) = 1 /\ Cardinality({Entry(n)}) = 1
      BY FS_EmptySet, FS_Singleton
<1>3. CASE Memory
  <2>1. redis = {} /\ intervals[p] = {Interval(k) : k \in 1 .. Last}
        BY <1>3 DEF JobsInv, DriverApart, Begun, Ready
  <2>2. Interval(n) \in intervals[p] /\ Interval(n).job = job
        BY <1>1, <2>1 DEF Interval
  <2>3. {i \in intervals[p] : i.job = job} = {Interval(n)}
        BY <1>1, <2>1, <2>2, JobSeqFacts DEF Interval
  <2>4. {e \in redis : e.job = job} = {}
        BY <2>1
  <2>5. OnSchedule(p, job)
        BY <1>3, <2>2 DEF OnSchedule
  <2>6. Cardinality({i \in intervals[p] : i.job = job}) = 1
        BY <1>2, <2>3
  <2>7. Cardinality({e \in redis : e.job = job}) = 0
        BY <1>2, <2>4
  <2> QED BY <2>5, <2>6, <2>7
<1>4. CASE ~Memory
  <2>1. intervals[p] = {} /\ Entry(n) \in redis /\ JobSeq[n] \in workers[p]
        BY <1>4 DEF JobsInv, DriverApart, Begun, Ready
  <2>2. \A e \in redis : \E k \in 1 .. Last : e = Entry(k)
        BY DEF JobsInv, Typed
  <2>3. Entry(n).job = job
        BY <1>1 DEF Entry
  <2>4. {e \in redis : e.job = job} = {Entry(n)}
        BY <1>1, <2>1, <2>2, <2>3, JobSeqFacts DEF Entry
  <2>5. {i \in intervals[p] : i.job = job} = {}
        BY <2>1
  <2>6. OnSchedule(p, job)
        BY <1>1, <1>4, <2>1, <2>3 DEF OnSchedule
  <2>7. Cardinality({e \in redis : e.job = job}) = 1
        BY <1>2, <2>4
  <2>8. Cardinality({i \in intervals[p] : i.job = job}) = 0
        BY <1>2, <2>5
  <2> QED BY <2>6, <2>7, <2>8
<1> QED BY <1>3, <1>4

-----------------------------------------------------------------------------
(* The steps.  With one process, what holds of the one that moves holds of all. *)

LEMMA OneMoves ==
    ASSUME OneProcess, NEW p \in Procs, Typed', DriverApart',
           Stages(p)', Begun(p)', Undone(p)'
    PROVE  JobsInv'
BY DEF OneProcess, JobsInv

\* A step that only moves the process on.
LEMMA ProcMoves ==
    ASSUME OneProcess, JobsInv, NEW p \in Procs, NEW x \in ProcRow,
           proc' = [proc EXCEPT ![p] = x], UNCHANGED <<driver, queueVars>>
    PROVE  /\ Typed' /\ DriverApart' /\ proc'[p] = x
           /\ intervals'[p] = intervals[p] /\ seq'[p] = seq[p] /\ queues'[p] = queues[p]
           /\ workers'[p] = workers[p] /\ redis' = redis /\ (Memory' <=> Memory)
BY DEF JobsInv, Typed, DriverApart, queueVars, Memory

\* Everything of a process goes with it.
LEMMA GoneHolds ==
    ASSUME OneProcess, JobsInv, NEW p \in Procs, Gone(p)
    PROVE  JobsInv'
<1>1. Down \in ProcRow
      BY JobSeqFacts DEF Down, ProcRow
<1>2. /\ proc' = [proc EXCEPT ![p] = Down] /\ intervals' = [intervals EXCEPT ![p] = {}]
      /\ seq' = [seq EXCEPT ![p] = 0] /\ queues' = [queues EXCEPT ![p] = {}]
      /\ workers' = [workers EXCEPT ![p] = {}] /\ UNCHANGED <<driver, redis>>
      BY DEF Gone, FreshSeq
<1>3. /\ proc'[p] = Down /\ intervals'[p] = {} /\ seq'[p] = 0 /\ queues'[p] = {} /\ workers'[p] = {}
      BY <1>2 DEF JobsInv, Typed
<1>4. Typed'
      BY <1>1, <1>2 DEF JobsInv, Typed
<1>5. DriverApart'
      BY <1>2 DEF JobsInv, DriverApart, Memory, Typed
<1>6. Stages(p)' /\ Undone(p)'
      BY <1>3 DEF Stages, Undone, Down
<1>7. Begun(p)'
      BY <1>3, JobSeqFacts DEF Begun, Down
<1> QED BY <1>4, <1>5, <1>6, <1>7, OneMoves

LEMMA JobsStep ==
    ASSUME OneProcess, JobsInv, NEW p \in Procs,
           \/ Boot(p) \/ ScheduleNext(p) \/ Scheduled(p) \/ Crash(p) \/ Stop(p) \/ RemoveNext(p)
           \/ Removed(p) \/ CloseQueues(p) \/ Closed(p) \/ Exit(p)
           \/ \E job \in Jobs : \/ Enqueue(p, job) \/ CloseWorker(p, job)
                                \/ Fire(p, job) \/ FireOnce(p, job) \/ RunEnds(p, job)
    PROVE  JobsInv'
<1>0. Typed /\ DriverApart /\ Stages(p) /\ Begun(p) /\ Undone(p) /\ proc[p] \in ProcRow /\ Last \in Nat
      BY JobSeqFacts DEF JobsInv, Typed
<1>1. CASE Boot(p)
  <2>1. PICK how \in {"busy", "disabled"} :
            proc' = [proc EXCEPT ![p] = [Down EXCEPT !.init = how]]
        BY <1>1 DEF Boot
  <2> DEFINE x == [Down EXCEPT !.init = how]
  <2>2. /\ x \in ProcRow /\ x.init = how /\ x.keys = 0 /\ x.stop = "none" /\ x.next = 1 /\ x.removed = 0
        BY <1>0 DEF Down, ProcRow
  <2>3. proc' = [proc EXCEPT ![p] = x]
        BY <2>1
  <2> HIDE DEF x
  <2>4. UNCHANGED <<driver, queueVars>> /\ proc[p].init = "none" /\ proc[p].stop = "none"
        BY <1>0, <1>1 DEF Boot, Alive, Stages
  <2>5. /\ Typed' /\ DriverApart' /\ proc'[p] = x
        /\ intervals'[p] = intervals[p] /\ seq'[p] = seq[p] /\ queues'[p] = queues[p]
        /\ workers'[p] = workers[p] /\ redis' = redis /\ (Memory' <=> Memory)
        BY <2>2, <2>3, <2>4, ProcMoves
  <2>6. Stages(p)' /\ Undone(p)'
        BY <2>2, <2>5 DEF Stages, Undone
  <2>7. Begun(p)'
        BY <1>0, <2>2, <2>4, <2>5 DEF Begun, Stages
  <2> QED BY <2>5, <2>6, <2>7, OneMoves
<1>2. CASE ScheduleNext(p)
  <2> DEFINE k == proc[p].next
             x == [proc[p] EXCEPT !.next = k + 1]
  <2>1. /\ proc[p].init = "busy" /\ k \in 1 .. Last
        /\ Repeat(p, JobSeq[k]) /\ driver' = driver /\ proc' = [proc EXCEPT ![p].next = @ + 1]
        BY <1>0, <1>2 DEF ScheduleNext, ProcRow, Last
  <2>2. /\ x \in ProcRow /\ x.init = "busy" /\ x.keys = proc[p].keys /\ x.stop = proc[p].stop
        /\ x.next = k + 1 /\ x.removed = proc[p].removed
        BY <1>0, <2>1 DEF ProcRow
  <2>3. proc' \in [Procs -> ProcRow] /\ proc'[p] = x
        BY <1>0, <2>1, <2>2 DEF Typed
  <2>4. x.removed = 0 /\ x.keys = 0 /\ Last # 0
        BY <1>0, <2>1, <2>2 DEF Stages, ProcRow
  <2>5. JobSeq[k] \in Jobs
        BY <2>1, JobSeqFacts
  <2> HIDE DEF x
  <2>6. Stages(p)'
        BY <1>0, <2>1, <2>2, <2>3, <2>4 DEF Stages, Memory
  <2>7. Undone(p)'
        BY <1>0, <2>1, <2>2, <2>3, <2>4 DEF Undone, Stages
  <2>8. CASE Memory
    <3>1. /\ seq' = [seq EXCEPT ![p] = @ + 1]
          /\ intervals' = [intervals EXCEPT ![p] = @ \cup {[job |-> JobSeq[k], seq |-> seq[p] + 1]}]
          /\ UNCHANGED <<queues, workers, redis>>
          BY <2>1, <2>8 DEF Repeat
    <3>2. proc[p].stop = "none" => seq[p] = k - 1 /\ intervals[p] = {Interval(n) : n \in 1 .. k - 1}
          BY <1>0, <2>1, <2>8 DEF Begun
    <3>3. redis = {}
          BY <1>0, <2>8 DEF DriverApart
    <3>4. Undone(p)'
          BY <2>7
    <3>5. CASE proc[p].stop = "none"
      <4>1. [job |-> JobSeq[k], seq |-> seq[p] + 1] = Interval(k)
            BY <2>1, <3>2, <3>5 DEF Interval
      <4>2. /\ intervals' = [intervals EXCEPT ![p] = @ \cup {Interval(k)}]
            /\ seq'[p] = k /\ seq' \in [Procs -> Nat]
        <5>1. seq[p] = k - 1 /\ seq'[p] = seq[p] + 1 /\ seq' \in [Procs -> Nat]
              BY <1>0, <3>1, <3>2, <3>5 DEF Typed
        <5>2. intervals' = [intervals EXCEPT ![p] = @ \cup {Interval(k)}]
              BY <3>1, <4>1
        <5> QED BY <2>1, <5>1, <5>2
      <4>3. intervals' \in [Procs -> SUBSET {Interval(n) : n \in 1 .. Last}]
            BY <1>0, <2>1, <4>2 DEF Typed
      <4>4. intervals'[p] = {Interval(n) : n \in 1 .. k - 1} \cup {Interval(k)}
            BY <1>0, <3>2, <3>5, <4>2 DEF Typed
      <4>5. intervals'[p] = {Interval(n) : n \in 1 .. k}
            BY <2>1, <4>4
      <4>6. Typed' /\ DriverApart'
            BY <1>0, <2>1, <2>3, <2>8, <3>1, <3>3, <4>2, <4>3 DEF Typed, DriverApart, Memory
      <4>7. Begun(p)'
            BY <2>1, <2>2, <2>3, <2>8, <4>2, <4>5 DEF Begun, Memory
      <4> QED BY <2>6, <3>4, <4>6, <4>7, OneMoves
    <3>6. proc[p].stop = "none"
          BY <1>0, <2>1, <2>8 DEF Stages
    <3> QED BY <3>5, <3>6
  <2>9. CASE ~Memory
    <3>1. /\ queues' = [queues EXCEPT ![p] = @ \cup {JobSeq[k]}]
          /\ workers' = [workers EXCEPT ![p] = @ \cup ({JobSeq[k]} \ queues[p])]
          /\ redis' = redis \cup {Entry(k)}
          /\ UNCHANGED <<intervals, seq>>
          BY <2>1, <2>9 DEF Repeat, GetQueue, NewWorkers, RepeatSpec, Entry
    <3>2. Typed'
          BY <1>0, <2>1, <2>3, <2>5, <3>1 DEF Typed
    <3>3. DriverApart'
          BY <1>0, <2>1, <2>9, <3>1 DEF DriverApart, Memory
    <3>4. Begun(p)'
      <4>1. queues'[p] = queues[p] \cup {JobSeq[k]} /\ workers'[p] = workers[p] \cup ({JobSeq[k]} \ queues[p])
            BY <1>0, <3>1 DEF Typed
      <4>2. SUFFICES ASSUME proc[p].stop = "none"
                     PROVE  /\ workers'[p] = queues'[p]
                            /\ \A n \in 1 .. k : Entry(n) \in redis' /\ JobSeq[n] \in workers'[p]
            BY <2>1, <2>2, <2>3, <2>9 DEF Begun, Memory
      <4>3. /\ workers[p] = queues[p]
            /\ \A n \in 1 .. k - 1 : Entry(n) \in redis /\ JobSeq[n] \in workers[p]
            BY <1>0, <2>1, <2>9, <4>2 DEF Begun
      <4>4. workers'[p] = queues'[p] /\ JobSeq[k] \in workers'[p] /\ Entry(k) \in redis'
            BY <3>1, <4>1, <4>3
      <4>5. ASSUME NEW n \in 1 .. k PROVE Entry(n) \in redis' /\ JobSeq[n] \in workers'[p]
        <5>1. n = k \/ n \in 1 .. k - 1
              BY <2>1
        <5> QED BY <3>1, <4>1, <4>3, <4>4, <5>1
      <4> QED BY <4>4, <4>5
    <3> QED BY <2>6, <2>7, <3>2, <3>3, <3>4, OneMoves
  <2> QED BY <2>8, <2>9
<1>3. CASE Scheduled(p)
  <2> DEFINE y == [proc[p] EXCEPT !.init = "done"]
             z == [y EXCEPT !.keys = Last]
             x == [z EXCEPT !.next = 1]
  <2>1. /\ x \in ProcRow /\ x.init = "done" /\ x.keys = Last /\ x.stop = proc[p].stop /\ x.next = 1
        /\ x.removed = proc[p].removed
    <3>1. y \in ProcRow /\ y.init = "done" /\ y.stop = proc[p].stop /\ y.removed = proc[p].removed
          BY <1>0 DEF ProcRow
    <3> HIDE DEF y
    <3>2. /\ z \in ProcRow /\ z.init = "done" /\ z.stop = proc[p].stop /\ z.removed = proc[p].removed
          /\ z.keys = Last
          BY <3>1 DEF ProcRow
    <3> HIDE DEF z
    <3> QED BY <1>0, <3>2 DEF ProcRow
  <2>2. proc' = [proc EXCEPT ![p] = x]
        BY <1>0, <1>3 DEF Scheduled, Typed, Last
  <2> HIDE DEF x
  <2>3. UNCHANGED <<driver, queueVars>> /\ proc[p].init = "busy" /\ proc[p].next > Last
        BY <1>3 DEF Scheduled, Last
  <2>4. proc[p].next - 1 = Last /\ proc[p].removed = 0
        BY <1>0, <2>3 DEF ProcRow, Stages
  <2>5. /\ Typed' /\ DriverApart' /\ proc'[p] = x
        /\ intervals'[p] = intervals[p] /\ seq'[p] = seq[p] /\ queues'[p] = queues[p]
        /\ workers'[p] = workers[p] /\ redis' = redis /\ (Memory' <=> Memory)
        BY <2>1, <2>2, <2>3, ProcMoves
  <2>6. Stages(p)'
        BY <1>0, <2>1, <2>3, <2>4, <2>5 DEF Stages
  <2>7. Undone(p)'
        BY <1>0, <2>1, <2>3, <2>4, <2>5 DEF Undone, Stages
  <2>8. Begun(p)'
        BY <1>0, <2>1, <2>3, <2>4, <2>5 DEF Begun
  <2> QED BY <2>5, <2>6, <2>7, <2>8, OneMoves
<1>4. CASE Crash(p) \/ Exit(p)
      BY <1>4, GoneHolds DEF Crash, Exit
<1>5. CASE Stop(p)
  <2> DEFINE x == [proc[p] EXCEPT !.stop = IF proc[p].keys > 0 THEN "remove" ELSE "workers"]
  <2>1. /\ x \in ProcRow /\ x.init = proc[p].init /\ x.keys = proc[p].keys /\ x.next = proc[p].next
        /\ x.stop = (IF proc[p].keys > 0 THEN "remove" ELSE "workers") /\ x.removed = proc[p].removed
        BY <1>0 DEF ProcRow
  <2>2. /\ proc' = [proc EXCEPT ![p] = x] /\ proc[p].stop = "none" /\ proc[p].init # "none"
        /\ Memory => proc[p].init # "busy"
        BY <1>0, <1>5 DEF Stop, Typed, Alive
  <2> HIDE DEF x
  <2>3. UNCHANGED <<driver, queueVars>>
        BY <1>5 DEF Stop
  <2>4. /\ Typed' /\ DriverApart' /\ proc'[p] = x
        /\ intervals'[p] = intervals[p] /\ seq'[p] = seq[p] /\ queues'[p] = queues[p]
        /\ workers'[p] = workers[p] /\ redis' = redis /\ (Memory' <=> Memory)
        BY <2>1, <2>2, <2>3, ProcMoves
  <2>5. Stages(p)'
        BY <1>0, <2>1, <2>2, <2>4 DEF Stages, ProcRow
  <2>6. Begun(p)'
        BY <2>1, <2>4 DEF Begun
  <2>7. proc[p].removed = 0 /\ redis \subseteq {Entry(n) : n \in 1 .. Last}
        BY <1>0, <2>2 DEF Stages, ProcRow, Typed
  <2>8. Undone(p)'
    <3>1. CASE proc[p].keys > 0
          BY <1>0, <2>1, <2>2, <2>4, <2>7, <3>1 DEF Undone, Stages, ProcRow
    <3>2. CASE ~(proc[p].keys > 0)
      <4>1. Last = 0 => redis = {}
            BY <1>0, <2>7
      <4> QED BY <1>0, <2>1, <2>4, <2>7, <3>2, <4>1 DEF Undone
    <3> QED BY <3>1, <3>2
  <2> QED BY <2>4, <2>5, <2>6, <2>8, OneMoves
<1>6. CASE RemoveNext(p)
  <2> DEFINE k == proc[p].next
             y == [proc[p] EXCEPT !.next = k + 1]
             z == [y EXCEPT !.removed = proc[p].removed + 1]
  <2>1. /\ proc[p].stop = "remove" /\ proc[p].init = "done" /\ proc[p].keys = Last
        /\ k \in 1 .. Last /\ proc[p].removed \in 0 .. k - 1 /\ driver' = driver
        BY <1>0, <1>6 DEF RemoveNext, Stages, Undone, ProcRow
  <2>2. /\ y \in ProcRow /\ y.init = "done" /\ y.keys = Last /\ y.stop = "remove" /\ y.next = k + 1
        /\ y.removed = proc[p].removed
        BY <1>0, <2>1 DEF ProcRow
  <2>3. \/ /\ RemoveRepeatable(p, k) /\ proc' = [proc EXCEPT ![p] = z]
        \/ /\ UNCHANGED queueVars /\ proc' = [proc EXCEPT ![p] = y]
        BY <1>0, <1>6 DEF RemoveNext, Typed
  <2> HIDE DEF y
  <2>4. /\ z \in ProcRow /\ z.init = "done" /\ z.keys = Last /\ z.stop = "remove" /\ z.next = k + 1
        /\ z.removed = proc[p].removed + 1
        BY <1>0, <2>1, <2>2 DEF ProcRow
  <2> HIDE DEF z
  <2>5. CASE UNCHANGED queueVars /\ proc' = [proc EXCEPT ![p] = y]
    <3>1. Typed' /\ DriverApart' /\ proc'[p] = y /\ (Memory' <=> Memory)
          BY <2>1, <2>2, <2>5, ProcMoves
    <3>2. Stages(p)' /\ Begun(p)' /\ Undone(p)'
          BY <2>1, <2>2, <3>1 DEF Stages, Begun, Undone
    <3> QED BY <3>1, <3>2, OneMoves
  <2>6. CASE RemoveRepeatable(p, k) /\ proc' = [proc EXCEPT ![p] = z]
    <3>1. proc' \in [Procs -> ProcRow] /\ proc'[p] = z
          BY <1>0, <2>4, <2>6 DEF Typed
    <3>2. /\ \/ UNCHANGED <<queues, workers>>
             \/ /\ queues' = [queues EXCEPT ![p] = @ \cup {JobSeq[k]}]
                /\ workers' = [workers EXCEPT ![p] = @ \cup ({JobSeq[k]} \ queues[p])]
          /\ seq' = seq
          /\ \/ Memory /\ redis' = redis
                /\ intervals' = [intervals EXCEPT ![p] = @ \ {[job |-> JobSeq[k], seq |-> k]}]
             \/ ~Memory /\ intervals' = intervals /\ redis' = redis \ {Entry(k)}
          BY <2>6 DEF RemoveRepeatable, GetQueue, NewWorkers, RemovedEntry, RepeatSpec, Entry
    <3>3. JobSeq[k] \in Jobs
          BY <2>1, JobSeqFacts
    <3>4. /\ queues' \in [Procs -> SUBSET Jobs] /\ workers' \in [Procs -> SUBSET Jobs]
          BY <1>0, <3>2, <3>3 DEF Typed
    <3>5. intervals' \in [Procs -> SUBSET {Interval(n) : n \in 1 .. Last}]
          BY <1>0, <3>2 DEF Typed
    <3>6. Typed' /\ DriverApart'
          BY <1>0, <2>1, <3>1, <3>2, <3>4, <3>5 DEF Typed, DriverApart, Memory
    <3>7. Stages(p)' /\ Begun(p)'
          BY <2>1, <2>4, <3>1 DEF Stages, Begun
    <3>8. Undone(p)'
      <4>1. SUFFICES ASSUME proc[p].removed = k - 1
                     PROVE  redis' \subseteq {Entry(n) : n \in k + 1 .. Last}
            BY <2>1, <2>4, <3>1 DEF Undone
      <4>2. redis \subseteq {Entry(n) : n \in k .. Last}
            BY <1>0, <2>1, <4>1 DEF Undone
      <4>3. CASE Memory
            BY <1>0, <3>2, <4>3 DEF DriverApart
      <4>4. CASE ~Memory
        <5>1. redis' = redis \ {Entry(k)}
              BY <3>2, <4>4
        <5>2. ASSUME NEW e \in redis' PROVE \E n \in k + 1 .. Last : e = Entry(n)
          <6>1. PICK n \in k .. Last : e = Entry(n)
                BY <4>2, <5>1
          <6>2. n # k
                BY <5>1, <6>1
          <6> QED BY <2>1, <6>1, <6>2
        <5> QED BY <5>2
      <4> QED BY <4>3, <4>4
    <3> QED BY <3>6, <3>7, <3>8, OneMoves
  <2> QED BY <2>3, <2>5, <2>6
<1>7. CASE Removed(p)
  <2> DEFINE x == [proc[p] EXCEPT !.stop = "workers"]
  <2>1. /\ x \in ProcRow /\ x.init = proc[p].init /\ x.keys = proc[p].keys /\ x.next = proc[p].next
        /\ x.stop = "workers" /\ x.removed = proc[p].removed
        BY <1>0 DEF ProcRow
  <2>2. proc' = [proc EXCEPT ![p] = x] /\ proc[p].stop = "remove" /\ proc[p].next > proc[p].keys
        BY <1>0, <1>7 DEF Removed, Typed
  <2> HIDE DEF x
  <2>3. UNCHANGED <<driver, queueVars>>
        BY <1>7 DEF Removed
  <2>4. /\ Typed' /\ DriverApart' /\ proc'[p] = x
        /\ intervals'[p] = intervals[p] /\ seq'[p] = seq[p] /\ queues'[p] = queues[p]
        /\ workers'[p] = workers[p] /\ redis' = redis /\ (Memory' <=> Memory)
        BY <2>1, <2>2, <2>3, ProcMoves
  <2>5. Stages(p)' /\ Begun(p)'
        BY <1>0, <2>1, <2>2, <2>4 DEF Stages, Begun
  <2>6. Undone(p)'
    <3>1. proc[p].next = Last + 1
          BY <1>0, <2>2 DEF Stages, ProcRow
    <3>2. proc[p].removed = Last => redis \subseteq {Entry(n) : n \in Last + 1 .. Last}
          BY <1>0, <2>2, <3>1 DEF Undone
    <3>3. proc[p].removed = Last => redis = {}
          BY <1>0, <3>2
    <3> QED BY <2>1, <2>4, <3>3 DEF Undone
  <2> QED BY <2>4, <2>5, <2>6, OneMoves
<1>8. CASE CloseQueues(p)
  <2> DEFINE x == [proc[p] EXCEPT !.stop = "queues"]
  <2>1. /\ x \in ProcRow /\ x.init = proc[p].init /\ x.keys = proc[p].keys /\ x.next = proc[p].next
        /\ x.stop = "queues" /\ x.removed = proc[p].removed
        BY <1>0 DEF ProcRow
  <2>2. proc' = [proc EXCEPT ![p] = x] /\ proc[p].stop = "workers"
        BY <1>0, <1>8 DEF CloseQueues, Typed
  <2> HIDE DEF x
  <2>3. UNCHANGED <<driver, queueVars>>
        BY <1>8 DEF CloseQueues
  <2>4. /\ Typed' /\ DriverApart' /\ proc'[p] = x
        /\ intervals'[p] = intervals[p] /\ seq'[p] = seq[p] /\ queues'[p] = queues[p]
        /\ workers'[p] = workers[p] /\ redis' = redis /\ (Memory' <=> Memory)
        BY <2>1, <2>2, <2>3, ProcMoves
  <2>5. Stages(p)' /\ Begun(p)' /\ Undone(p)'
        BY <1>0, <2>1, <2>2, <2>4 DEF Stages, Begun, Undone
  <2> QED BY <2>4, <2>5, OneMoves
<1>9. CASE Closed(p)
  <2> DEFINE x == [proc[p] EXCEPT !.stop = "done"]
  <2>1. /\ x \in ProcRow /\ x.init = proc[p].init /\ x.keys = proc[p].keys /\ x.next = proc[p].next
        /\ x.stop = "done" /\ x.removed = proc[p].removed
        BY <1>0 DEF ProcRow
  <2>2. /\ proc' = [proc EXCEPT ![p] = x] /\ proc[p].stop \in {"workers", "queues"}
        /\ intervals' \in {intervals, [intervals EXCEPT ![p] = {}]}
        /\ queues' \in {queues, [queues EXCEPT ![p] = {}]}
        /\ UNCHANGED <<driver, seq, workers, redis>>
        BY <1>0, <1>9 DEF Closed, Typed
  <2> HIDE DEF x
  <2>3. proc' \in [Procs -> ProcRow] /\ proc'[p] = x
        BY <1>0, <2>1, <2>2 DEF Typed
  <2>4. Typed' /\ DriverApart'
        BY <1>0, <2>2, <2>3 DEF Typed, DriverApart, Memory
  <2>5. Stages(p)' /\ Begun(p)' /\ Undone(p)'
        BY <1>0, <2>1, <2>2, <2>3 DEF Stages, Begun, Undone, Typed, Memory
  <2> QED BY <2>4, <2>5, OneMoves
<1>10. ASSUME NEW job \in Jobs, Enqueue(p, job) PROVE JobsInv'
  <2>1. \/ queues' = queues /\ workers' = workers
        \/ /\ queues' = [queues EXCEPT ![p] = @ \cup {job}]
           /\ workers' = [workers EXCEPT ![p] = @ \cup ({job} \ queues[p])]
        BY <1>10 DEF Enqueue, GetQueue, NewWorkers
  <2>2. UNCHANGED <<driver, proc, intervals, seq, redis>>
        BY <1>10 DEF Enqueue
  <2>3. Typed' /\ DriverApart'
        BY <1>0, <1>10, <2>1, <2>2 DEF Typed, DriverApart, Memory
  <2>4. Stages(p)' /\ Undone(p)'
        BY <1>0, <2>2 DEF Stages, Undone, Memory
  <2>5. /\ workers[p] \subseteq workers'[p]
        /\ workers[p] = queues[p] => workers'[p] = queues'[p]
        BY <1>0, <2>1 DEF Typed
  <2>6. Begun(p)'
        BY <1>0, <2>2, <2>5 DEF Begun, Memory
  <2> QED BY <2>3, <2>4, <2>6, OneMoves
<1>11. ASSUME NEW job \in Jobs, CloseWorker(p, job) PROVE JobsInv'
  <2>1. /\ proc[p].stop = "workers" /\ workers' = [workers EXCEPT ![p] = @ \ {job}]
        /\ UNCHANGED <<driver, proc, intervals, seq, queues, redis>>
        BY <1>11 DEF CloseWorker
  <2>2. Typed' /\ DriverApart'
        BY <1>0, <2>1 DEF Typed, DriverApart, Memory
  <2>3. Stages(p)' /\ Undone(p)' /\ Begun(p)'
        BY <1>0, <2>1 DEF Stages, Undone, Begun, Memory
  <2> QED BY <2>2, <2>3, OneMoves
<1>12. ASSUME NEW job \in Jobs, Fire(p, job) \/ FireOnce(p, job) \/ RunEnds(p, job) PROVE JobsInv'
  <2>1. UNCHANGED <<driver, proc, intervals, seq, queues, workers, redis>>
        BY <1>12 DEF Fire, FireOnce, RunEnds, queueVars
  <2>2. Typed' /\ DriverApart'
        BY <1>0, <2>1 DEF Typed, DriverApart, Memory
  <2>3. Stages(p)' /\ Undone(p)' /\ Begun(p)'
        BY <1>0, <2>1 DEF Stages, Undone, Begun, Memory
  <2> QED BY <2>2, <2>3, OneMoves
<1> QED BY <1>1, <1>2, <1>3, <1>4, <1>5, <1>6, <1>7, <1>8, <1>9, <1>10, <1>11, <1>12

LEMMA JobsInvNext == OneProcess /\ JobsInv /\ [Next]_vars => JobsInv'
<1> SUFFICES ASSUME OneProcess, JobsInv, [Next]_vars PROVE JobsInv'
    OBVIOUS
<1>1. CASE Next
      BY <1>1, JobsStep DEF Next
<1>2. CASE UNCHANGED vars
      BY <1>2 DEF vars, JobsInv, Typed, DriverApart, Stages, Begun, Undone, Memory
<1> QED BY <1>1, <1>2

\* A stop that removed all its keys leaves none.
StopIsClean ==
    \A p \in Procs : Closed(p) /\ proc[p].removed = Len(JobSeq) => redis' = {} /\ intervals'[p] = {}

LEMMA CleanStep == JobsInv /\ [Next]_vars => [StopIsClean]_vars
<1> SUFFICES ASSUME JobsInv, NEW p \in Procs, Closed(p), proc[p].removed = Last
             PROVE  redis' = {} /\ intervals'[p] = {}
    BY DEF StopIsClean, Last
<1>1. redis' = redis /\ proc[p].stop \in {"workers", "queues"}
      BY DEF Closed
<1>2. redis = {}
      BY <1>1 DEF JobsInv, Undone
<1>3. intervals'[p] = {}
      BY DEF Closed, JobsInv, DriverApart, Typed
<1> QED BY <1>1, <1>2, <1>3

-----------------------------------------------------------------------------
\* scheduler.service.ts onModuleInit: with one process at a time, whatever crashes,
\* fails to start or is stopped before, a started process has each job on schedule,
\* exactly once, although Redis keeps what earlier processes left in it.
THEOREM StartedIsScheduled == OneProcess /\ Spec => []RunningIsScheduled
<1> SUFFICES ASSUME OneProcess PROVE Spec => []RunningIsScheduled
    OBVIOUS
<1>1. JobsInv /\ [Next]_vars => JobsInv'
      BY JobsInvNext
<1> QED BY <1>1, JobsInitHolds, InvSchedules, PTL DEF Spec

\* scheduler.service.ts onModuleDestroy: with one process at a time, a stop that
\* removed all its keys leaves no schedule in the process or in Redis.
THEOREM StopsAreClean == OneProcess /\ Spec => StopLeavesNoSchedule
<1> SUFFICES ASSUME OneProcess PROVE Spec => StopLeavesNoSchedule
    OBVIOUS
<1>1. JobsInv /\ [Next]_vars => JobsInv'
      BY JobsInvNext
<1>2. Spec => [][StopIsClean]_vars
      BY <1>1, JobsInitHolds, CleanStep, PTL DEF Spec
<1> QED BY <1>2 DEF StopLeavesNoSchedule, StopIsClean
-----------------------------------------------------------------------------
(* The types, for any number of processes side by side.  The numbers are what   *)
(* takes an argument: the loop of onModuleInit numbers its intervals no further *)
(* than there are jobs, and the loop of onModuleDestroy runs over kept keys.    *)

Timers == [job : Jobs, seq : 1 .. Last]
Entries == [job : Jobs, spec : {"cron", "every"}]

\* How the locals of a process and the number of its last interval go together.
Numbered(c, n) ==
    /\ c.init = "none" => c.stop = "none" /\ n = 0
    /\ c.init = "busy" => n < c.next
    /\ c.init # "done" => c.keys = 0
    /\ c.stop = "none" => c.removed = 0
    /\ c.stop = "none" /\ c.keys > 0 => c.next = 1
    /\ c.stop = "remove" => c.init = "done" /\ c.removed < c.next

RowsInv ==
    /\ proc \in [Procs -> ProcRow] /\ seq \in [Procs -> 0 .. Last]
    /\ \A p \in Procs : Numbered(proc[p], seq[p])

QueuesInv ==
    /\ intervals \in [Procs -> SUBSET Timers]
    /\ queues \in [Procs -> SUBSET Jobs] /\ workers \in [Procs -> SUBSET Jobs]
    /\ redis \subseteq Entries

\* A one-shot job is pending at most as often as it was enqueued.
CountsInv ==
    /\ driver \in Drivers
    /\ timeouts \in [Procs -> [Jobs -> 0 .. shots]] /\ waiting \in [Jobs -> 0 .. shots]
    /\ runs \in [Procs -> [Jobs -> 0 .. MaxRuns]]
    /\ shots \in 0 .. MaxShots /\ crashes \in 0 .. MaxCrashes

TypesInv == RowsInv /\ QueuesInv /\ CountsInv

LEMMA TypesInit == Init => TypesInv
<1> SUFFICES ASSUME Init PROVE TypesInv
    OBVIOUS
<1>1. Down \in ProcRow
      BY JobSeqFacts DEF Down, ProcRow
<1>2. RowsInv
  <2>1. proc \in [Procs -> ProcRow] /\ seq \in [Procs -> 0 .. Last]
        BY <1>1, JobSeqFacts DEF Init
  <2>2. ASSUME NEW p \in Procs PROVE Numbered(proc[p], seq[p])
        BY <2>2 DEF Init, Numbered, Down
  <2> QED BY <2>1, <2>2 DEF RowsInv
<1>3. QueuesInv
      BY DEF Init, QueuesInv
<1>4. CountsInv
      BY ConstantsAssumption DEF Init, CountsInv, NoRuns
<1> QED BY <1>2, <1>3, <1>4 DEF TypesInv

LEMMA TypesGive == TypesInv => TypeOK
<1> SUFFICES ASSUME TypesInv PROVE TypeOK
    OBVIOUS
<1>1. proc \in [Procs -> [init : {"none", "busy", "disabled", "done"}, keys : {0, Len(JobSeq)},
                          stop : {"none", "remove", "workers", "queues", "done"},
                          next : 1 .. Len(JobSeq) + 1, removed : 0 .. Len(JobSeq)]]
      BY DEF TypesInv, RowsInv, ProcRow, Last
<1>2. seq \in [Procs -> 0 .. Len(JobSeq)]
      BY DEF TypesInv, RowsInv, Last
<1>3. /\ \A p \in Procs : intervals[p] \subseteq [job : Jobs, seq : 1 .. Len(JobSeq)]
      /\ queues \in [Procs -> SUBSET Jobs] /\ workers \in [Procs -> SUBSET Jobs]
      /\ redis \subseteq [job : Jobs, spec : {"cron", "every"}]
      BY DEF TypesInv, QueuesInv, Timers, Entries, Last
<1>4. shots \in 0 .. MaxShots /\ MaxShots \in Nat /\ 0 .. shots \subseteq 0 .. MaxShots
      BY ConstantsAssumption DEF TypesInv, CountsInv
<1>5. timeouts \in [Procs -> [Jobs -> 0 .. MaxShots]] /\ waiting \in [Jobs -> 0 .. MaxShots]
      BY <1>4 DEF TypesInv, CountsInv
<1>6. /\ driver \in Drivers /\ runs \in [Procs -> [Jobs -> 0 .. MaxRuns]]
      /\ crashes \in 0 .. MaxCrashes
      BY DEF TypesInv, CountsInv
<1> QED BY <1>1, <1>2, <1>3, <1>4, <1>5, <1>6 DEF TypeOK

\* A process moves on, and perhaps its number: only its own row has to be looked at.
LEMMA RowMoves ==
    ASSUME RowsInv, NEW p \in Procs, NEW x \in ProcRow, NEW n \in 0 .. Last,
           proc' = [proc EXCEPT ![p] = x], seq' = [seq EXCEPT ![p] = n], Numbered(x, n)
    PROVE  RowsInv'
<1>1. proc' \in [Procs -> ProcRow] /\ seq' \in [Procs -> 0 .. Last]
      BY DEF RowsInv
<1>2. ASSUME NEW q \in Procs PROVE Numbered(proc'[q], seq'[q])
  <2>1. CASE q = p
    <3>1. proc'[q] = x /\ seq'[q] = n
          BY <2>1 DEF RowsInv
    <3> QED BY <3>1
  <2>2. CASE q # p
    <3>1. proc'[q] = proc[q] /\ seq'[q] = seq[q]
          BY <2>2 DEF RowsInv
    <3> QED BY <3>1 DEF RowsInv
  <2> QED BY <2>1, <2>2
<1> QED BY <1>1, <1>2 DEF RowsInv

LEMMA SeqStays ==
    ASSUME RowsInv, NEW p \in Procs, UNCHANGED seq
    PROVE  seq' = [seq EXCEPT ![p] = seq[p]] /\ seq[p] \in 0 .. Last
BY DEF RowsInv

Moves(p) ==
    \/ Boot(p) \/ ScheduleNext(p) \/ Scheduled(p) \/ Crash(p) \/ Stop(p) \/ RemoveNext(p)
    \/ Removed(p) \/ CloseQueues(p) \/ Closed(p) \/ Exit(p)
    \/ \E job \in Jobs : \/ Enqueue(p, job) \/ CloseWorker(p, job)
                         \/ Fire(p, job) \/ FireOnce(p, job) \/ RunEnds(p, job)

LEMMA RowsStep ==
    ASSUME RowsInv, NEW p \in Procs, Moves(p)
    PROVE  RowsInv'
<1> DEFINE c == proc[p]
<1>0. /\ c \in ProcRow /\ seq[p] \in 0 .. Last /\ Numbered(c, seq[p]) /\ Last \in Nat
      /\ c.init \in {"none", "busy", "disabled", "done"} /\ c.keys \in {0, Last}
      /\ c.next \in 1 .. Last + 1 /\ c.removed \in 0 .. Last
      BY JobSeqFacts DEF RowsInv, ProcRow
<1>1. CASE Boot(p)
  <2>1. PICK how \in {"busy", "disabled"} :
            proc' = [proc EXCEPT ![p] = [Down EXCEPT !.init = how]]
        BY <1>1 DEF Boot
  <2> DEFINE x == [Down EXCEPT !.init = how]
  <2>2. /\ x \in ProcRow /\ x.init = how /\ x.keys = 0 /\ x.stop = "none" /\ x.next = 1 /\ x.removed = 0
        BY <1>0 DEF Down, ProcRow
  <2>3. UNCHANGED seq /\ c.init = "none"
        BY <1>0, <1>1 DEF Boot, Alive, queueVars
  <2>4. proc' = [proc EXCEPT ![p] = x]
        BY <2>1
  <2> HIDE DEF x
  <2>5. Numbered(x, seq[p])
        BY <1>0, <2>2, <2>3 DEF Numbered
  <2> QED BY <2>2, <2>3, <2>4, <2>5, SeqStays, RowMoves
<1>2. CASE ScheduleNext(p)
  <2> DEFINE x == [c EXCEPT !.next = @ + 1]
  <2>1. /\ c.init = "busy" /\ c.next \in 1 .. Last /\ c.next <= Last
        /\ Repeat(p, JobSeq[c.next])
        BY <1>0, <1>2 DEF ScheduleNext, Last
  <2>2. /\ x \in ProcRow /\ x.init = c.init /\ x.keys = c.keys /\ x.stop = c.stop
        /\ x.next = c.next + 1 /\ x.removed = c.removed
        BY <1>0, <2>1 DEF ProcRow
  <2>3. proc' = [proc EXCEPT ![p] = x]
        BY <1>2 DEF ScheduleNext, RowsInv
  <2> HIDE DEF x
  <2>4. PICK n \in {seq[p], seq[p] + 1} : seq' = [seq EXCEPT ![p] = n]
        BY <2>1, SeqStays DEF Repeat, RowsInv
  <2>5. c.keys = 0 /\ seq[p] < c.next /\ c.stop # "remove"
        BY <1>0, <2>1 DEF Numbered
  <2>6. n \in 0 .. Last /\ n < x.next
        BY <1>0, <2>1, <2>2, <2>4, <2>5
  <2>7. Numbered(x, n)
        BY <1>0, <2>1, <2>2, <2>5, <2>6 DEF Numbered
  <2> QED BY <2>2, <2>3, <2>4, <2>6, <2>7, RowMoves
<1>3. CASE Scheduled(p)
  <2> DEFINE y == [c EXCEPT !.init = "done"]
             z == [y EXCEPT !.keys = Last]
             x == [z EXCEPT !.next = 1]
  <2>1. /\ x \in ProcRow /\ x.init = "done" /\ x.keys = Last /\ x.stop = c.stop /\ x.next = 1
        /\ x.removed = c.removed
    <3>1. y \in ProcRow /\ y.init = "done" /\ y.stop = c.stop /\ y.removed = c.removed
          BY <1>0 DEF ProcRow
    <3> HIDE DEF y
    <3>2. /\ z \in ProcRow /\ z.init = "done" /\ z.stop = c.stop /\ z.removed = c.removed
          /\ z.keys = Last
          BY <3>1 DEF ProcRow
    <3> HIDE DEF z
    <3> QED BY <1>0, <3>2 DEF ProcRow
  <2>2. proc' = [proc EXCEPT ![p] = x]
        BY <1>0, <1>3 DEF Scheduled, RowsInv, Last
  <2> HIDE DEF x
  <2>3. UNCHANGED seq /\ c.init = "busy"
        BY <1>3 DEF Scheduled, queueVars
  <2>4. Numbered(x, seq[p])
        BY <1>0, <2>1, <2>3 DEF Numbered
  <2> QED BY <2>1, <2>2, <2>3, <2>4, SeqStays, RowMoves
<1>4. CASE Crash(p) \/ Exit(p)
  <2>1. proc' = [proc EXCEPT ![p] = Down] /\ seq' = [seq EXCEPT ![p] = 0]
        BY <1>4 DEF Crash, Exit, Gone, FreshSeq
  <2>2. Down \in ProcRow /\ Numbered(Down, 0) /\ 0 \in 0 .. Last
        BY <1>0 DEF Down, ProcRow, Numbered
  <2> QED BY <2>1, <2>2, RowMoves
<1>5. CASE Stop(p)
  <2> DEFINE x == [c EXCEPT !.stop = IF c.keys > 0 THEN "remove" ELSE "workers"]
  <2>1. /\ x \in ProcRow /\ x.init = c.init /\ x.keys = c.keys /\ x.next = c.next
        /\ x.stop = (IF c.keys > 0 THEN "remove" ELSE "workers") /\ x.removed = c.removed
        BY <1>0 DEF ProcRow
  <2>2. proc' = [proc EXCEPT ![p] = x] /\ c.stop = "none" /\ c.init # "none" /\ UNCHANGED seq
        BY <1>0, <1>5 DEF Stop, RowsInv, Alive, queueVars
  <2> HIDE DEF x
  <2>3. Numbered(x, seq[p])
        BY <1>0, <2>1, <2>2 DEF Numbered
  <2> QED BY <2>1, <2>2, <2>3, SeqStays, RowMoves
<1>6. CASE RemoveNext(p)
  <2>1. PICK k \in {c.removed, c.removed + 1} :
            proc' = [proc EXCEPT ![p] = [c EXCEPT !.next = c.next + 1, !.removed = k]]
        BY <1>0, <1>6 DEF RemoveNext, RowsInv, ProcRow
  <2>2. c.stop = "remove" /\ c.next <= c.keys /\ UNCHANGED seq
        BY <1>6 DEF RemoveNext, RemoveRepeatable, GetQueue, queueVars
  <2>3. c.init = "done" /\ c.removed < c.next
        BY <1>0, <2>2 DEF Numbered
  <2>4. c.next + 1 \in 1 .. Last + 1 /\ k \in 0 .. Last /\ k < c.next + 1
        BY <1>0, <2>2, <2>3
  <2> DEFINE y == [c EXCEPT !.next = c.next + 1]
             x == [y EXCEPT !.removed = k]
  <2>5. y \in ProcRow /\ y.init = c.init /\ y.keys = c.keys /\ y.stop = c.stop /\ y.next = c.next + 1
        BY <1>0, <2>4 DEF ProcRow
  <2>6. proc' = [proc EXCEPT ![p] = x]
        BY <2>1
  <2> HIDE DEF y
  <2>7. /\ x \in ProcRow /\ x.init = c.init /\ x.keys = c.keys /\ x.stop = c.stop
        /\ x.next = c.next + 1 /\ x.removed = k
        BY <2>4, <2>5 DEF ProcRow
  <2> HIDE DEF x
  <2>8. Numbered(x, seq[p])
        BY <2>2, <2>3, <2>4, <2>7 DEF Numbered
  <2> QED BY <2>2, <2>6, <2>7, <2>8, SeqStays, RowMoves
<1>7. CASE Removed(p) \/ CloseQueues(p) \/ Closed(p)
  <2>1. PICK s \in {"workers", "queues", "done"} :
            proc' = [proc EXCEPT ![p] = [c EXCEPT !.stop = s]]
        BY <1>7 DEF Removed, CloseQueues, Closed
  <2>2. c.stop # "none" /\ UNCHANGED seq
        BY <1>7 DEF Removed, CloseQueues, Closed, queueVars
  <2> DEFINE x == [c EXCEPT !.stop = s]
  <2>3. /\ x \in ProcRow /\ x.init = c.init /\ x.keys = c.keys /\ x.stop = s
        /\ x.next = c.next /\ x.removed = c.removed
        BY <1>0 DEF ProcRow
  <2>4. proc' = [proc EXCEPT ![p] = x]
        BY <2>1
  <2> HIDE DEF x
  <2>5. Numbered(x, seq[p])
        BY <1>0, <2>2, <2>3 DEF Numbered
  <2> QED BY <2>2, <2>3, <2>4, <2>5, SeqStays, RowMoves
<1>8. CASE \E job \in Jobs : \/ Enqueue(p, job) \/ CloseWorker(p, job)
                             \/ Fire(p, job) \/ FireOnce(p, job) \/ RunEnds(p, job)
  <2>1. UNCHANGED <<proc, seq>>
        BY <1>8 DEF Enqueue, CloseWorker, Fire, FireOnce, RunEnds, queueVars
  <2> QED BY <2>1 DEF RowsInv
<1> QED BY <1>1, <1>2, <1>3, <1>4, <1>5, <1>6, <1>7, <1>8 DEF Moves

LEMMA QueuesStep ==
    ASSUME RowsInv, QueuesInv, NEW p \in Procs, Moves(p)
    PROVE  QueuesInv'
<1>0. Last \in Nat /\ \A n \in 1 .. Last : JobSeq[n] \in Jobs
      BY JobSeqFacts
<1>1. ASSUME NEW job \in Jobs, GetQueue(p, job)
      PROVE  queues' \in [Procs -> SUBSET Jobs] /\ workers' \in [Procs -> SUBSET Jobs]
      BY <1>1 DEF GetQueue, NewWorkers, QueuesInv
<1>2. CASE ScheduleNext(p)
  <2> DEFINE k == proc[p].next
  <2>1. k \in 1 .. Last /\ Repeat(p, JobSeq[k]) /\ JobSeq[k] \in Jobs /\ seq[p] \in 0 .. Last
        /\ seq[p] < k
        BY <1>0, <1>2 DEF ScheduleNext, RowsInv, ProcRow, Last, Numbered
  <2> HIDE DEF k
  <2>2. CASE Memory
    <3>1. [job |-> JobSeq[k], seq |-> seq[p] + 1] \in Timers
          BY <1>0, <2>1 DEF Timers
    <3>2. /\ intervals' = [intervals EXCEPT ![p] = @ \cup {[job |-> JobSeq[k], seq |-> seq[p] + 1]}]
          /\ UNCHANGED <<queues, workers, redis>>
          BY <2>1, <2>2 DEF Repeat
    <3> QED BY <3>1, <3>2 DEF QueuesInv
  <2>3. CASE ~Memory
    <3>1. /\ GetQueue(p, JobSeq[k]) /\ UNCHANGED intervals
          /\ redis' = redis \cup {[job |-> JobSeq[k], spec |-> "cron"]}
          BY <2>1, <2>3 DEF Repeat, RepeatSpec
    <3>2. redis' \subseteq Entries
          BY <2>1, <3>1 DEF Entries, QueuesInv
    <3> QED BY <1>1, <2>1, <3>1, <3>2 DEF QueuesInv
  <2> QED BY <2>2, <2>3
<1>3. CASE RemoveNext(p)
  <2> DEFINE k == proc[p].next
  <2>1. CASE UNCHANGED queueVars
        BY <2>1 DEF QueuesInv, queueVars
  <2>2. CASE RemoveRepeatable(p, k)
    <3>1. k \in 1 .. Last /\ JobSeq[k] \in Jobs
          BY <1>0, <1>3 DEF RemoveNext, RowsInv, ProcRow
    <3> HIDE DEF k
    <3>2. CASE Memory
          BY <2>2, <3>2 DEF RemoveRepeatable, QueuesInv
    <3>3. CASE ~Memory
      <4>1. GetQueue(p, JobSeq[k]) /\ UNCHANGED intervals /\ redis' \subseteq redis
            BY <2>2, <3>3 DEF RemoveRepeatable
      <4> QED BY <1>1, <3>1, <4>1 DEF QueuesInv
    <3> QED BY <3>2, <3>3
  <2> QED BY <1>3, <2>1, <2>2 DEF RemoveNext
<1>4. CASE \E job \in Jobs : Enqueue(p, job)
  <2>1. PICK job \in Jobs : Enqueue(p, job)
        BY <1>4
  <2>2. UNCHANGED <<intervals, redis>> /\ (UNCHANGED <<queues, workers>> \/ GetQueue(p, job))
        BY <2>1 DEF Enqueue
  <2> QED BY <1>1, <2>2 DEF QueuesInv
<1>5. CASE Crash(p) \/ Exit(p)
      BY <1>5 DEF Crash, Exit, Gone, QueuesInv
<1>6. CASE Closed(p)
      BY <1>6 DEF Closed, QueuesInv
<1>7. CASE \E job \in Jobs : CloseWorker(p, job)
      BY <1>7 DEF CloseWorker, QueuesInv
<1>8. CASE \/ Boot(p) \/ Scheduled(p) \/ Stop(p) \/ Removed(p) \/ CloseQueues(p)
           \/ \E job \in Jobs : Fire(p, job) \/ FireOnce(p, job) \/ RunEnds(p, job)
  <2>1. UNCHANGED <<intervals, queues, workers, redis>>
        BY <1>8 DEF Boot, Scheduled, Stop, Removed, CloseQueues, Fire, FireOnce, RunEnds, queueVars
  <2> QED BY <2>1 DEF QueuesInv
<1> QED BY <1>2, <1>3, <1>4, <1>5, <1>6, <1>7, <1>8 DEF Moves

LEMMA CountsStep ==
    ASSUME CountsInv, NEW p \in Procs, Moves(p)
    PROVE  CountsInv'
<1>0. /\ shots \in Nat /\ MaxShots \in Nat /\ MaxRuns \in Nat /\ 1 <= MaxRuns /\ MaxCrashes \in Nat
      /\ crashes \in Nat /\ crashes <= MaxCrashes /\ shots <= MaxShots
      BY ConstantsAssumption DEF CountsInv
<1>1. NoRuns \in [Jobs -> 0 .. shots] /\ NoRuns \in [Jobs -> 0 .. MaxRuns]
      BY <1>0 DEF NoRuns
<1>2. ASSUME NEW job \in Jobs, StartRun(p, job)
      PROVE  runs' \in [Procs -> [Jobs -> 0 .. MaxRuns]]
  <2>1. runs[p][job] \in 0 .. MaxRuns /\ runs[p] \in [Jobs -> 0 .. MaxRuns]
        BY DEF CountsInv
  <2>2. runs[p][job] < MaxRuns
        BY <1>0, <1>2, <2>1 DEF StartRun
  <2>3. runs[p][job] + 1 \in 0 .. MaxRuns
        BY <1>0, <2>1, <2>2
  <2>4. runs' = [runs EXCEPT ![p] = [runs[p] EXCEPT ![job] = runs[p][job] + 1]]
        BY <1>2 DEF StartRun, CountsInv
  <2> QED BY <2>1, <2>3, <2>4 DEF CountsInv
<1>3. CASE \E job \in Jobs : Enqueue(p, job)
  <2>1. PICK job \in Jobs : Enqueue(p, job)
        BY <1>3
  <2>2. shots' = shots + 1 /\ shots < MaxShots /\ UNCHANGED <<driver, runs, crashes>>
        BY <2>1 DEF Enqueue
  <2>3. 0 .. shots \subseteq 0 .. shots' /\ shots' \in 0 .. MaxShots
        BY <1>0, <2>2
  <2>4. \A n \in 0 .. shots : n + 1 \in 0 .. shots'
        BY <1>0, <2>2
  <2>5. /\ timeouts \in [Procs -> [Jobs -> 0 .. shots']] /\ waiting \in [Jobs -> 0 .. shots']
        /\ timeouts[p][job] + 1 \in 0 .. shots' /\ waiting[job] + 1 \in 0 .. shots'
        BY <2>3, <2>4 DEF CountsInv
  <2>6. timeouts' \in [Procs -> [Jobs -> 0 .. shots']]
    <3>1. CASE Memory
      <4>1. timeouts' = [timeouts EXCEPT ![p] = [timeouts[p] EXCEPT ![job] = timeouts[p][job] + 1]]
            BY <2>1, <3>1 DEF Enqueue, CountsInv
      <4> QED BY <2>5, <4>1
    <3>2. CASE ~Memory
          BY <2>1, <2>5, <3>2 DEF Enqueue
    <3> QED BY <3>1, <3>2
  <2>7. waiting' \in [Jobs -> 0 .. shots']
    <3>1. CASE Memory
          BY <2>1, <2>5, <3>1 DEF Enqueue
    <3>2. CASE ~Memory
      <4>1. waiting' = [waiting EXCEPT ![job] = waiting[job] + 1]
            BY <2>1, <3>2 DEF Enqueue
      <4> QED BY <2>5, <4>1
    <3> QED BY <3>1, <3>2
  <2> QED BY <2>2, <2>3, <2>6, <2>7 DEF CountsInv
<1>4. CASE Crash(p) \/ Exit(p)
  <2>1. /\ UNCHANGED <<driver, waiting, shots>> /\ timeouts' = [timeouts EXCEPT ![p] = NoRuns]
        /\ runs' = [runs EXCEPT ![p] = NoRuns]
        BY <1>4 DEF Crash, Exit, Gone
  <2>2. crashes' \in 0 .. MaxCrashes
        BY <1>0, <1>4 DEF Crash, Exit
  <2> QED BY <1>1, <2>1, <2>2 DEF CountsInv
<1>5. CASE RemoveNext(p)
  <2>1. UNCHANGED <<driver, timeouts, waiting, runs, shots>>
        BY <1>5 DEF RemoveNext, RemoveRepeatable, queueVars
  <2>2. crashes' \in 0 .. MaxCrashes
        BY <1>0, <1>5 DEF RemoveNext
  <2> QED BY <2>1, <2>2 DEF CountsInv
<1>6. CASE Closed(p)
  <2>1. UNCHANGED <<driver, waiting, runs, shots, crashes>>
        /\ (timeouts' = [timeouts EXCEPT ![p] = NoRuns] \/ timeouts' = timeouts)
        BY <1>6 DEF Closed
  <2> QED BY <1>1, <2>1 DEF CountsInv
<1>7. CASE \E job \in Jobs : Fire(p, job)
  <2>1. UNCHANGED <<driver, timeouts, waiting, shots, crashes>>
        BY <1>7 DEF Fire, queueVars
  <2>2. runs' \in [Procs -> [Jobs -> 0 .. MaxRuns]]
        BY <1>2, <1>7 DEF Fire
  <2> QED BY <2>1, <2>2 DEF CountsInv
<1>8. CASE \E job \in Jobs : FireOnce(p, job)
  <2>1. PICK job \in Jobs : FireOnce(p, job)
        BY <1>8
  <2>2. UNCHANGED <<driver, shots, crashes>> /\ runs' \in [Procs -> [Jobs -> 0 .. MaxRuns]]
        BY <1>2, <2>1 DEF FireOnce
  <2>3. CASE Memory
    <3>1. UNCHANGED waiting /\ timeouts[p][job] > 0 /\ timeouts[p][job] \in 0 .. shots
          /\ timeouts' = [timeouts EXCEPT ![p] = [timeouts[p] EXCEPT ![job] = timeouts[p][job] - 1]]
          BY <2>1, <2>3 DEF FireOnce, TakeTimeout, CountsInv
    <3>2. timeouts[p][job] - 1 \in 0 .. shots
          BY <1>0, <3>1
    <3>3. timeouts' \in [Procs -> [Jobs -> 0 .. shots]]
          BY <3>1, <3>2 DEF CountsInv
    <3> QED BY <2>2, <3>1, <3>3 DEF CountsInv
  <2>4. CASE ~Memory
    <3>1. UNCHANGED timeouts /\ waiting[job] > 0 /\ waiting[job] \in 0 .. shots
          /\ waiting' = [waiting EXCEPT ![job] = waiting[job] - 1]
          BY <2>1, <2>4 DEF FireOnce, CountsInv
    <3>2. waiting[job] - 1 \in 0 .. shots
          BY <1>0, <3>1
    <3>3. waiting' \in [Jobs -> 0 .. shots]
          BY <3>1, <3>2 DEF CountsInv
    <3> QED BY <2>2, <3>1, <3>3 DEF CountsInv
  <2> QED BY <2>3, <2>4
<1>9. CASE \E job \in Jobs : RunEnds(p, job)
  <2>1. PICK job \in Jobs : RunEnds(p, job)
        BY <1>9
  <2>2. /\ UNCHANGED <<driver, timeouts, waiting, shots, crashes>>
        /\ runs[p][job] > 0 /\ runs[p][job] \in 0 .. MaxRuns /\ runs[p] \in [Jobs -> 0 .. MaxRuns]
        /\ runs' = [runs EXCEPT ![p] = [runs[p] EXCEPT ![job] = runs[p][job] - 1]]
        BY <2>1 DEF RunEnds, Settled, queueVars, CountsInv
  <2>3. runs[p][job] - 1 \in 0 .. MaxRuns
        BY <1>0, <2>2
  <2>4. runs' \in [Procs -> [Jobs -> 0 .. MaxRuns]]
        BY <2>2, <2>3 DEF CountsInv
  <2> QED BY <2>2, <2>4 DEF CountsInv
<1>10. CASE \/ Boot(p) \/ ScheduleNext(p) \/ Scheduled(p) \/ Stop(p) \/ Removed(p) \/ CloseQueues(p)
            \/ \E job \in Jobs : CloseWorker(p, job)
  <2>1. UNCHANGED <<driver, timeouts, waiting, runs, shots, crashes>>
        BY <1>10 DEF Boot, ScheduleNext, Repeat, Scheduled, Stop, Removed, CloseQueues, CloseWorker,
                     queueVars
  <2> QED BY <2>1 DEF CountsInv
<1> QED BY <1>3, <1>4, <1>5, <1>6, <1>7, <1>8, <1>9, <1>10 DEF Moves

LEMMA TypesNext == TypesInv /\ [Next]_vars => TypesInv'
<1> SUFFICES ASSUME TypesInv, [Next]_vars PROVE TypesInv'
    OBVIOUS
<1>1. CASE Next
  <2>1. PICK p \in Procs : Moves(p)
        BY <1>1 DEF Next, Moves
  <2> QED BY <2>1, RowsStep, QueuesStep, CountsStep DEF TypesInv
<1>2. CASE UNCHANGED vars
      BY <1>2 DEF vars, TypesInv, RowsInv, QueuesInv, CountsInv
<1> QED BY <1>1, <1>2

\* Whatever number of processes run side by side, start, stop and crash, and with
\* either driver: the interval numbers of in-memory.ts stay within the jobs there
\* are, and the loop over repeatKeys within the keys.
THEOREM QueueTyped == Spec => []TypeOK
BY TypesInit, TypesNext, TypesGive, PTL DEF Spec

=============================================================================
