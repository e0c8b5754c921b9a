---------------------------- MODULE TaskLifecycle ----------------------------
(***************************************************************************)
(* The life of a task in the NestAI API: it is created and routed to a     *)
(* member, assigned by hand, dropped, offered through an EscalationEvent,  *)
(* claimed by a backup, or given a status directly.                        *)
(*                                                                         *)
(* Every handler of TasksService is a sequence of awaited statements and   *)
(* the service opens no database transaction, so one statement is one      *)
(* atomic action here and requests interleave between statements.  What a  *)
(* handler read earlier stays in the locals of its request (req[r]).       *)
(* Statements whose result cannot change (a task is never deleted, its     *)
(* dueAt never updated) or only shapes the reply are folded into the next. *)
(* The escalation timer of SchedulerService runs beside the requests.      *)
(***************************************************************************)
EXTENDS Integers, FiniteSets

CONSTANTS
    Tasks,            \* ids a task row may get
    Members,          \* members of the household
    Requests,         \* slots for requests in flight
    TimerRuns,        \* slots for escalation-timer runs in flight
    None,             \* SQL NULL for a task or member reference
    MaxEscalations,   \* bound: escalation rows ever created
    MaxTime,          \* bound: the clock
    MaxFaults,        \* bound: statements that fail (a throw or a crash)
    DueTimes,         \* the dueAt values a task may be created with
    Settable,         \* the statuses PATCH /tasks/:id/status is sent
    BroadcastAfter,   \* age at which the timer broadcasts (10 minutes in the code)
    DropWindow,       \* time to the deadline of a task with no dueAt (60 minutes)
    OverrideWindow    \* below it to the deadline an override is due (21 minutes: 20
                      \* are asked for, of the difference in whole minutes)

Never == -1           \* a timestamp column that is NULL
Times == 0..MaxTime
EscIds == 1..MaxEscalations
Statuses == {"OPEN", "ASSIGNED", "CLAIMED", "DROPPED", "DONE", "BLOCKED"}
Locked == {"CLAIMED", "DONE"}

ASSUME NoneIsNoRow == None \notin Tasks \cup Members
ASSUME BoundsAreNumbers ==
    /\ MaxEscalations \in Nat /\ MaxTime \in Nat /\ MaxFaults \in Nat
ASSUME WindowsAreNumbers ==
    /\ BroadcastAfter \in Nat \ {0} /\ DropWindow \in Nat /\ OverrideWindow \in Nat
ASSUME InputsAreLegal ==
    /\ DueTimes \subseteq Times \cup {Never}
    /\ Settable \subseteq Statuses

VARIABLES
    now,        \* the clock
    member,     \* member rows: "active", "inactive", or "removed" from the table
    task,       \* task rows; status "ABSENT" before the insert
    opened,     \* number of escalation rows; row ids 1..opened, by createdAt
    esc,        \* escalation rows; blank beyond opened
    req,        \* requests in flight: the next statement (pc) and the locals
    run,        \* timer runs in flight
    faults,     \* failures so far
    \* History, read by no handler:
    lastWrite,  \* what last wrote a task row: "drop", "claim" or "other"
    told,       \* members answered ok:true by claims since any other write
    severed,    \* tasks whose drop or claim died between its two writes
    contested   \* tasks that two claims were in flight for at once

rows == <<member, task, opened, esc>>
history == <<lastWrite, told, severed, contested>>
vars == <<now, rows, req, run, faults, history>>

Idle == [pc |-> "idle", task |-> None, member |-> None, esc |-> 0]
At(pc, t, m, e) == [pc |-> pc, task |-> t, member |-> m, esc |-> e]
NoRun == [at |-> Never, stamps |-> {}, overrides |-> {}]
BlankEsc == [task |-> None, createdAt |-> 0, deadline |-> 0,
             broadcastAt |-> Never, claimedBy |-> None, resolved |-> FALSE]

Exists(t) == task[t].status # "ABSENT"
IsMember(m) == member[m] # "removed"
IsOpen(e) == e <= opened /\ ~esc[e].resolved
OpenFor(t) == {e \in EscIds : IsOpen(e) /\ esc[e].task = t}

MemberRow == {"active", "inactive", "removed"}
TaskRow == [status : Statuses \cup {"ABSENT"},
            assignee : Members \cup {None},
            dueAt : Times \cup {Never}]
EscRow == [task : Tasks \cup {None},
           createdAt : Times,
           deadline : 0..(MaxTime + DropWindow),
           broadcastAt : Times \cup {Never},
           claimedBy : Members \cup {None},
           resolved : BOOLEAN]
Steps == {"idle", "route", "routeWrite", "assignWrite", "dropOpen",
          "claimFind", "claimResolve", "claimLock"}
InFlight == [pc : Steps,
             task : Tasks \cup {None},
             member : Members \cup {None},
             esc : 0..MaxEscalations]
TimerRun == [at : Times \cup {Never},
             stamps : SUBSET EscIds,
             overrides : SUBSET EscIds]
Writers == {"drop", "claim", "other"}

TypeOK ==
    /\ now \in Times
    /\ member \in [Members -> MemberRow]
    /\ task \in [Tasks -> TaskRow]
    /\ opened \in 0..MaxEscalations
    /\ esc \in [EscIds -> EscRow]
    /\ req \in [Requests -> InFlight]
    /\ run \in [TimerRuns -> TimerRun]
    /\ faults \in 0..MaxFaults
    /\ lastWrite \in [Tasks -> Writers]
    /\ told \in [Tasks -> SUBSET Members]
    /\ severed \subseteq Tasks
    /\ contested \subseteq Tasks

Init ==
    /\ now = 0
    /\ member = [m \in Members |-> "active"]
    /\ task = [t \in Tasks |-> [status |-> "ABSENT", assignee |-> None, dueAt |-> Never]]
    /\ opened = 0
    /\ esc = [e \in EscIds |-> BlankEsc]
    /\ req = [r \in Requests |-> Idle]
    /\ run = [k \in TimerRuns |-> NoRun]
    /\ faults = 0
    /\ lastWrite = [t \in Tasks |-> "other"]
    /\ told = [t \in Tasks |-> {}]
    /\ severed = {}
    /\ contested = {}

-----------------------------------------------------------------------------
(* Shared effects.                                                         *)

\* task.update({where: {id}, data: {status, assignedMemberId}})
WriteTask(t, status, assignee, by, holders) ==
    /\ task' = [task EXCEPT ![t] = [@ EXCEPT !.status = status, !.assignee = assignee]]
    /\ lastWrite' = [lastWrite EXCEPT ![t] = by]
    /\ told' = [told EXCEPT ![t] = holders]
    /\ severed' = severed \ {t}
    /\ UNCHANGED contested

Goto(r, next) == req' = [req EXCEPT ![r] = next]
Ready(r) == req[r].pc = "idle"

\* The handler throws at its next statement: the request ends where it is.
Abort(r) ==
    /\ Goto(r, Idle)
    /\ severed' = IF \/ req[r].pc = "dropOpen"
                     \/ req[r].pc = "claimLock" /\ req[r].esc # 0
                  THEN severed \cup {req[r].task}
                  ELSE severed
    /\ UNCHANGED <<now, rows, run, lastWrite, told, contested>>

-----------------------------------------------------------------------------
(* POST /tasks: insert the row, then read members and rules, decide, write. *)

CreateTask(r) ==
    /\ Ready(r)
    /\ \E t \in Tasks, due \in DueTimes, noRoute \in BOOLEAN :
        /\ ~Exists(t)
        /\ task' = [task EXCEPT ![t] = [status |-> "OPEN", assignee |-> None, dueAt |-> due]]
        /\ Goto(r, IF noRoute THEN Idle ELSE At("route", t, None, 0))
    /\ UNCHANGED <<now, member, opened, esc, run, faults, history>>

\* The routing engine answers some active member, or nobody eligible.
RouteDecide(r) ==
    /\ req[r].pc = "route"
    /\ \/ \E m \in Members : member[m] = "active" /\ Goto(r, At("routeWrite", req[r].task, m, 0))
       \/ Goto(r, Idle)
    /\ UNCHANGED <<now, rows, run, faults, history>>

RouteWrite(r) ==
    /\ req[r].pc = "routeWrite"
    /\ IsMember(req[r].member)
    /\ WriteTask(req[r].task, "ASSIGNED", req[r].member, "other", {})
    /\ Goto(r, Idle)
    /\ UNCHANGED <<now, member, opened, esc, run, faults>>

-----------------------------------------------------------------------------
(* POST /tasks/:id/assign and PATCH /tasks/:id/status.                     *)

AssignCheck(r) ==
    /\ Ready(r)
    /\ \E t \in Tasks, m \in Members :
        /\ Exists(t) /\ IsMember(m)
        /\ Goto(r, At("assignWrite", t, m, 0))
    /\ UNCHANGED <<now, rows, run, faults, history>>

AssignWrite(r) ==
    /\ req[r].pc = "assignWrite"
    /\ IsMember(req[r].member)
    /\ WriteTask(req[r].task, "ASSIGNED", req[r].member, "other", {})
    /\ Goto(r, Idle)
    /\ UNCHANGED <<now, member, opened, esc, run, faults>>

SetStatus(r) ==
    /\ Ready(r)
    /\ \E t \in Tasks, s \in Settable :
        /\ Exists(t)
        /\ WriteTask(t, s, task[t].assignee, "other", {})
    /\ UNCHANGED <<now, member, opened, esc, req, run, faults>>

-----------------------------------------------------------------------------
(* POST /tasks/:id/drop: release the task, then open its escalation.       *)

\* Bound: every drop in flight will find a free escalation row.
RowLeft == opened + Cardinality({r \in Requests : req[r].pc = "dropOpen"}) < MaxEscalations

DropTask(r) ==
    /\ Ready(r)
    /\ RowLeft
    /\ \E t \in Tasks :
        /\ Exists(t)
        /\ WriteTask(t, "DROPPED", None, "drop", {})
        /\ Goto(r, At("dropOpen", t, None, 0))
    /\ UNCHANGED <<now, member, opened, esc, run, faults>>

\* Mutant: the deadline is dueAt, with no default for a task without one.
NewEscalationNoDefault(t) ==
    [task |-> t, createdAt |-> now, deadline |-> task[t].dueAt,
     broadcastAt |-> Never, claimedBy |-> None, resolved |-> FALSE]

NewEscalation(t) ==
    [task |-> t, createdAt |-> now,
     deadline |-> IF task[t].dueAt # Never THEN task[t].dueAt ELSE now + DropWindow,
     broadcastAt |-> Never, claimedBy |-> None, resolved |-> FALSE]

\* Mutant: a task that ever had an escalation gets no second one.
DropOpenOnce(r) ==
    /\ req[r].pc = "dropOpen"
    /\ IF \E e \in EscIds : e <= opened /\ esc[e].task = req[r].task
       THEN UNCHANGED <<opened, esc>>
       ELSE /\ opened' = opened + 1
            /\ esc' = [esc EXCEPT ![opened + 1] = NewEscalation(req[r].task)]
    /\ severed' = severed \ {req[r].task}
    /\ Goto(r, Idle)
    /\ UNCHANGED <<now, member, task, run, faults, lastWrite, told, contested>>

DropOpen(r) ==
    /\ req[r].pc = "dropOpen"
    /\ opened < MaxEscalations
    /\ opened' = opened + 1
    /\ esc' = [esc EXCEPT ![opened + 1] = NewEscalation(req[r].task)]
    /\ severed' = severed \ {req[r].task}
    /\ Goto(r, Idle)
    /\ UNCHANGED <<now, member, task, run, faults, lastWrite, told, contested>>

-----------------------------------------------------------------------------
(* POST /tasks/:id/claim: check the lock, find the newest open escalation, *)
(* resolve it, lock the task.                                              *)

Claiming(x) == x.pc \in {"claimFind", "claimResolve", "claimLock"}
ClaimOn(t) == \E q \in Requests : Claiming(req[q]) /\ req[q].task = t

\* A claim that passed its check is on its way.
Admit(r, t, m) ==
    /\ Goto(r, At("claimFind", t, m, 0))
    /\ contested' = IF ClaimOn(t) THEN contested \cup {t} ELSE contested
    /\ UNCHANGED <<now, rows, run, faults, lastWrite, told, severed>>

\* Mutant: only a finished task is refused.
ClaimCheckDoneOnly(r) ==
    /\ Ready(r)
    /\ \E t \in Tasks, m \in Members :
        /\ Exists(t) /\ IsMember(m)
        /\ task[t].status # "DONE"
        /\ Admit(r, t, m)

ClaimCheck(r) ==
    /\ Ready(r)
    /\ \E t \in Tasks, m \in Members :
        /\ Exists(t) /\ IsMember(m)
        /\ task[t].status \notin Locked
        /\ Admit(r, t, m)

\* The claim() decision of packages/core on the row that was read.
CoreClaimOk(row) == ~row.resolved /\ row.claimedBy = None

\* findFirst({where: {taskId, resolvedAt: null}, orderBy: createdAt desc})
Newest(e, ids) == e \in ids /\ \A f \in ids : f <= e

ClaimFind(r) ==
    LET t == req[r].task
        m == req[r].member
        open == OpenFor(t)
    IN  /\ req[r].pc = "claimFind"
        /\ \/ open = {} /\ Goto(r, At("claimLock", t, m, 0))
           \/ \E e \in EscIds :
                /\ Newest(e, open)
                /\ Goto(r, IF CoreClaimOk(esc[e]) THEN At("claimResolve", t, m, e) ELSE Idle)
        /\ UNCHANGED <<now, rows, run, faults, history>>

\* Mutant: the update goes by taskId and touches every row of the task.
ClaimResolveByTask(r) ==
    /\ req[r].pc = "claimResolve"
    /\ esc' = [e \in EscIds |->
                 IF e <= opened /\ esc[e].task = req[r].task
                 THEN [esc[e] EXCEPT !.claimedBy = req[r].member, !.resolved = TRUE]
                 ELSE esc[e]]
    /\ Goto(r, At("claimLock", req[r].task, req[r].member, req[r].esc))
    /\ UNCHANGED <<now, member, task, opened, run, faults, history>>

ClaimResolve(r) ==
    LET e == req[r].esc
    IN  /\ req[r].pc = "claimResolve"
        /\ esc' = [esc EXCEPT ![e].claimedBy = req[r].member, ![e].resolved = TRUE]
        /\ Goto(r, At("claimLock", req[r].task, req[r].member, e))
        /\ UNCHANGED <<now, member, task, opened, run, faults, history>>

\* The last statement: the reply is ok:true.
ClaimLock(r) ==
    LET t == req[r].task
        m == req[r].member
    IN  /\ req[r].pc = "claimLock"
        /\ IsMember(m)
        /\ WriteTask(t, "CLAIMED", m, "claim", told[t] \cup {m})
        /\ Goto(r, Idle)
        /\ UNCHANGED <<now, member, opened, esc, run, faults>>

-----------------------------------------------------------------------------
(* POST /escalation/:id/broadcast, whenever it is called.                  *)

Broadcast(r) ==
    /\ Ready(r)
    /\ \E e \in EscIds :
        /\ e <= opened
        /\ esc' = [esc EXCEPT ![e].broadcastAt = now]
    /\ UNCHANGED <<now, member, task, opened, req, run, faults, history>>

-----------------------------------------------------------------------------
(* The escalation timer, every minute: one read, then one update per aged   *)
(* event of the copies it read.                                            *)

\* decideCriticalOverride of packages/core
Overrides(e) ==
    /\ esc[e].claimedBy = None /\ ~esc[e].resolved
    /\ esc[e].deadline - now < OverrideWindow

\* Mutants: strictly older than the threshold; exactly at the threshold.
AgedStrictly(e, at) == esc[e].createdAt + BroadcastAfter < at
AgedExactly(e, at) == esc[e].createdAt + BroadcastAfter = at

Aged(e, at) == esc[e].createdAt + BroadcastAfter <= at

TimerRead(k) ==
    /\ run[k].at = Never
    /\ run' = [run EXCEPT ![k] =
                [at |-> now,
                 stamps |-> {e \in EscIds : /\ IsOpen(e) /\ Aged(e, now)
                                            /\ esc[e].broadcastAt = Never},
                 overrides |-> {e \in EscIds : IsOpen(e) /\ Overrides(e)}]]
    /\ UNCHANGED <<now, rows, req, faults, history>>

TimerStamp(k) ==
    /\ \E e \in run[k].stamps :
        /\ esc' = [esc EXCEPT ![e].broadcastAt = run[k].at]
        /\ run' = [run EXCEPT ![k].stamps = @ \ {e}]
    /\ UNCHANGED <<now, member, task, opened, req, faults, history>>

TimerEnd(k) ==
    /\ run[k].at # Never
    /\ run[k].stamps = {}
    /\ run' = [run EXCEPT ![k] = NoRun]
    /\ UNCHANGED <<now, rows, req, faults, history>>

-----------------------------------------------------------------------------
(* Members come and go: DELETE /members/:id sets Task.assignedMemberId to   *)
(* null (onDelete: SetNull), EscalationEvent.claimedById is a bare string;  *)
(* PATCH /members/:id switches active.                                     *)

RemoveMember(m) ==
    /\ IsMember(m)
    /\ member' = [member EXCEPT ![m] = "removed"]
    /\ task' = [t \in Tasks |-> IF task[t].assignee = m
                                THEN [task[t] EXCEPT !.assignee = None]
                                ELSE task[t]]
    /\ UNCHANGED <<now, opened, esc, req, run, faults, history>>

SetActive(m) ==
    /\ IsMember(m)
    /\ member' = [member EXCEPT ![m] = IF @ = "active" THEN "inactive" ELSE "active"]
    /\ UNCHANGED <<now, task, opened, esc, req, run, faults, history>>

-----------------------------------------------------------------------------
(* Failures and time.                                                      *)

\* An update naming a member deleted meanwhile breaks the foreign key.
ForeignKeyFails(r) ==
    /\ req[r].pc \in {"routeWrite", "assignWrite", "claimLock"}
    /\ ~IsMember(req[r].member)
    /\ Abort(r)
    /\ UNCHANGED faults

\* The next statement throws, or the process stops; a process stop is one
\* such failure of every request and run in flight.
RequestFails(r) ==
    /\ req[r].pc # "idle"
    /\ faults < MaxFaults
    /\ faults' = faults + 1
    /\ Abort(r)

RunFails(k) ==
    /\ run[k].at # Never
    /\ faults < MaxFaults
    /\ faults' = faults + 1
    /\ run' = [run EXCEPT ![k] = NoRun]
    /\ UNCHANGED <<now, rows, req, history>>

Tick ==
    /\ now < MaxTime
    /\ now' = now + 1
    /\ UNCHANGED <<rows, req, run, faults, history>>

-----------------------------------------------------------------------------
Start(r) ==
    \/ CreateTask(r) \/ AssignCheck(r) \/ SetStatus(r)
    \/ DropTask(r) \/ ClaimCheck(r) \/ Broadcast(r)

Continue(r) ==
    \/ RouteDecide(r) \/ RouteWrite(r) \/ AssignWrite(r) \/ DropOpen(r)
    \/ ClaimFind(r) \/ ClaimResolve(r) \/ ClaimLock(r) \/ ForeignKeyFails(r)

Timer(k) == TimerRead(k) \/ TimerStamp(k) \/ TimerEnd(k)

Next ==
    \/ \E r \in Requests : Start(r) \/ Continue(r) \/ RequestFails(r)
    \/ \E k \in TimerRuns : Timer(k) \/ RunFails(k)
    \/ \E m \in Members : RemoveMember(m) \/ SetActive(m)
    \/ Tick

Spec == Init /\ [][Next]_vars

\* Node keeps running a handler it has started, the interval keeps firing,
\* and time passes; nobody is obliged to send a request.
Fairness ==
    /\ \A r \in Requests : WF_vars(Continue(r))
    /\ \A k \in TimerRuns : WF_vars(Timer(k))
    /\ WF_vars(Tick)

FairSpec == Spec /\ Fairness
-----------------------------------------------------------------------------
(* Properties.                                                             *)

Coming(t) == \E r \in Requests : req[r].pc = "dropOpen" /\ req[r].task = t
Locking(t) == \E r \in Requests :
    req[r].pc = "claimLock" /\ req[r].esc # 0 /\ req[r].task = t

\* However requests interleave, a task whose last write is a drop can be
\* picked up: it has an open escalation, or the drop is about to open one, or
\* a claim that has resolved one is about to lock the task.  Only a handler
\* that dies between its two writes (drop 127-145, claim 210-217) escapes.
Covered(t) ==
    lastWrite[t] = "drop" /\ t \notin severed =>
        OpenFor(t) # {} \/ Coming(t) \/ Locking(t)
DropIsCovered == \A t \in Tasks : Covered(t)

\* Everybody whose claim of the task was answered ok:true holds it: the row is
\* CLAIMED and names that member, unless the member left.
Held(t) ==
    \A m \in told[t] :
        task[t].status = "CLAIMED" /\ (task[t].assignee = m \/ ~IsMember(m))

\* "The claim is idempotent (a second claim is a no-op)" (tasks.service.ts 153):
\* an accepted claim holds until something other than a claim writes the task.
ClaimIsExclusive == \A t \in Tasks : Held(t)

\* What is true of it: an accepted claim holds whatever drops, assignments, status
\* changes, departures, failures and timer runs overlap it, and whatever happens
\* to other tasks, unless two claims of this task were in flight at once.
LoneClaimIsExclusive == \A t \in Tasks \ contested : Held(t)

\* "Already-resolved events cannot be re-claimed" (escalation.ts 221): the
\* claimant of a resolved escalation never changes, and it stays resolved, with
\* the same exception: a copy read before another claim's update is stale.
ResolvedIsFinal ==
    [][\A e \in EscIds : e <= opened /\ esc[e].resolved /\ esc[e].task \notin contested =>
           esc'[e].resolved /\ esc'[e].claimedBy = esc[e].claimedBy]_vars

\* A timer run leaves nothing behind: whatever was already 10 minutes old,
\* open and never broadcast when the run began is still on its list until it
\* is stamped or claimed, whoever else writes the rows meanwhile.
RunMissesNothing ==
    \A k \in TimerRuns, e \in EscIds :
        /\ run[k].at # Never
        /\ IsOpen(e)
        /\ esc[e].broadcastAt = Never
        /\ run[k].at - esc[e].createdAt >= BroadcastAfter
        => e \in run[k].stamps

\* Every drop whose handler survives ends in an open escalation, or the task
\* is written again first.
DropEventuallyOffered ==
    \A t \in Tasks :
        lastWrite[t] = "drop" ~>
            OpenFor(t) # {} \/ lastWrite[t] # "drop" \/ t \in severed

\* Every escalation old enough for the clock to reach its 10 minutes is
\* eventually broadcast or claimed (escalationTimer 150-182).
BroadcastEventually ==
    \A e \in EscIds :
        e <= opened /\ esc[e].createdAt + BroadcastAfter <= MaxTime ~>
            esc[e].broadcastAt # Never \/ esc[e].resolved

\* One lock per task (ClaimLock), read off the task row; the claims let in are
\* those past their check.
Phase(status) ==
    IF status = "ABSENT" THEN "absent"
    ELSE IF status = "DROPPED" THEN "dropped"
    ELSE IF status \in Locked THEN "locked" ELSE "free"
LockState == [t \in Tasks |-> Phase(task[t].status)]
Admitted == {<<r, req[r].task, req[r].member>> : r \in {q \in Requests : Claiming(req[q])}}
Lock == INSTANCE ClaimLock WITH
    state <- LockState, holder <- [t \in Tasks |-> task[t].assignee], admitted <- Admitted

\* However requests overlap, the handlers implement that lock: who holds a task
\* by a claim asked for it while it was not locked, and nothing else moves it
\* but a placement, a drop, a status set by hand and a departure.
ImplementsClaimLock == Lock!Spec

=============================================================================
