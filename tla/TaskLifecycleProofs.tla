------------------------- MODULE TaskLifecycleProofs -------------------------
(***************************************************************************)
(* What TLAPS proves of TaskLifecycle for every set of tasks, members,     *)
(* request slots and timer runs, and every bound.                          *)
(***************************************************************************)
EXTENDS TaskLifecycle, TLAPS

USE NoneIsNoRow, BoundsAreNumbers, WindowsAreNumbers, InputsAreLegal

-----------------------------------------------------------------------------
(* The rows the actions write have the types of their columns.             *)

LEMMA IdleTyped == Idle \in InFlight
BY DEF Idle, InFlight, Steps

LEMMA AtTyped ==
    ASSUME NEW pc \in Steps, NEW t \in Tasks \cup {None},
           NEW m \in Members \cup {None}, NEW e \in 0..MaxEscalations
    PROVE  At(pc, t, m, e) \in InFlight
BY DEF At, InFlight

LEMMA InFlightFields ==
    ASSUME NEW x \in InFlight
    PROVE  /\ x.pc \in Steps /\ x.task \in Tasks \cup {None}
           /\ x.member \in Members \cup {None} /\ x.esc \in 0..MaxEscalations
BY DEF InFlight

LEMMA EscFields ==
    ASSUME NEW x \in EscRow
    PROVE  /\ x.task \in Tasks \cup {None} /\ x.createdAt \in Times
           /\ x.broadcastAt \in Times \cup {Never}
           /\ x.claimedBy \in Members \cup {None} /\ x.resolved \in BOOLEAN
BY DEF EscRow

LEMMA TaskRowWritten ==
    ASSUME NEW row \in TaskRow, NEW s \in Statuses, NEW m \in Members \cup {None}
    PROVE  [row EXCEPT !.status = s, !.assignee = m] \in TaskRow
BY DEF TaskRow

LEMMA TaskRowReleased ==
    ASSUME NEW row \in TaskRow
    PROVE  [row EXCEPT !.assignee = None] \in TaskRow
BY DEF TaskRow

LEMMA EscRowStamped ==
    ASSUME NEW row \in EscRow, NEW at \in Times \cup {Never}
    PROVE  [row EXCEPT !.broadcastAt = at] \in EscRow
BY DEF EscRow

LEMMA EscRowResolved ==
    ASSUME NEW row \in EscRow, NEW m \in Members \cup {None}
    PROVE  [row EXCEPT !.claimedBy = m, !.resolved = TRUE] \in EscRow
BY DEF EscRow

LEMMA EscRowNew ==
    ASSUME TypeOK, NEW t \in Tasks
    PROVE  NewEscalation(t) \in EscRow
<1>1. /\ task[t].dueAt \in Times \cup {Never}
      /\ now \in Times
      BY DEF TypeOK, TaskRow
<1> QED BY <1>1 DEF NewEscalation, EscRow, Times, Never

\* A task update by a handler.
LEMMA WriteTaskTyped ==
    ASSUME TypeOK, NEW t \in Tasks, NEW s \in Statuses, NEW m \in Members \cup {None},
           NEW by \in Writers, NEW holders \in SUBSET Members,
           WriteTask(t, s, m, by, holders)
    PROVE  /\ task' \in [Tasks -> TaskRow]
           /\ lastWrite' \in [Tasks -> Writers]
           /\ told' \in [Tasks -> SUBSET Members]
           /\ severed' \subseteq Tasks /\ contested' \subseteq Tasks
<1>1. [task[t] EXCEPT !.status = s, !.assignee = m] \in TaskRow
      BY TaskRowWritten DEF TypeOK
<1> QED BY <1>1 DEF TypeOK, WriteTask

LEMMA GotoTyped ==
    ASSUME TypeOK, NEW r \in Requests, NEW x \in InFlight, Goto(r, x)
    PROVE  req' \in [Requests -> InFlight]
BY DEF TypeOK, Goto

-----------------------------------------------------------------------------
(* Locals: a request in flight names a task, a member where its statement  *)
(* writes one, and a claim about to resolve an escalation holds an         *)
(* existing row of its task.                                               *)

Names(x) ==
    /\ x.pc # "idle" => x.task \in Tasks
    /\ x.pc \in {"routeWrite", "assignWrite", "claimFind", "claimResolve", "claimLock"}
          => x.member \in Members
Holds(x) ==
    x.pc = "claimResolve" => x.esc \in 1..opened /\ esc[x.esc].task = x.task
LocalsOK == \A r \in Requests : Names(req[r]) /\ Holds(req[r])

TypeInv == TypeOK /\ LocalsOK

LEMMA TypeInit == Init => TypeInv
<1> SUFFICES ASSUME Init PROVE TypeOK /\ LocalsOK
    BY DEF TypeInv
<1>1. BlankEsc \in EscRow
      BY DEF BlankEsc, EscRow, Times, Never
<1>2. [status |-> "ABSENT", assignee |-> None, dueAt |-> Never] \in TaskRow
      BY DEF TaskRow, Never
<1>3. NoRun \in TimerRun
      BY DEF NoRun, TimerRun, Never
<1>4. TypeOK
      BY <1>1, <1>2, <1>3, IdleTyped DEF Init, TypeOK, Times, MemberRow, Writers
<1>5. LocalsOK
      BY DEF Init, LocalsOK, Names, Holds, Idle
<1> QED BY <1>4, <1>5

\* Rows are appended or changed in place and keep their task: the locals of
\* the requests that do not move stay good, and one request moves at a time.
RowsKept ==
    /\ opened <= opened'
    /\ opened' \in Nat
    /\ \A e \in 1..opened : esc'[e].task = esc[e].task

LEMMA LocalsKept ==
    ASSUME TypeInv, RowsKept, UNCHANGED req
    PROVE  LocalsOK'
BY DEF TypeInv, TypeOK, LocalsOK, Names, Holds, RowsKept

LEMMA LocalsMove ==
    ASSUME TypeInv, RowsKept, NEW r \in Requests, NEW x, Goto(r, x),
           Names(x), x.pc # "claimResolve"
    PROVE  LocalsOK'
BY DEF TypeInv, TypeOK, LocalsOK, Names, Holds, RowsKept, Goto

LEMMA IdleNames == Names(Idle) /\ Idle.pc # "claimResolve"
BY DEF Idle, Names

LEMMA TypeNext == TypeInv /\ [Next]_vars => TypeInv'
<1> SUFFICES ASSUME TypeInv, [Next]_vars PROVE TypeOK' /\ LocalsOK'
    BY DEF TypeInv
<1>0. TypeOK
      BY DEF TypeInv
<1>a. opened \in Nat /\ opened <= MaxEscalations
      BY <1>0 DEF TypeOK
<1>b. UNCHANGED <<opened, esc>> => RowsKept
      BY <1>a DEF RowsKept
<1>1. ASSUME NEW r \in Requests, CreateTask(r) PROVE TypeOK' /\ LocalsOK'
  <2>1. PICK t \in Tasks, due \in DueTimes, noRoute \in BOOLEAN :
          /\ task' = [task EXCEPT ![t] = [status |-> "OPEN", assignee |-> None, dueAt |-> due]]
          /\ Goto(r, IF noRoute THEN Idle ELSE At("route", t, None, 0))
        BY <1>1 DEF CreateTask
  <2>2. [status |-> "OPEN", assignee |-> None, dueAt |-> due] \in TaskRow
        BY DEF TaskRow, Statuses, Never
  <2>3. At("route", t, None, 0) \in InFlight
        BY AtTyped DEF Steps
  <2>4. UNCHANGED <<now, member, opened, esc, run, faults, lastWrite, told, severed, contested>>
        BY <1>1 DEF CreateTask, history
  <2>5. TypeOK'
        BY <1>0, <2>1, <2>2, <2>3, <2>4, IdleTyped DEF TypeOK, Goto
  <2>6. Names(At("route", t, None, 0)) /\ At("route", t, None, 0).pc # "claimResolve"
        BY DEF Names, At
  <2> QED BY <2>1, <2>4, <2>5, <2>6, <1>b, IdleNames, LocalsMove
<1>2. ASSUME NEW r \in Requests, RouteDecide(r) PROVE TypeOK' /\ LocalsOK'
  <2>1. req[r].task \in Tasks
        BY <1>2 DEF RouteDecide, TypeInv, LocalsOK, Names
  <2>2. PICK x : Goto(r, x) /\ (x = Idle \/ \E m \in Members : x = At("routeWrite", req[r].task, m, 0))
        BY <1>2 DEF RouteDecide
  <2>3. x \in InFlight /\ Names(x) /\ x.pc # "claimResolve"
        BY <2>1, <2>2, IdleTyped, IdleNames, AtTyped DEF Steps, Names, At
  <2>4. UNCHANGED <<now, member, task, opened, esc, run, faults, lastWrite, told, severed, contested>>
        BY <1>2 DEF RouteDecide, rows, history
  <2> QED BY <1>0, <1>b, <2>2, <2>3, <2>4, GotoTyped, LocalsMove DEF TypeOK
<1>3. ASSUME NEW r \in Requests, RouteWrite(r) \/ AssignWrite(r) \/ ClaimLock(r)
      PROVE  TypeOK' /\ LocalsOK'
  <2>1. req[r].task \in Tasks /\ req[r].member \in Members
        BY <1>3 DEF RouteWrite, AssignWrite, ClaimLock, TypeInv, LocalsOK, Names
  <2>2. PICK s \in Statuses, by \in Writers, holders \in SUBSET Members :
            WriteTask(req[r].task, s, req[r].member, by, holders)
        BY <1>0, <1>3, <2>1 DEF RouteWrite, AssignWrite, ClaimLock, TypeOK, Statuses, Writers
  <2>3. /\ UNCHANGED <<now, member, opened, esc, run, faults>>
        /\ Goto(r, Idle)
        BY <1>3 DEF RouteWrite, AssignWrite, ClaimLock
  <2>4. TypeOK'
        BY <1>0, <2>1, <2>2, <2>3, WriteTaskTyped, GotoTyped, IdleTyped DEF TypeOK
  <2> QED BY <1>b, <2>3, <2>4, IdleNames, LocalsMove
<1>4. ASSUME NEW r \in Requests, AssignCheck(r) \/ ClaimCheck(r) PROVE TypeOK' /\ LocalsOK'
  <2>1. PICK pc \in {"assignWrite", "claimFind"}, t \in Tasks, m \in Members :
            Goto(r, At(pc, t, m, 0))
        BY <1>4 DEF AssignCheck, ClaimCheck, Admit
  <2>2. At(pc, t, m, 0) \in InFlight
        BY AtTyped DEF Steps
  <2>3. Names(At(pc, t, m, 0)) /\ At(pc, t, m, 0).pc # "claimResolve"
        BY DEF Names, At
  <2>4. UNCHANGED <<now, member, task, opened, esc, run, faults, lastWrite, told, severed>>
        BY <1>4 DEF AssignCheck, ClaimCheck, Admit, rows, history
  <2>5. contested' \subseteq Tasks
        BY <1>0, <1>4 DEF AssignCheck, ClaimCheck, Admit, history, TypeOK
  <2> QED BY <1>0, <1>b, <2>1, <2>2, <2>3, <2>4, <2>5, GotoTyped, LocalsMove DEF TypeOK
<1>5. ASSUME NEW r \in Requests, SetStatus(r) PROVE TypeOK' /\ LocalsOK'
  <2>1. PICK t \in Tasks, s \in Settable : WriteTask(t, s, task[t].assignee, "other", {})
        BY <1>5 DEF SetStatus
  <2>2. /\ task[t].assignee \in Members \cup {None}
        /\ s \in Statuses
        BY <1>0 DEF TypeOK, TaskRow
  <2>3. UNCHANGED <<now, member, opened, esc, req, run, faults>>
        BY <1>5 DEF SetStatus
  <2>4. TypeOK'
        BY <1>0, <2>1, <2>2, <2>3, WriteTaskTyped DEF TypeOK, Writers
  <2> QED BY <1>b, <2>3, <2>4, LocalsKept
<1>6. ASSUME NEW r \in Requests, DropTask(r) PROVE TypeOK' /\ LocalsOK'
  <2>1. PICK t \in Tasks : /\ WriteTask(t, "DROPPED", None, "drop", {})
                           /\ Goto(r, At("dropOpen", t, None, 0))
        BY <1>6 DEF DropTask
  <2>2. At("dropOpen", t, None, 0) \in InFlight
        BY AtTyped DEF Steps
  <2>3. Names(At("dropOpen", t, None, 0)) /\ At("dropOpen", t, None, 0).pc # "claimResolve"
        BY DEF Names, At
  <2>4. UNCHANGED <<now, member, opened, esc, run, faults>>
        BY <1>6 DEF DropTask
  <2>5. TypeOK'
        BY <1>0, <2>1, <2>2, <2>4, WriteTaskTyped, GotoTyped DEF TypeOK, Writers, Statuses
  <2> QED BY <1>b, <2>1, <2>3, <2>4, <2>5, LocalsMove
<1>7. ASSUME NEW r \in Requests, DropOpen(r) PROVE TypeOK' /\ LocalsOK'
  <2>1. req[r].task \in Tasks
        BY <1>7 DEF DropOpen, TypeInv, LocalsOK, Names
  <2>2. NewEscalation(req[r].task) \in EscRow
        BY <1>0, <2>1, EscRowNew
  <2>3. /\ opened < MaxEscalations
        /\ opened' = opened + 1
        /\ esc' = [esc EXCEPT ![opened + 1] = NewEscalation(req[r].task)]
        /\ severed' = severed \ {req[r].task}
        /\ Goto(r, Idle)
        /\ UNCHANGED <<now, member, task, run, faults, lastWrite, told, contested>>
        BY <1>7 DEF DropOpen
  <2>4. TypeOK'
        BY <1>0, <1>a, <2>2, <2>3, GotoTyped, IdleTyped DEF TypeOK, EscIds
  <2>5. RowsKept
        BY <1>0, <1>a, <2>3 DEF RowsKept, TypeOK, EscIds
  <2> QED BY <2>3, <2>4, <2>5, IdleNames, LocalsMove
<1>8. ASSUME NEW r \in Requests, ClaimFind(r) PROVE TypeOK' /\ LocalsOK'
  <2>1. req[r].task \in Tasks /\ req[r].member \in Members
        BY <1>8 DEF ClaimFind, TypeInv, LocalsOK, Names
  <2>2. UNCHANGED <<now, member, task, opened, esc, run, faults, lastWrite, told, severed, contested>>
        BY <1>8 DEF ClaimFind, rows, history
  <2>3. CASE Goto(r, Idle) \/ Goto(r, At("claimLock", req[r].task, req[r].member, 0))
    <3>1. PICK x : Goto(r, x) /\ x \in {Idle, At("claimLock", req[r].task, req[r].member, 0)}
          BY <2>3
    <3>2. x \in InFlight /\ Names(x) /\ x.pc # "claimResolve"
          BY <2>1, <3>1, IdleTyped, IdleNames, AtTyped DEF Steps, Names, At
    <3> QED BY <1>0, <1>b, <2>2, <3>1, <3>2, GotoTyped, LocalsMove DEF TypeOK
  <2>4. CASE \E e \in EscIds : /\ Newest(e, OpenFor(req[r].task))
                               /\ Goto(r, At("claimResolve", req[r].task, req[r].member, e))
    <3>1. PICK e \in EscIds : /\ Newest(e, OpenFor(req[r].task))
                              /\ Goto(r, At("claimResolve", req[r].task, req[r].member, e))
          BY <2>4
    <3> DEFINE x == At("claimResolve", req[r].task, req[r].member, e)
    <3>2. e \in 1..opened /\ esc[e].task = req[r].task
          BY <1>a, <3>1 DEF Newest, OpenFor, IsOpen, EscIds
    <3>3. x \in InFlight
          BY <1>a, <2>1, AtTyped DEF Steps, EscIds
    <3>4. Names(x) /\ Holds(x)
          BY <2>1, <3>2 DEF Names, Holds, At
    <3>5. TypeOK'
          BY <1>0, <2>2, <3>1, <3>3, GotoTyped DEF TypeOK
    <3>6. LocalsOK'
          BY <1>0, <2>2, <3>1, <3>4 DEF TypeInv, TypeOK, LocalsOK, Names, Holds, Goto
    <3> QED BY <3>5, <3>6
  <2> QED BY <1>8, <2>3, <2>4 DEF ClaimFind
<1>9. ASSUME NEW r \in Requests, ClaimResolve(r) PROVE TypeOK' /\ LocalsOK'
  <2>1. /\ req[r].task \in Tasks /\ req[r].member \in Members
        /\ req[r].esc \in EscIds
        BY <1>9, <1>a DEF ClaimResolve, TypeInv, LocalsOK, Names, Holds, EscIds
  <2> DEFINE e == req[r].esc
             x == At("claimLock", req[r].task, req[r].member, e)
  <2>2. /\ esc' = [esc EXCEPT ![e].claimedBy = req[r].member, ![e].resolved = TRUE]
        /\ Goto(r, x)
        /\ UNCHANGED <<now, member, task, opened, run, faults, lastWrite, told, severed, contested>>
        BY <1>9 DEF ClaimResolve, history
  <2>3. [esc[e] EXCEPT !.claimedBy = req[r].member, !.resolved = TRUE] \in EscRow
        BY <1>0, <2>1, EscRowResolved DEF TypeOK
  <2>4. x \in InFlight /\ Names(x) /\ x.pc # "claimResolve"
        BY <2>1, AtTyped DEF Steps, EscIds, Names, At
  <2>5. esc' \in [EscIds -> EscRow]
        BY <1>0, <2>1, <2>2, <2>3 DEF TypeOK
  <2>6. TypeOK'
        BY <1>0, <2>2, <2>4, <2>5, GotoTyped DEF TypeOK
  <2>7. RowsKept
        BY <1>0, <1>a, <2>1, <2>2 DEF RowsKept, TypeOK, EscIds, EscRow
  <2> QED BY <2>2, <2>4, <2>6, <2>7, LocalsMove
<1>10. ASSUME NEW r \in Requests, Broadcast(r) PROVE TypeOK' /\ LocalsOK'
  <2>1. PICK e \in EscIds : esc' = [esc EXCEPT ![e].broadcastAt = now]
        BY <1>10 DEF Broadcast
  <2>2. UNCHANGED <<now, member, task, opened, req, run, faults, lastWrite, told, severed, contested>>
        BY <1>10 DEF Broadcast, history
  <2>3. [esc[e] EXCEPT !.broadcastAt = now] \in EscRow
        BY <1>0, EscRowStamped DEF TypeOK
  <2>4. TypeOK'
        BY <1>0, <2>1, <2>2, <2>3 DEF TypeOK
  <2>5. RowsKept
        BY <1>0, <1>a, <2>1, <2>2 DEF RowsKept, TypeOK, EscIds, EscRow
  <2> QED BY <2>2, <2>4, <2>5, LocalsKept
<1>11. ASSUME NEW r \in Requests, ForeignKeyFails(r) \/ RequestFails(r)
       PROVE  TypeOK' /\ LocalsOK'
  <2>1. /\ Abort(r)
        /\ faults' \in 0..MaxFaults
        BY <1>0, <1>11 DEF ForeignKeyFails, RequestFails, TypeOK
  <2>2. req[r].task \in Tasks
        BY <1>11 DEF ForeignKeyFails, RequestFails, TypeInv, LocalsOK, Names
  <2>3. severed' \subseteq Tasks
        BY <1>0, <2>1, <2>2 DEF Abort, TypeOK
  <2>4. /\ Goto(r, Idle)
        /\ UNCHANGED <<now, member, task, opened, esc, run, lastWrite, told, contested>>
        BY <2>1 DEF Abort, rows
  <2>5. TypeOK'
        BY <1>0, <2>1, <2>3, <2>4, GotoTyped, IdleTyped DEF TypeOK
  <2> QED BY <1>b, <2>4, <2>5, IdleNames, LocalsMove
<1>12. ASSUME NEW k \in TimerRuns, TimerStamp(k) PROVE TypeOK' /\ LocalsOK'
  <2>1. PICK e \in run[k].stamps : /\ esc' = [esc EXCEPT ![e].broadcastAt = run[k].at]
                                   /\ run' = [run EXCEPT ![k].stamps = @ \ {e}]
        BY <1>12 DEF TimerStamp
  <2>2. UNCHANGED <<now, member, task, opened, req, faults, lastWrite, told, severed, contested>>
        BY <1>12 DEF TimerStamp, history
  <2>3. /\ e \in EscIds /\ run[k].at \in Times \cup {Never}
        /\ [run[k] EXCEPT !.stamps = @ \ {e}] \in TimerRun
        BY <1>0 DEF TypeOK, TimerRun
  <2>4. [esc[e] EXCEPT !.broadcastAt = run[k].at] \in EscRow
        BY <1>0, <2>3, EscRowStamped DEF TypeOK
  <2>5. TypeOK'
        BY <1>0, <2>1, <2>2, <2>3, <2>4 DEF TypeOK
  <2>6. RowsKept
        BY <1>0, <1>a, <2>1, <2>2, <2>3 DEF RowsKept, TypeOK, EscIds, EscRow
  <2> QED BY <2>2, <2>5, <2>6, LocalsKept
<1>13. ASSUME NEW k \in TimerRuns, TimerRead(k) \/ TimerEnd(k) \/ RunFails(k)
       PROVE  TypeOK' /\ LocalsOK'
  <2>1. PICK x : x \in TimerRun /\ run' = [run EXCEPT ![k] = x]
    <3>1. CASE TimerRead(k)
      <4> DEFINE x == [at |-> now,
                       stamps |-> {e \in EscIds : /\ IsOpen(e) /\ Aged(e, now)
                                                  /\ esc[e].broadcastAt = Never},
                       overrides |-> {e \in EscIds : IsOpen(e) /\ Overrides(e)}]
      <4>1. x \in TimerRun
            BY <1>0 DEF TypeOK, TimerRun
      <4>2. run' = [run EXCEPT ![k] = x]
            BY <3>1 DEF TimerRead
      <4> HIDE DEF x
      <4> QED BY <4>1, <4>2
    <3>2. CASE TimerEnd(k) \/ RunFails(k)
      <4>1. NoRun \in TimerRun
            BY DEF NoRun, TimerRun, Never
      <4> QED BY <3>2, <4>1 DEF TimerEnd, RunFails
    <3> QED BY <1>13, <3>1, <3>2
  <2>2. /\ UNCHANGED <<now, member, task, opened, esc, req, lastWrite, told, severed, contested>>
        /\ faults' \in 0..MaxFaults
        BY <1>0, <1>13 DEF TimerRead, TimerEnd, RunFails, rows, history, TypeOK
  <2>3. TypeOK'
        BY <1>0, <2>1, <2>2 DEF TypeOK
  <2> QED BY <1>b, <2>2, <2>3, LocalsKept
<1>14. ASSUME NEW m \in Members, RemoveMember(m) \/ SetActive(m)
       PROVE  TypeOK' /\ LocalsOK'
  <2>1. UNCHANGED <<now, opened, esc, req, run, faults, lastWrite, told, severed, contested>>
        BY <1>14 DEF RemoveMember, SetActive, history
  <2>2. member' \in [Members -> MemberRow]
        BY <1>0, <1>14 DEF RemoveMember, SetActive, TypeOK, MemberRow
  <2>3. \A t \in Tasks : [task[t] EXCEPT !.assignee = None] \in TaskRow
        BY <1>0, TaskRowReleased DEF TypeOK
  <2>4. task' \in [Tasks -> TaskRow]
        BY <1>0, <1>14, <2>3 DEF RemoveMember, SetActive, TypeOK
  <2>5. TypeOK'
        BY <1>0, <2>1, <2>2, <2>4 DEF TypeOK
  <2> QED BY <1>b, <2>1, <2>5, LocalsKept
<1>15. CASE Tick
  <2>1. /\ UNCHANGED <<member, task, opened, esc, req, run, faults, lastWrite, told, severed, contested>>
        /\ now' \in Times
        BY <1>0, <1>15 DEF Tick, rows, history, TypeOK, Times
  <2>2. TypeOK'
        BY <1>0, <2>1 DEF TypeOK
  <2> QED BY <1>b, <2>1, <2>2, LocalsKept
<1>16. CASE UNCHANGED vars
  <2>1. UNCHANGED <<now, member, task, opened, esc, req, run, faults, lastWrite, told, severed, contested>>
        BY <1>16 DEF vars, rows, history
  <2>2. TypeOK'
        BY <1>0, <2>1 DEF TypeOK
  <2> QED BY <1>b, <2>1, <2>2, LocalsKept
<1> QED
    BY <1>1, <1>2, <1>3, <1>4, <1>5, <1>6, <1>7, <1>8, <1>9, <1>10, <1>11,
       <1>12, <1>13, <1>14, <1>15, <1>16
    DEF Next, Start, Continue, Timer

\* The rows, the requests in flight and the history keep their types, and a
\* request in flight always names a task, the member it writes and, when it is
\* about to resolve an escalation, an existing row of that very task.
THEOREM TypeCorrect == Spec => []TypeOK
<1>1. Spec => []TypeInv
      BY TypeInit, TypeNext, PTL DEF Spec
<1> QED BY <1>1, PTL DEF TypeInv

-----------------------------------------------------------------------------
(* Every dropped task stays within reach of a claim.                       *)

DropInv == TypeInv /\ DropIsCovered

\* The requests on which the cover of t may rest.
Covers(x, t) ==
    /\ x.task = t
    /\ \/ x.pc = "dropOpen"
       \/ x.pc = "claimLock" /\ x.esc # 0

\* A step that neither drops t, nor takes its last open escalation, nor ends
\* a request that covers it, leaves t covered.
LEMMA CoverKept ==
    ASSUME NEW t \in Tasks, Covered(t),
           lastWrite'[t] = lastWrite[t],
           t \in severed => t \in severed',
           OpenFor(t) # {} => OpenFor(t)' # {},
           \A q \in Requests : Covers(req[q], t) => req'[q] = req[q]
    PROVE  Covered(t)'
<1> SUFFICES ASSUME lastWrite'[t] = "drop", t \notin severed'
             PROVE  OpenFor(t)' # {} \/ Coming(t)' \/ Locking(t)'
    BY DEF Covered
<1>0. OpenFor(t) # {} \/ Coming(t) \/ Locking(t)
      BY DEF Covered
<1>1. Coming(t) \/ Locking(t) => \E q \in Requests : Covers(req[q], t)
      BY DEF Coming, Locking, Covers
<1>2. CASE \E q \in Requests : Covers(req[q], t)
  <2>1. PICK q \in Requests : Covers(req[q], t)
        BY <1>2
  <2>2. Covers(req'[q], t)
        BY <2>1
  <2> QED BY <2>2 DEF Coming, Locking, Covers
<1> QED BY <1>0, <1>1, <1>2

\* OpenFor reads the escalation rows only.
LEMMA OpenForKept ==
    ASSUME NEW t \in Tasks, UNCHANGED <<opened, esc>>
    PROVE  OpenFor(t)' = OpenFor(t)
BY DEF OpenFor, IsOpen

\* A stamp leaves an escalation open.
LEMMA OpenForStamped ==
    ASSUME TypeOK, NEW t \in Tasks, NEW e \in EscIds, NEW at, UNCHANGED opened,
           esc' = [esc EXCEPT ![e].broadcastAt = at]
    PROVE  OpenFor(t)' = OpenFor(t)
<1>1. \A f \in EscIds : esc'[f].task = esc[f].task /\ esc'[f].resolved = esc[f].resolved
      BY DEF TypeOK, EscRow
<1> QED BY <1>1 DEF OpenFor, IsOpen

LEMMA DropInit == Init => DropInv
<1> SUFFICES ASSUME Init PROVE DropIsCovered
    BY TypeInit DEF DropInv
<1>1. \A t \in Tasks : lastWrite[t] = "other"
      BY DEF Init
<1> QED BY <1>1 DEF DropIsCovered, Covered

LEMMA DropNext == DropInv /\ [Next]_vars => DropInv'
<1> SUFFICES ASSUME DropInv, [Next]_vars, NEW t \in Tasks PROVE Covered(t)'
    BY TypeNext DEF DropInv, DropIsCovered
<1>0. TypeOK /\ LocalsOK /\ Covered(t) /\ TypeOK'
      BY TypeNext DEF DropInv, TypeInv, DropIsCovered
\* Steps that write neither the task row nor the escalations and move only
\* requests that cover nothing.
<1>1. ASSUME UNCHANGED <<opened, esc, lastWrite, severed>>,
             \A q \in Requests : Covers(req[q], t) => req'[q] = req[q]
      PROVE  Covered(t)'
      BY <1>0, <1>1, OpenForKept, CoverKept
<1>2. ASSUME NEW r \in Requests,
             \/ CreateTask(r) \/ AssignCheck(r) \/ ClaimCheck(r)
             \/ RouteDecide(r) \/ ClaimFind(r)
      PROVE  Covered(t)'
  <2>1. UNCHANGED <<opened, esc, lastWrite, severed>>
        BY <1>2 DEF CreateTask, AssignCheck, ClaimCheck, RouteDecide, ClaimFind, Admit, rows, history
  <2>2. req[r].pc \in {"idle", "route", "claimFind"}
        BY <1>2 DEF CreateTask, AssignCheck, ClaimCheck, RouteDecide, ClaimFind, Admit, Ready
  <2>3. \A q \in Requests : q # r => req'[q] = req[q]
        BY <1>0, <1>2 DEF CreateTask, AssignCheck, ClaimCheck, RouteDecide, ClaimFind, Admit, Goto, TypeOK
  <2> QED BY <1>1, <2>1, <2>2, <2>3 DEF Covers
\* Task writes: a write by anything but a drop makes its task none of our
\* business, a drop covers its own task.
<1>3. ASSUME NEW r \in Requests, RouteWrite(r) \/ AssignWrite(r) \/ ClaimLock(r)
      PROVE  Covered(t)'
  <2>1. PICK by \in {"other", "claim"} :
            /\ lastWrite' = [lastWrite EXCEPT ![req[r].task] = by]
            /\ severed' = severed \ {req[r].task}
        BY <1>3 DEF RouteWrite, AssignWrite, ClaimLock, WriteTask
  <2>2. UNCHANGED <<opened, esc>> /\ Goto(r, Idle)
        BY <1>3 DEF RouteWrite, AssignWrite, ClaimLock
  <2>3. CASE req[r].task = t
        BY <1>0, <2>1, <2>3 DEF Covered, TypeOK
  <2>4. CASE req[r].task # t
    <3>1. \A q \in Requests : Covers(req[q], t) => req'[q] = req[q]
          BY <1>0, <2>2, <2>4 DEF Covers, Goto, TypeOK
    <3> QED BY <1>0, <2>1, <2>2, <2>4, <3>1, OpenForKept, CoverKept DEF TypeOK
  <2> QED BY <2>3, <2>4
<1>4. ASSUME NEW r \in Requests, SetStatus(r) PROVE Covered(t)'
  <2>1. PICK u \in Tasks : /\ lastWrite' = [lastWrite EXCEPT ![u] = "other"]
                           /\ severed' = severed \ {u}
        BY <1>4 DEF SetStatus, WriteTask
  <2>2. UNCHANGED <<opened, esc, req>>
        BY <1>4 DEF SetStatus
  <2>3. CASE u = t
        BY <1>0, <2>1, <2>3 DEF Covered, TypeOK
  <2>4. CASE u # t
        BY <1>0, <2>1, <2>2, <2>4, OpenForKept, CoverKept DEF TypeOK
  <2> QED BY <2>3, <2>4
<1>5. ASSUME NEW r \in Requests, DropTask(r) PROVE Covered(t)'
  <2>1. PICK u \in Tasks : /\ lastWrite' = [lastWrite EXCEPT ![u] = "drop"]
                           /\ severed' = severed \ {u}
                           /\ Goto(r, At("dropOpen", u, None, 0))
        BY <1>5 DEF DropTask, WriteTask
  <2>2. UNCHANGED <<opened, esc>> /\ req[r].pc = "idle"
        BY <1>5 DEF DropTask, Ready
  <2>3. CASE u = t
    <3>1. req'[r] = At("dropOpen", t, None, 0)
          BY <1>0, <2>1, <2>3 DEF Goto, TypeOK
    <3> QED BY <3>1 DEF Covered, Coming, At
  <2>4. CASE u # t
    <3>1. \A q \in Requests : Covers(req[q], t) => req'[q] = req[q]
          BY <1>0, <2>1, <2>2 DEF Covers, Goto, TypeOK
    <3> QED BY <1>0, <2>1, <2>2, <2>4, <3>1, OpenForKept, CoverKept DEF TypeOK
  <2> QED BY <2>3, <2>4
\* The drop's second write hands the cover over to the new row.
<1>6. ASSUME NEW r \in Requests, DropOpen(r) PROVE Covered(t)'
  <2>1. /\ opened < MaxEscalations /\ opened' = opened + 1
        /\ esc' = [esc EXCEPT ![opened + 1] = NewEscalation(req[r].task)]
        /\ severed' = severed \ {req[r].task}
        /\ lastWrite' = lastWrite
        /\ Goto(r, Idle)
        BY <1>6 DEF DropOpen
  <2>2. opened + 1 \in EscIds /\ opened \in Nat
        BY <1>0, <2>1 DEF TypeOK, EscIds
  <2>3. CASE req[r].task = t
    <3>1. esc'[opened + 1].task = t /\ ~esc'[opened + 1].resolved
          BY <1>0, <2>1, <2>2, <2>3 DEF TypeOK, NewEscalation
    <3>2. opened + 1 \in OpenFor(t)'
          BY <2>1, <2>2, <3>1 DEF OpenFor, IsOpen
    <3> QED BY <3>2 DEF Covered
  <2>4. CASE req[r].task # t
    <3>1. \A e \in OpenFor(t) : e \in OpenFor(t)'
          BY <1>0, <2>1, <2>2 DEF OpenFor, IsOpen, TypeOK, EscIds
    <3>2. \A q \in Requests : Covers(req[q], t) => req'[q] = req[q]
          BY <1>0, <2>1, <2>4 DEF Covers, Goto, TypeOK
    <3> QED BY <1>0, <2>1, <2>4, <3>1, <3>2, CoverKept
  <2> QED BY <2>3, <2>4
\* The claim's first write takes one escalation of its own task, and from
\* then on the claim itself is the cover.
<1>7. ASSUME NEW r \in Requests, ClaimResolve(r) PROVE Covered(t)'
  <2> DEFINE e == req[r].esc
  <2>1. e \in 1..opened /\ e \in EscIds /\ esc[e].task = req[r].task
        BY <1>0, <1>7 DEF ClaimResolve, LocalsOK, Holds, TypeOK, EscIds
  <2>2. /\ esc' = [esc EXCEPT ![e].claimedBy = req[r].member, ![e].resolved = TRUE]
        /\ req' = [req EXCEPT ![r] = At("claimLock", req[r].task, req[r].member, e)]
        /\ UNCHANGED <<opened, lastWrite, severed>>
        /\ req[r].pc = "claimResolve"
        BY <1>7 DEF ClaimResolve, Goto, history
  <2>3. CASE req[r].task = t
    <3>1. req'[r] = At("claimLock", t, req[r].member, e)
          BY <1>0, <2>2, <2>3 DEF TypeOK
    <3>2. Locking(t)'
          BY <2>1, <3>1 DEF Locking, At
    <3> QED BY <3>2 DEF Covered
  <2>4. CASE req[r].task # t
    <3>1. \A f \in OpenFor(t) : f # e
          BY <2>1, <2>4 DEF OpenFor
    <3>2. \A f \in OpenFor(t) : f \in OpenFor(t)'
          BY <1>0, <2>2, <3>1 DEF OpenFor, IsOpen, TypeOK
    <3>3. \A q \in Requests : Covers(req[q], t) => req'[q] = req[q]
          BY <1>0, <2>2 DEF Covers, TypeOK
    <3> QED BY <1>0, <2>2, <3>2, <3>3, CoverKept
  <2> QED BY <2>3, <2>4
<1>8. ASSUME NEW r \in Requests, ForeignKeyFails(r) \/ RequestFails(r)
      PROVE  Covered(t)'
  <2>1. Abort(r)
        BY <1>8 DEF ForeignKeyFails, RequestFails
  <2>2. CASE Covers(req[r], t)
    <3>1. t \in severed'
          BY <2>1, <2>2 DEF Abort, Covers
    <3> QED BY <3>1 DEF Covered
  <2>3. CASE ~Covers(req[r], t)
    <3>1. \A q \in Requests : Covers(req[q], t) => req'[q] = req[q]
          BY <1>0, <2>1, <2>3 DEF Abort, Goto, TypeOK
    <3>2. UNCHANGED <<opened, esc, lastWrite>> /\ severed \subseteq severed'
          BY <2>1 DEF Abort, rows
    <3> QED BY <1>0, <3>1, <3>2, OpenForKept, CoverKept
  <2> QED BY <2>2, <2>3
\* A broadcast stamp, by a request or by the timer.
<1>9. ASSUME NEW e \in EscIds, NEW at, esc' = [esc EXCEPT ![e].broadcastAt = at],
             UNCHANGED <<opened, req, lastWrite, severed>>
      PROVE  Covered(t)'
      BY <1>0, <1>9, OpenForStamped, CoverKept
<1>10. ASSUME NEW r \in Requests, Broadcast(r) PROVE Covered(t)'
       BY <1>9, <1>10 DEF Broadcast, history
<1>11. ASSUME NEW k \in TimerRuns, TimerStamp(k) PROVE Covered(t)'
  <2>1. run[k].stamps \subseteq EscIds
        BY <1>0 DEF TypeOK, TimerRun
  <2> QED BY <1>9, <1>11, <2>1 DEF TimerStamp, history
<1>12. ASSUME \/ \E k \in TimerRuns : TimerRead(k) \/ TimerEnd(k) \/ RunFails(k)
              \/ \E m \in Members : RemoveMember(m) \/ SetActive(m)
              \/ Tick
              \/ UNCHANGED vars
       PROVE  Covered(t)'
  <2>1. UNCHANGED <<opened, esc, lastWrite, severed, req>>
        BY <1>12 DEF TimerRead, TimerEnd, RunFails, RemoveMember, SetActive, Tick, vars, rows, history
  <2> QED BY <1>1, <2>1
<1> QED
    BY <1>2, <1>3, <1>4, <1>5, <1>6, <1>7, <1>8, <1>10, <1>11, <1>12
    DEF Next, Start, Continue, Timer

\* However drops, claims, assignments, status changes and failures interleave
\* statement by statement, a task last written by a drop whose handlers all
\* survive can be claimed: an escalation is open, about to be opened, or taken
\* by a claim that is about to lock the task (tasks.service.ts 124-219).
THEOREM DropStaysCovered == Spec => []DropIsCovered
<1>1. Spec => []DropInv
      BY DropInit, DropNext, PTL DEF Spec
<1> QED BY <1>1, PTL DEF DropInv

-----------------------------------------------------------------------------
(* The timer.                                                              *)

\* A run began in the past; a slot with no run has nothing to stamp.
RunClock ==
    \A k \in TimerRuns :
        /\ run[k].at <= now
        /\ run[k].at = Never => run[k].stamps = {}

\* What one run owes one escalation.
Listed(k, e) ==
    /\ run[k].at # Never
    /\ IsOpen(e)
    /\ esc[e].broadcastAt = Never
    /\ run[k].at - esc[e].createdAt >= BroadcastAfter
    => e \in run[k].stamps

RunInv == TypeInv /\ RunClock /\ RunMissesNothing

LEMMA RunInit == Init => RunInv
<1> SUFFICES ASSUME Init PROVE RunClock /\ RunMissesNothing
    BY TypeInit DEF RunInv
<1>1. \A k \in TimerRuns : run[k].at = Never /\ run[k].stamps = {}
      BY DEF Init, NoRun
<1>2. now = 0
      BY DEF Init
<1> QED BY <1>1, <1>2 DEF RunClock, RunMissesNothing, Never

LEMMA RunClockNext == TypeInv /\ RunClock /\ [Next]_vars => RunClock'
<1> SUFFICES ASSUME TypeInv, RunClock, [Next]_vars PROVE RunClock'
    OBVIOUS
<1>0. TypeOK /\ now \in Nat /\ \A k \in TimerRuns : run[k].at \in Int
      BY DEF TypeInv, TypeOK, TimerRun, Times, Never
<1>1. CASE UNCHANGED run /\ now <= now' /\ now' \in Nat
      BY <1>0, <1>1 DEF RunClock
<1>2. ASSUME NEW k \in TimerRuns, TimerRead(k) PROVE RunClock'
      BY <1>0, <1>2 DEF TimerRead, RunClock, TypeOK, Times, Never
<1>3. ASSUME NEW k \in TimerRuns, TimerStamp(k) PROVE RunClock'
  <2>1. PICK e \in run[k].stamps : run' = [run EXCEPT ![k].stamps = @ \ {e}]
        BY <1>3 DEF TimerStamp
  <2>2. /\ run'[k].at = run[k].at /\ run'[k].stamps \subseteq run[k].stamps
        /\ \A j \in TimerRuns : j # k => run'[j] = run[j]
        BY <1>0, <2>1 DEF TypeOK, TimerRun
  <2>3. UNCHANGED now
        BY <1>3 DEF TimerStamp
  <2> QED BY <2>2, <2>3 DEF RunClock
<1>4. ASSUME NEW k \in TimerRuns, TimerEnd(k) \/ RunFails(k) PROVE RunClock'
  <2>1. run' = [run EXCEPT ![k] = NoRun] /\ UNCHANGED now
        BY <1>4 DEF TimerEnd, RunFails
  <2> QED BY <1>0, <2>1 DEF RunClock, TypeOK, NoRun, Never
<1>5. ASSUME NEW r \in Requests, Start(r) \/ Continue(r) \/ RequestFails(r)
      PROVE  UNCHANGED <<run, now>>
      BY <1>5 DEF Start, Continue, CreateTask, AssignCheck, SetStatus, DropTask, ClaimCheck,
         Broadcast, RouteDecide, RouteWrite, AssignWrite, DropOpen, ClaimFind, ClaimResolve,
         ClaimLock, ForeignKeyFails, RequestFails, Abort, Admit
<1>6. ASSUME NEW m \in Members, RemoveMember(m) \/ SetActive(m)
      PROVE  UNCHANGED <<run, now>>
      BY <1>6 DEF RemoveMember, SetActive
<1>7. CASE Tick
      BY <1>0, <1>1, <1>7 DEF Tick
<1>8. CASE UNCHANGED vars
      BY <1>0, <1>1, <1>8 DEF vars
<1> QED
    BY <1>0, <1>1, <1>2, <1>3, <1>4, <1>5, <1>6, <1>7, <1>8 DEF Next, Timer

\* Nobody but the timer moves a run, and every other write leaves each
\* escalation as it was, stamps it, resolves it, or appends a younger one.
LEMMA ListedKept ==
    ASSUME TypeInv, RunClock, NEW k \in TimerRuns, NEW e \in EscIds, Listed(k, e),
           run'[k] = run[k],
           IsOpen(e)' /\ esc'[e].broadcastAt = Never =>
               \/ /\ IsOpen(e) /\ esc[e].broadcastAt = Never
                  /\ esc'[e].createdAt = esc[e].createdAt
               \/ esc'[e].createdAt = now
    PROVE  Listed(k, e)'
<1>1. /\ run[k].at \in Int /\ now \in Int /\ run[k].at <= now
      BY DEF TypeInv, TypeOK, TimerRun, Times, Never, RunClock
<1> QED BY <1>1 DEF Listed

LEMMA RunNext == RunInv /\ [Next]_vars => RunInv'
<1> SUFFICES ASSUME RunInv, [Next]_vars PROVE RunMissesNothing'
    BY TypeNext, RunClockNext DEF RunInv
<1> SUFFICES ASSUME NEW k \in TimerRuns, NEW e \in EscIds PROVE Listed(k, e)'
    BY DEF RunMissesNothing, Listed
<1>0. TypeInv /\ TypeOK /\ LocalsOK /\ RunClock /\ Listed(k, e)
      BY DEF RunInv, TypeInv, RunMissesNothing, Listed
<1>1. CASE UNCHANGED <<run, opened, esc>>
      BY <1>1, <1>0 DEF Listed, IsOpen
<1>2. ASSUME NEW r \in Requests,
             \/ CreateTask(r) \/ AssignCheck(r) \/ SetStatus(r) \/ DropTask(r) \/ ClaimCheck(r)
             \/ RouteDecide(r) \/ RouteWrite(r) \/ AssignWrite(r) \/ ClaimFind(r)
             \/ ClaimLock(r) \/ ForeignKeyFails(r) \/ RequestFails(r)
      PROVE  UNCHANGED <<run, opened, esc>>
      BY <1>2 DEF CreateTask, AssignCheck, SetStatus, DropTask, ClaimCheck, RouteDecide, RouteWrite,
         AssignWrite, ClaimFind, ClaimLock, ForeignKeyFails, RequestFails, Abort, Admit, rows
<1>3. ASSUME NEW r \in Requests, Broadcast(r) PROVE Listed(k, e)'
  <2>1. PICK f \in EscIds : esc' = [esc EXCEPT ![f].broadcastAt = now]
        BY <1>3 DEF Broadcast
  <2>2. now # Never /\ UNCHANGED <<run, opened>>
        BY <1>0, <1>3 DEF Broadcast, TypeOK, Times, Never
  <2>3. CASE e = f
        BY <1>0, <2>1, <2>2, <2>3 DEF Listed, TypeOK, EscRow
  <2>4. CASE e # f
        BY <1>0, <2>1, <2>2, <2>4 DEF Listed, IsOpen, TypeOK
  <2> QED BY <2>3, <2>4
<1>4. ASSUME NEW r \in Requests, DropOpen(r) PROVE Listed(k, e)'
  <2>1. /\ opened' = opened + 1 /\ opened \in Nat /\ UNCHANGED run
        /\ esc' = [esc EXCEPT ![opened + 1] = NewEscalation(req[r].task)]
        BY <1>0, <1>4 DEF DropOpen, TypeOK
  <2>2. CASE e = opened + 1
    <3>1. esc'[e].createdAt = now
          BY <1>0, <2>1, <2>2 DEF NewEscalation, TypeOK
    <3> QED BY <1>0, <2>1, <3>1, ListedKept
  <2>3. CASE e # opened + 1
    <3>1. esc'[e] = esc[e] /\ (e <= opened' => e <= opened)
          BY <1>0, <2>1, <2>3 DEF TypeOK, EscIds
    <3> QED BY <1>0, <2>1, <3>1 DEF Listed, IsOpen
  <2> QED BY <2>2, <2>3
<1>5. ASSUME NEW r \in Requests, ClaimResolve(r) PROVE Listed(k, e)'
  <2> DEFINE f == req[r].esc
  <2>1. /\ esc' = [esc EXCEPT ![f].claimedBy = req[r].member, ![f].resolved = TRUE]
        /\ UNCHANGED <<run, opened>>
        BY <1>5 DEF ClaimResolve
  <2>2. CASE e = f
    <3>1. esc'[e].resolved
          BY <1>0, <2>1, <2>2 DEF TypeOK, EscRow
    <3> QED BY <3>1 DEF Listed, IsOpen
  <2>3. CASE e # f
        BY <1>0, <2>1, <2>3 DEF Listed, IsOpen, TypeOK
  <2> QED BY <2>2, <2>3
<1>6. ASSUME NEW j \in TimerRuns, TimerRead(j) PROVE Listed(k, e)'
  <2>1. UNCHANGED <<opened, esc, now>> /\ now \in Int
        BY <1>0, <1>6 DEF TimerRead, rows, TypeOK, Times
  <2>2. CASE j = k
    <3>1. /\ run'[k].at = now
          /\ run'[k].stamps = {f \in EscIds : /\ IsOpen(f) /\ Aged(f, now)
                                              /\ esc[f].broadcastAt = Never}
          BY <1>0, <1>6, <2>2 DEF TimerRead, TypeOK
    <3>2. esc[e].createdAt \in Int
          BY <1>0 DEF TypeOK, EscRow, Times
    <3> QED BY <2>1, <3>1, <3>2 DEF Listed, IsOpen, Aged
  <2>3. CASE j # k
    <3>1. run'[k] = run[k]
          BY <1>0, <1>6, <2>3 DEF TimerRead, TypeOK
    <3> QED BY <1>0, <2>1, <3>1 DEF Listed, IsOpen
  <2> QED BY <2>2, <2>3
<1>7. ASSUME NEW j \in TimerRuns, TimerStamp(j) PROVE Listed(k, e)'
  <2>1. PICK f \in run[j].stamps : /\ esc' = [esc EXCEPT ![f].broadcastAt = run[j].at]
                                   /\ run' = [run EXCEPT ![j].stamps = @ \ {f}]
        BY <1>7 DEF TimerStamp
  <2>2. f \in EscIds /\ run[j].at # Never /\ UNCHANGED opened
        BY <1>0, <1>7, <2>1 DEF TypeOK, TimerRun, RunClock, TimerStamp
  <2>3. CASE e = f
    <3>1. esc'[e].broadcastAt # Never
          BY <1>0, <2>1, <2>2, <2>3 DEF TypeOK, EscRow
    <3> QED BY <3>1 DEF Listed
  <2>4. CASE e # f
    <3>1. esc'[e] = esc[e]
          BY <1>0, <2>1, <2>4 DEF TypeOK
    <3>2. run'[k].at = run[k].at /\ (e \in run[k].stamps => e \in run'[k].stamps)
          BY <1>0, <2>1, <2>4 DEF TypeOK, TimerRun
    <3> QED BY <1>0, <2>2, <3>1, <3>2 DEF Listed, IsOpen
  <2> QED BY <2>3, <2>4
<1>8. ASSUME NEW j \in TimerRuns, TimerEnd(j) \/ RunFails(j) PROVE Listed(k, e)'
  <2>1. run' = [run EXCEPT ![j] = NoRun] /\ UNCHANGED <<opened, esc>>
        BY <1>8 DEF TimerEnd, RunFails, rows
  <2> QED BY <1>0, <2>1 DEF Listed, IsOpen, NoRun, TypeOK
<1>9. ASSUME NEW m \in Members, RemoveMember(m) \/ SetActive(m)
      PROVE  UNCHANGED <<run, opened, esc>>
      BY <1>9 DEF RemoveMember, SetActive
<1>10. CASE Tick \/ UNCHANGED vars
       BY <1>1, <1>10 DEF Tick, vars, rows
<1> QED
    BY <1>1, <1>2, <1>3, <1>4, <1>5, <1>6, <1>7, <1>8, <1>9, <1>10
    DEF Next, Start, Continue, Timer

\* Whatever requests and other runs do between a run's single read and its
\* updates, the run still has on its list every escalation that was due when
\* it began and is open and never broadcast now (escalationTimer 150-182).
THEOREM TimerMissesNothing == Spec => []RunMissesNothing
<1>1. Spec => []RunInv
      BY RunInit, RunNext, PTL DEF Spec
<1> QED BY <1>1, PTL DEF RunInv

-----------------------------------------------------------------------------
(***************************************************************************)
(* Claims, whatever overlaps them: an accepted claim of a task that no two *)
(* claims were in flight for at once is exclusive, its escalation stays as *)
(* it was resolved, and the handlers implement the lock of ClaimLock.      *)
(***************************************************************************)

\* A claim of t is on its way.
On(q, t) == Claiming(req[q]) /\ req[q].task = t

\* Of an uncontested task one claim is in flight at most; it passed a check
\* of the lock, so nobody was told they hold the task; and the escalation it
\* is about to resolve is still open.
Lone(t) ==
    t \notin contested =>
        /\ \A p, q \in Requests : On(p, t) /\ On(q, t) => p = q
        /\ (\E q \in Requests : On(q, t)) => told[t] = {}
        /\ \A q \in Requests :
               On(q, t) /\ req[q].pc = "claimResolve" => ~esc[req[q].esc].resolved
        /\ Held(t)

LoneInv == TypeInv /\ \A t \in Tasks : Lone(t)

LEMMA LoneInit == Init => LoneInv
<1> SUFFICES ASSUME Init, NEW t \in Tasks PROVE Lone(t)
    BY TypeInit DEF LoneInv
<1>1. told[t] = {} /\ \A q \in Requests : ~Claiming(req[q])
      BY DEF Init, Claiming, Idle
<1> QED BY <1>1 DEF Lone, On, Held

\* A task update, seen from the history and the rows.
LEMMA Written ==
    ASSUME TypeOK, NEW t \in Tasks, NEW s, NEW m, NEW by, NEW h,
           WriteTask(t, s, m, by, h)
    PROVE  /\ task'[t].status = s /\ task'[t].assignee = m /\ told'[t] = h
           /\ contested' = contested
           /\ \A u \in Tasks : u # t => task'[u] = task[u] /\ told'[u] = told[u]
BY DEF TypeOK, TaskRow, WriteTask

\* What an update leaves of the promise to the other holders.
LEMMA WrittenHeld ==
    ASSUME TypeOK, NEW t \in Tasks, NEW s, NEW m, NEW by, NEW h, NEW u \in Tasks,
           WriteTask(t, s, m, by, h), UNCHANGED member, Held(u),
           u # t \/ h = {} \/ (s = "CLAIMED" /\ h = {m})
    PROVE  Held(u)'
BY Written DEF Held, IsMember

\* Every step but a claim's own: no claim comes to t, none of its escalations
\* changes, and what was promised of t still holds or is forgotten.
LEMMA LoneKept ==
    ASSUME TypeInv, NEW t \in Tasks, Lone(t),
           contested' = contested,
           \A q \in Requests : req'[q] = req[q] \/ ~Claiming(req'[q]),
           \A e \in 1..opened : esc'[e].resolved = esc[e].resolved,
           told'[t] = {} \/ told'[t] = told[t],
           Held(t) => Held(t)'
    PROVE  Lone(t)'
<1>1. ASSUME NEW q \in Requests, On(q, t)' PROVE On(q, t) /\ req'[q] = req[q]
      BY <1>1 DEF On
<1>2. ASSUME NEW q \in Requests, On(q, t)', req'[q].pc = "claimResolve"
      PROVE  esc'[req'[q].esc].resolved = esc[req[q].esc].resolved
      BY <1>1, <1>2 DEF TypeInv, LocalsOK, Holds
<1> QED BY <1>1, <1>2 DEF Lone

LEMMA GotoOthers ==
    ASSUME TypeOK, NEW r \in Requests, NEW x, Goto(r, x)
    PROVE  /\ req'[r] = x
           /\ \A q \in Requests : q # r => req'[q] = req[q]
BY DEF TypeOK, Goto

LEMMA LoneNext == LoneInv /\ [Next]_vars => LoneInv'
<1> SUFFICES ASSUME LoneInv, [Next]_vars, NEW t \in Tasks PROVE Lone(t)'
    BY TypeNext DEF LoneInv
<1>0. TypeOK /\ TypeInv /\ LocalsOK /\ Lone(t) /\ opened \in Nat
      BY DEF LoneInv, TypeInv, TypeOK
<1>a. ASSUME UNCHANGED <<task, told, member>> PROVE Held(t) => Held(t)'
      BY <1>a DEF Held, IsMember
\* Statements that write neither a task row nor an escalation.
<1>1. ASSUME NEW r \in Requests,
             RouteDecide(r) \/ AssignCheck(r) \/ ForeignKeyFails(r) \/ RequestFails(r)
      PROVE  Lone(t)'
  <2>1. UNCHANGED <<task, told, member, esc, contested>>
        BY <1>1 DEF RouteDecide, AssignCheck, ForeignKeyFails, RequestFails, Abort, rows, history
  <2>2. PICK x : Goto(r, x) /\ ~Claiming(x)
    <3>1. \/ Goto(r, Idle)
          \/ \E u, m : Goto(r, At("routeWrite", u, m, 0)) \/ Goto(r, At("assignWrite", u, m, 0))
          BY <1>1 DEF RouteDecide, AssignCheck, ForeignKeyFails, RequestFails, Abort
    <3>2. \A u, m : /\ ~Claiming(Idle)
                    /\ ~Claiming(At("routeWrite", u, m, 0))
                    /\ ~Claiming(At("assignWrite", u, m, 0))
          BY DEF Claiming, Idle, At
    <3> QED BY <3>1, <3>2
  <2> QED BY <1>0, <1>a, <2>1, <2>2, GotoOthers, LoneKept
<1>2. ASSUME NEW r \in Requests, CreateTask(r) PROVE Lone(t)'
  <2>1. PICK u \in Tasks, due \in DueTimes, noRoute \in BOOLEAN :
          /\ ~Exists(u)
          /\ task' = [task EXCEPT ![u] = [status |-> "OPEN", assignee |-> None, dueAt |-> due]]
          /\ Goto(r, IF noRoute THEN Idle ELSE At("route", u, None, 0))
        BY <1>2 DEF CreateTask
  <2>2. UNCHANGED <<told, member, esc, contested>>
        BY <1>2 DEF CreateTask, history
  <2>3. Held(t) => Held(t)'
    <3>1. CASE t = u
      <4>1. Held(t) => told[t] = {}
            BY <2>1, <3>1 DEF Held, Exists
      <4> QED BY <2>2, <4>1 DEF Held
    <3>2. CASE t # u
          BY <1>0, <2>1, <2>2, <3>2 DEF Held, IsMember, TypeOK
    <3> QED BY <3>1, <3>2
  <2>4. ~Claiming(Idle) /\ ~Claiming(At("route", u, None, 0))
        BY DEF Claiming, Idle, At
  <2>5. \A q \in Requests : req'[q] = req[q] \/ ~Claiming(req'[q])
        BY <1>0, <2>1, <2>4, GotoOthers
  <2> QED BY <1>0, <2>2, <2>3, <2>5, LoneKept
\* Task updates by anything but a claim forget what was promised.
<1>3. ASSUME NEW r \in Requests, RouteWrite(r) \/ AssignWrite(r) \/ SetStatus(r) \/ DropTask(r)
      PROVE  Lone(t)'
  <2>0. \E u \in Tasks : \E s, m, by : WriteTask(u, s, m, by, {})
        BY <1>0, <1>3 DEF RouteWrite, AssignWrite, SetStatus, DropTask, LocalsOK, Names
  <2>1. PICK u, s, m, by : u \in Tasks /\ WriteTask(u, s, m, by, {})
        BY <2>0
  <2>2. UNCHANGED <<member, esc>>
        BY <1>3 DEF RouteWrite, AssignWrite, SetStatus, DropTask
  <2>3. \A q \in Requests : req'[q] = req[q] \/ ~Claiming(req'[q])
    <3>1. \/ UNCHANGED req \/ Goto(r, Idle) \/ \E v : Goto(r, At("dropOpen", v, None, 0))
          BY <1>3 DEF RouteWrite, AssignWrite, SetStatus, DropTask
    <3>2. ~Claiming(Idle) /\ \A v : ~Claiming(At("dropOpen", v, None, 0))
          BY DEF Claiming, Idle, At
    <3> QED BY <1>0, <3>1, <3>2, GotoOthers
  <2>4. told'[t] = {} \/ told'[t] = told[t]
        BY <1>0, <2>1, Written
  <2>5. Held(t) => Held(t)'
        BY <1>0, <2>1, <2>2, WrittenHeld
  <2>6. contested' = contested
        BY <2>1 DEF WriteTask
  <2> QED BY <1>0, <2>2, <2>3, <2>4, <2>5, <2>6, LoneKept
<1>4. ASSUME NEW r \in Requests, DropOpen(r) PROVE Lone(t)'
  <2>1. /\ UNCHANGED <<task, told, member, contested>> /\ Goto(r, Idle)
        /\ esc' = [esc EXCEPT ![opened + 1] = NewEscalation(req[r].task)]
        BY <1>4 DEF DropOpen
  <2>2. \A e \in 1..opened : esc'[e].resolved = esc[e].resolved
        BY <1>0, <2>1 DEF TypeOK, EscIds
  <2>3. ~Claiming(Idle)
        BY DEF Claiming, Idle
  <2> QED BY <1>0, <1>a, <2>1, <2>2, <2>3, GotoOthers, LoneKept
\* A claim let in beside another contests the task; a first one finds the lock
\* free, and so nobody holding it.
<1>5. ASSUME NEW r \in Requests, ClaimCheck(r) PROVE Lone(t)'
  <2>1. PICK u \in Tasks, m \in Members : task[u].status \notin Locked /\ Admit(r, u, m)
        BY <1>5 DEF ClaimCheck
  <2>2. /\ UNCHANGED <<task, told, member, esc>> /\ Goto(r, At("claimFind", u, m, 0))
        /\ contested' = IF ClaimOn(u) THEN contested \cup {u} ELSE contested
        BY <2>1 DEF Admit, rows
  <2>3. /\ req'[r] = At("claimFind", u, m, 0)
        /\ \A q \in Requests : q # r => req'[q] = req[q]
        BY <1>0, <2>2, GotoOthers
  <2>4. CASE t = u
    <3> SUFFICES ASSUME t \notin contested'
                 PROVE  /\ \A p, q \in Requests : On(p, t)' /\ On(q, t)' => p = q
                        /\ told'[t] = {}
                        /\ \A q \in Requests : On(q, t)' => req'[q].pc # "claimResolve"
                        /\ Held(t)'
        BY DEF Lone
    <3>1. t \notin contested /\ \A q \in Requests : ~On(q, t)
          BY <2>2, <2>4 DEF ClaimOn, On
    <3>2. told[t] = {}
          BY <1>0, <2>1, <2>4, <3>1 DEF Lone, Held, Locked
    <3>3. \A q \in Requests : On(q, t)' => q = r
          BY <2>3, <3>1 DEF On
    <3> QED BY <2>2, <2>3, <3>2, <3>3 DEF At, Held
  <2>5. CASE t # u
    <3>1. \A q \in Requests : On(q, t)' => On(q, t) /\ req'[q] = req[q]
          BY <2>3, <2>5 DEF On, At
    <3>2. t \in contested' <=> t \in contested
          BY <2>2, <2>5
    <3> QED BY <1>0, <1>a, <2>2, <3>1, <3>2 DEF Lone
  <2> QED BY <2>4, <2>5
<1>6. ASSUME NEW r \in Requests, ClaimFind(r) PROVE Lone(t)'
  <2> DEFINE u == req[r].task
             m == req[r].member
  <2>1. UNCHANGED <<task, told, member, esc, contested>> /\ Claiming(req[r])
        BY <1>6 DEF ClaimFind, Claiming, rows, history
  <2>2. PICK x : /\ Goto(r, x)
                 /\ \/ x = Idle
                    \/ x = At("claimLock", u, m, 0)
                    \/ \E e \in EscIds : ~esc[e].resolved /\ x = At("claimResolve", u, m, e)
    <3>1. \/ Goto(r, Idle) \/ Goto(r, At("claimLock", u, m, 0))
          \/ \E e \in EscIds : ~esc[e].resolved /\ Goto(r, At("claimResolve", u, m, e))
          BY <1>6 DEF ClaimFind, CoreClaimOk
    <3> QED BY <3>1, Zenon
  <2>3. /\ Claiming(x) => x.task = u
        /\ x.pc = "claimResolve" => ~esc[x.esc].resolved
        BY <2>2 DEF Idle, At, Claiming
  <2>4. req'[r] = x /\ \A q \in Requests : q # r => req'[q] = req[q]
        BY <1>0, <2>2, GotoOthers
  <2>5. \A q \in Requests : On(q, t)' => On(q, t) /\ (req'[q] = req[q] \/ req'[q] = x)
        BY <2>1, <2>3, <2>4 DEF On
  <2> QED BY <1>0, <1>a, <2>1, <2>3, <2>5 DEF Lone
<1>7. ASSUME NEW r \in Requests, ClaimResolve(r) PROVE Lone(t)'
  <2> DEFINE e == req[r].esc
             x == At("claimLock", req[r].task, req[r].member, e)
  <2>1. /\ esc' = [esc EXCEPT ![e].claimedBy = req[r].member, ![e].resolved = TRUE]
        /\ Goto(r, x)
        /\ UNCHANGED <<task, told, member, contested>>
        /\ req[r].pc = "claimResolve" /\ Claiming(req[r])
        BY <1>7 DEF ClaimResolve, Claiming, history
  <2>2. e \in 1..opened /\ esc[e].task = req[r].task
        BY <1>0, <2>1 DEF LocalsOK, Holds
  <2>3. req'[r] = x /\ \A q \in Requests : q # r => req'[q] = req[q]
        BY <1>0, <2>1, GotoOthers
  <2>4. x.pc = "claimLock" /\ x.task = req[r].task
        BY DEF At
  <2>5. \A q \in Requests : On(q, t)' => On(q, t)
        BY <2>1, <2>3, <2>4 DEF On
  <2>6. ASSUME t \notin contested, NEW q \in Requests, On(q, t)', req'[q].pc = "claimResolve"
        PROVE  ~esc'[req'[q].esc].resolved
    <3>1. q # r /\ req'[q] = req[q] /\ On(q, t)
          BY <2>3, <2>4, <2>5, <2>6
    <3>2. ~On(r, t) /\ ~esc[req[q].esc].resolved
          BY <1>0, <2>6, <3>1 DEF Lone
    <3>3. req[q].esc \in 1..opened /\ esc[req[q].esc].task = t
          BY <1>0, <2>6, <3>1 DEF LocalsOK, Holds, On
    <3>4. req[q].esc # e
          BY <2>1, <2>2, <3>2, <3>3 DEF On
    <3>5. esc'[req[q].esc] = esc[req[q].esc]
          BY <1>0, <2>1, <3>3, <3>4 DEF TypeOK, EscIds
    <3> QED BY <3>1, <3>2, <3>5
  <2> QED BY <1>0, <1>a, <2>1, <2>5, <2>6 DEF Lone
<1>8. ASSUME NEW r \in Requests, ClaimLock(r) PROVE Lone(t)'
  <2>1. PICK u \in Tasks, m \in Members : u = req[r].task /\ m = req[r].member
        BY <1>0, <1>8 DEF ClaimLock, LocalsOK, Names
  <2>2. /\ WriteTask(u, "CLAIMED", m, "claim", told[u] \cup {m})
        /\ Goto(r, Idle) /\ UNCHANGED <<member, esc>> /\ Claiming(req[r])
        BY <1>8, <2>1 DEF ClaimLock, Claiming
  <2>3. req'[r] = Idle /\ \A q \in Requests : q # r => req'[q] = req[q]
        BY <1>0, <2>2, GotoOthers
  <2>4. ~Claiming(Idle)
        BY DEF Claiming, Idle
  <2>5. \A q \in Requests : On(q, t)' => q # r /\ On(q, t) /\ req'[q] = req[q]
        BY <2>3, <2>4 DEF On
  <2>6. contested' = contested
        BY <2>2 DEF WriteTask
  <2>7. CASE t # u
    <3>1. told'[t] = told[t]
          BY <1>0, <2>2, <2>7, Written
    <3>2. Held(t) => Held(t)'
          BY <1>0, <2>2, <2>7, WrittenHeld
    <3> QED BY <1>0, <2>2, <2>5, <2>6, <3>1, <3>2 DEF Lone
  <2>8. CASE t = u
    <3> SUFFICES ASSUME t \notin contested'
                 PROVE  (\A q \in Requests : ~On(q, t)') /\ Held(t)'
        BY DEF Lone
    <3>1. t \notin contested /\ On(r, t) /\ told[t] = {}
          BY <1>0, <2>1, <2>2, <2>6, <2>8 DEF Lone, On
    <3>2. \A q \in Requests : ~On(q, t)'
          BY <1>0, <2>5, <3>1 DEF Lone
    <3>3. told[u] \cup {m} = {m}
          BY <2>8, <3>1
    <3>4. Held(t)'
          BY <1>0, <2>2, <2>8, <3>1, <3>3, WrittenHeld DEF Lone
    <3> QED BY <3>2, <3>4
  <2> QED BY <2>7, <2>8
<1>9. ASSUME NEW e \in EscIds, NEW at, esc' = [esc EXCEPT ![e].broadcastAt = at],
             UNCHANGED <<task, told, member, req, contested>>
      PROVE  Lone(t)'
  <2>1. \A f \in 1..opened : esc'[f].resolved = esc[f].resolved
        BY <1>0, <1>9 DEF TypeOK, EscRow, EscIds
  <2> QED BY <1>0, <1>a, <1>9, <2>1, LoneKept
<1>10. ASSUME NEW r \in Requests, Broadcast(r) PROVE Lone(t)'
       BY <1>9, <1>10 DEF Broadcast, history
<1>11. ASSUME NEW k \in TimerRuns, TimerStamp(k) PROVE Lone(t)'
  <2>1. run[k].stamps \subseteq EscIds
        BY <1>0 DEF TypeOK, TimerRun
  <2> QED BY <1>9, <1>11, <2>1 DEF TimerStamp, history
<1>12. ASSUME NEW m \in Members, RemoveMember(m) \/ SetActive(m) PROVE Lone(t)'
  <2>1. UNCHANGED <<esc, req, told, contested>>
        BY <1>12 DEF RemoveMember, SetActive, history
  <2>2. \A n \in Members : ~IsMember(n) => ~IsMember(n)'
        BY <1>0, <1>12 DEF RemoveMember, SetActive, IsMember, TypeOK
  <2>3. /\ task'[t].status = task[t].status
        /\ \/ task'[t].assignee = task[t].assignee
           \/ \E n \in Members : task[t].assignee = n /\ ~IsMember(n)'
    <3>1. CASE SetActive(m)
          BY <3>1 DEF SetActive
    <3>2. CASE RemoveMember(m)
      <4>1. /\ task'[t] = IF task[t].assignee = m THEN [task[t] EXCEPT !.assignee = None] ELSE task[t]
            /\ ~IsMember(m)'
            BY <1>0, <3>2 DEF RemoveMember, IsMember, TypeOK
      <4> QED BY <1>0, <4>1 DEF TypeOK, TaskRow
    <3> QED BY <1>12, <3>1, <3>2
  <2>4. told[t] \subseteq Members
        BY <1>0 DEF TypeOK
  <2>5. Held(t) => Held(t)'
        BY <2>1, <2>2, <2>3, <2>4 DEF Held
  <2> QED BY <1>0, <2>1, <2>5, LoneKept
<1>13. ASSUME \/ \E k \in TimerRuns : TimerRead(k) \/ TimerEnd(k) \/ RunFails(k)
              \/ Tick \/ UNCHANGED vars
       PROVE  Lone(t)'
  <2>1. UNCHANGED <<task, esc, req, told, member, contested>>
        BY <1>13 DEF TimerRead, TimerEnd, RunFails, Tick, vars, rows, history
  <2> QED BY <1>0, <1>a, <2>1, LoneKept
<1> QED
    BY <1>1, <1>2, <1>3, <1>4, <1>5, <1>6, <1>7, <1>8, <1>10, <1>11, <1>12, <1>13
    DEF Next, Start, Continue, Timer

\* With any number of requests in flight, every statement of theirs in any
\* order, the timer, departures and failures: a claim answered ok:true has
\* the task until something other than a claim writes it, unless a second
\* claim of the same task was in flight beside one (tasks.service.ts 152-219).
THEOREM LoneClaimsAreExclusive == Spec => []LoneClaimIsExclusive
<1>1. Spec => []LoneInv
      BY LoneInit, LoneNext, PTL DEF Spec
<1>2. LoneInv => LoneClaimIsExclusive
      BY DEF LoneInv, Lone, LoneClaimIsExclusive
<1> QED BY <1>1, <1>2, PTL

-----------------------------------------------------------------------------
(* A resolved escalation keeps its claimant.                               *)

Kept(e) ==
    e <= opened /\ esc[e].resolved /\ esc[e].task \notin contested =>
        esc'[e].resolved /\ esc'[e].claimedBy = esc[e].claimedBy

LEMMA ResolvedKept == LoneInv /\ [Next]_vars => \A e \in EscIds : Kept(e)
<1> SUFFICES ASSUME LoneInv, [Next]_vars, NEW e \in EscIds PROVE Kept(e)
    OBVIOUS
<1>0. TypeOK /\ LocalsOK
      BY DEF LoneInv, TypeInv
<1>1. CASE UNCHANGED esc
      BY <1>1 DEF Kept
<1>2. ASSUME NEW f \in EscIds, NEW at, esc' = [esc EXCEPT ![f].broadcastAt = at]
      PROVE  Kept(e)
      BY <1>0, <1>2 DEF Kept, TypeOK, EscRow
<1>3. ASSUME NEW r \in Requests, DropOpen(r) PROVE Kept(e)
  <2>1. esc' = [esc EXCEPT ![opened + 1] = NewEscalation(req[r].task)]
        BY <1>3 DEF DropOpen
  <2>2. opened \in Nat /\ e \in Int
        BY <1>0, BoundsAreNumbers DEF TypeOK, EscIds
  <2> QED BY <1>0, <2>1, <2>2 DEF Kept, TypeOK
<1>4. ASSUME NEW r \in Requests, ClaimResolve(r) PROVE Kept(e)
  <2> DEFINE f == req[r].esc
  <2>1. /\ esc' = [esc EXCEPT ![f].claimedBy = req[r].member, ![f].resolved = TRUE]
        /\ req[r].pc = "claimResolve" /\ On(r, req[r].task)
        BY <1>4 DEF ClaimResolve, On, Claiming
  <2>2. req[r].task \in Tasks /\ esc[f].task = req[r].task
        BY <1>0, <2>1 DEF LocalsOK, Names, Holds
  <2>3. esc[f].task \notin contested => ~esc[f].resolved
        BY <2>1, <2>2 DEF LoneInv, Lone
  <2>4. CASE e = f
        BY <2>3, <2>4 DEF Kept
  <2>5. CASE e # f
        BY <1>0, <2>1, <2>5 DEF Kept, TypeOK
  <2> QED BY <2>4, <2>5
<1>5. ASSUME NEW r \in Requests, Broadcast(r) PROVE Kept(e)
      BY <1>2, <1>5 DEF Broadcast
<1>6. ASSUME NEW k \in TimerRuns, TimerStamp(k) PROVE Kept(e)
  <2>1. run[k].stamps \subseteq EscIds
        BY <1>0 DEF TypeOK, TimerRun
  <2> QED BY <1>2, <1>6, <2>1 DEF TimerStamp
<1>7. ASSUME NEW r \in Requests,
             \/ CreateTask(r) \/ AssignCheck(r) \/ SetStatus(r) \/ DropTask(r) \/ ClaimCheck(r)
             \/ RouteDecide(r) \/ RouteWrite(r) \/ AssignWrite(r) \/ ClaimFind(r)
             \/ ClaimLock(r) \/ ForeignKeyFails(r) \/ RequestFails(r)
      PROVE  UNCHANGED esc
      BY <1>7 DEF CreateTask, AssignCheck, SetStatus, DropTask, ClaimCheck, RouteDecide, RouteWrite,
         AssignWrite, ClaimFind, ClaimLock, ForeignKeyFails, RequestFails, Abort, Admit, rows
<1>8. ASSUME \/ \E k \in TimerRuns : TimerRead(k) \/ TimerEnd(k) \/ RunFails(k)
             \/ \E m \in Members : RemoveMember(m) \/ SetActive(m)
             \/ Tick \/ UNCHANGED vars
      PROVE  UNCHANGED esc
      BY <1>8 DEF TimerRead, TimerEnd, RunFails, RemoveMember, SetActive, Tick, vars, rows
<1> QED
    BY <1>1, <1>3, <1>4, <1>5, <1>6, <1>7, <1>8 DEF Next, Start, Continue, Timer

\* "Already-resolved events cannot be re-claimed" (escalation.ts 221): whatever
\* overlaps, an older copy included, claimedById of a resolved row of a task
\* that two claims never ran for at once does not change.
THEOREM ResolvedStaysFinal == Spec => ResolvedIsFinal
<1>1. Spec => []LoneInv
      BY LoneInit, LoneNext, PTL DEF Spec
<1>2. LoneInv /\ [Next]_vars =>
        [\A e \in EscIds : e <= opened /\ esc[e].resolved /\ esc[e].task \notin contested =>
             esc'[e].resolved /\ esc'[e].claimedBy = esc[e].claimedBy]_vars
      BY ResolvedKept DEF Kept
<1> QED BY <1>1, <1>2, PTL DEF Spec, ResolvedIsFinal

-----------------------------------------------------------------------------
(* The refinement: every statement is a step of the lock, or none.          *)

Holder == [t \in Tasks |-> task[t].assignee]

\* A request works on a row that exists: rows are never deleted.
Working(x) ==
    x.pc \in {"route", "routeWrite", "assignWrite", "dropOpen",
              "claimFind", "claimResolve", "claimLock"}
WorkInv == TypeInv /\ \A r \in Requests : Working(req[r]) => Exists(req[r].task)

LEMMA WorkInit == Init => WorkInv
BY TypeInit DEF Init, WorkInv, Working, Idle

LEMMA WorkNext == WorkInv /\ [Next]_vars => WorkInv'
<1> SUFFICES ASSUME WorkInv, [Next]_vars, NEW q \in Requests, Working(req'[q])
             PROVE  Exists(req[q].task)'
    BY TypeNext DEF WorkInv, Working, Exists
<1>0. TypeOK /\ TypeInv /\ LocalsOK /\ LocalsOK'
      BY TypeNext DEF WorkInv, TypeInv
<1>1. \A t \in Tasks : Exists(t) => Exists(t)'
  <2> SUFFICES ASSUME NEW t \in Tasks, Exists(t) PROVE task'[t].status # "ABSENT"
      BY DEF Exists
  <2>1. CASE UNCHANGED task
        BY <2>1 DEF Exists
  <2>2. ASSUME NEW u \in Tasks, NEW s \in Statuses, NEW m, NEW by, NEW h,
               WriteTask(u, s, m, by, h)
        PROVE  task'[t].status # "ABSENT"
        BY <1>0, <2>2, Written DEF Exists, Statuses
  <2>3. ASSUME NEW r \in Requests, CreateTask(r) PROVE task'[t].status # "ABSENT"
        BY <1>0, <2>3 DEF CreateTask, Exists, TypeOK
  <2>4. ASSUME NEW r \in Requests,
               RouteWrite(r) \/ AssignWrite(r) \/ SetStatus(r) \/ DropTask(r) \/ ClaimLock(r)
        PROVE  task'[t].status # "ABSENT"
    <3>1. \E u \in Tasks, s \in Statuses : \E m, by, h : WriteTask(u, s, m, by, h)
          BY <1>0, <2>4 DEF RouteWrite, AssignWrite, SetStatus, DropTask, ClaimLock,
             LocalsOK, Names, Statuses
    <3> QED BY <2>2, <3>1
  <2>5. ASSUME NEW m \in Members, RemoveMember(m) PROVE task'[t].status # "ABSENT"
        BY <1>0, <2>5 DEF RemoveMember, Exists, TypeOK, TaskRow
  <2>6. ASSUME NEW r \in Requests,
               \/ AssignCheck(r) \/ ClaimCheck(r) \/ RouteDecide(r) \/ DropOpen(r)
               \/ ClaimFind(r) \/ ClaimResolve(r) \/ Broadcast(r)
               \/ ForeignKeyFails(r) \/ RequestFails(r)
        PROVE  UNCHANGED task
        BY <2>6 DEF AssignCheck, ClaimCheck, RouteDecide, DropOpen, ClaimFind, ClaimResolve,
           Broadcast, ForeignKeyFails, RequestFails, Abort, Admit, rows
  <2>7. ASSUME \/ \E k \in TimerRuns : Timer(k) \/ RunFails(k)
               \/ \E m \in Members : SetActive(m)
               \/ Tick \/ UNCHANGED vars
        PROVE  UNCHANGED task
        BY <2>7 DEF Timer, TimerRead, TimerStamp, TimerEnd, RunFails, SetActive, Tick, vars, rows
  <2> QED BY <2>1, <2>3, <2>4, <2>5, <2>6, <2>7 DEF Next, Start, Continue
<1>2. CASE UNCHANGED req
      BY <1>0, <1>1, <1>2 DEF WorkInv, LocalsOK, Names, Working, Exists
<1>3. ASSUME NEW r \in Requests, NEW x, Goto(r, x),
             \/ ~Working(x)
             \/ Working(req[r]) /\ x.task = req[r].task
             \/ Exists(x.task)'
      PROVE  Exists(req[q].task)'
  <2>1. req'[r] = x /\ (q # r => req'[q] = req[q])
        BY <1>0, <1>3, GotoOthers
  <2>2. \A p \in Requests : Working(req[p]) => req[p].task \in Tasks /\ Exists(req[p].task)
        BY <1>0 DEF WorkInv, LocalsOK, Names, Working
  <2>3. CASE q # r
        BY <1>1, <2>1, <2>2, <2>3 DEF Exists
  <2>4. CASE q = r
        BY <1>1, <1>3, <2>1, <2>2, <2>4 DEF Exists
  <2> QED BY <2>3, <2>4
<1>4. ~Working(Idle) /\ \A pc, t, m, e : At(pc, t, m, e).task = t
      BY DEF Working, Idle, At
<1>5. ASSUME NEW r \in Requests, Continue(r) \/ RequestFails(r) PROVE Exists(req[q].task)'
  <2>1. \/ Goto(r, Idle)
        \/ Working(req[r]) /\ \E pc, m, e : Goto(r, At(pc, req[r].task, m, e))
        BY <1>5 DEF Continue, RouteDecide, RouteWrite, AssignWrite, DropOpen, ClaimFind,
           ClaimResolve, ClaimLock, ForeignKeyFails, RequestFails, Abort, Working
  <2> QED BY <1>3, <1>4, <2>1
<1>6. ASSUME NEW r \in Requests, CreateTask(r) PROVE Exists(req[q].task)'
  <2>1. PICK t \in Tasks, due \in DueTimes, noRoute \in BOOLEAN :
          /\ task' = [task EXCEPT ![t] = [status |-> "OPEN", assignee |-> None, dueAt |-> due]]
          /\ Goto(r, IF noRoute THEN Idle ELSE At("route", t, None, 0))
        BY <1>6 DEF CreateTask
  <2>2. Exists(t)'
        BY <1>0, <2>1 DEF Exists, TypeOK
  <2> QED BY <1>3, <1>4, <2>1, <2>2
<1>7. ASSUME NEW r \in Requests, AssignCheck(r) \/ ClaimCheck(r) \/ DropTask(r)
      PROVE  Exists(req[q].task)'
  <2>1. PICK t \in Tasks : Exists(t) /\ \E pc, m : Goto(r, At(pc, t, m, 0))
        BY <1>7 DEF AssignCheck, ClaimCheck, DropTask, Admit
  <2> QED BY <1>1, <1>3, <1>4, <2>1
<1>8. ASSUME NEW r \in Requests, SetStatus(r) \/ Broadcast(r) PROVE UNCHANGED req
      BY <1>8 DEF SetStatus, Broadcast
<1>9. ASSUME \/ \E k \in TimerRuns : Timer(k) \/ RunFails(k)
             \/ \E m \in Members : RemoveMember(m) \/ SetActive(m)
             \/ Tick \/ UNCHANGED vars
      PROVE  UNCHANGED req
      BY <1>9 DEF Timer, TimerRead, TimerStamp, TimerEnd, RunFails, RemoveMember, SetActive,
         Tick, vars, rows
<1> QED BY <1>2, <1>5, <1>6, <1>7, <1>8, <1>9 DEF Next, Start

LEMMA PhaseOf ==
    ASSUME NEW s \in Statuses \cup {"ABSENT"}
    PROVE  /\ Phase(s) \in {"absent", "free", "dropped", "locked"}
           /\ Phase(s) = "absent" <=> s = "ABSENT"
           /\ Phase(s) = "dropped" <=> s = "DROPPED"
           /\ Phase(s) = "locked" <=> s \in Locked
BY DEF Phase, Statuses, Locked

\* The claim of one request that is let in.
Claim(x, q) == <<q, x.task, x.member>>

LEMMA AdmittedHas ==
    \A c : c \in Admitted <=> \E q \in Requests : Claiming(req[q]) /\ c = Claim(req[q], q)
BY DEF Admitted, Claim

LEMMA AdmittedHasNext ==
    \A c : c \in Admitted' <=> \E q \in Requests : Claiming(req'[q]) /\ c = Claim(req'[q], q)
BY DEF Admitted, Claim

LEMMA ClaimOf ==
    ASSUME NEW p, NEW q, NEW x, NEW y, Claim(x, p) = Claim(y, q)
    PROVE  p = q
BY DEF Claim

\* One request moves at a time: it claims on as before, starts or stops.
LEMMA AdmittedMoves ==
    ASSUME TypeOK, NEW r \in Requests, NEW x, Goto(r, x)
    PROVE  /\ ~Claiming(req[r]) /\ ~Claiming(x) => Admitted' = Admitted
           /\ Claiming(req[r]) /\ Claiming(x) /\ Claim(x, r) = Claim(req[r], r)
                => Admitted' = Admitted
           /\ Claiming(req[r]) /\ ~Claiming(x) => Admitted' = Admitted \ {Claim(req[r], r)}
           /\ ~Claiming(req[r]) /\ Claiming(x) => Admitted' = Admitted \cup {Claim(x, r)}
<1>1. req'[r] = x /\ \A q \in Requests : q # r => req'[q] = req[q]
      BY GotoOthers
<1>2. CASE ~Claiming(req[r]) /\ ~Claiming(x)
  <2>1. \A c : c \in Admitted' <=> c \in Admitted
        BY <1>1, <1>2, AdmittedHas, AdmittedHasNext
  <2> QED BY <1>2, <2>1
<1>3. CASE Claiming(req[r]) /\ Claiming(x)
  <2>1. ASSUME Claim(x, r) = Claim(req[r], r) PROVE \A c : c \in Admitted' <=> c \in Admitted
        BY <1>1, <1>3, <2>1, AdmittedHas, AdmittedHasNext
  <2> QED BY <1>3, <2>1
<1>4. CASE Claiming(req[r]) /\ ~Claiming(x)
  <2>1. \A c : c \in Admitted' <=> c \in Admitted \ {Claim(req[r], r)}
        BY <1>1, <1>4, AdmittedHas, AdmittedHasNext, ClaimOf
  <2> QED BY <1>4, <2>1
<1>5. CASE ~Claiming(req[r]) /\ Claiming(x)
  <2>1. \A c : c \in Admitted' <=> c \in Admitted \cup {Claim(x, r)}
        BY <1>1, <1>5, AdmittedHas, AdmittedHasNext
  <2> QED BY <1>5, <2>1
<1> QED BY <1>2, <1>3, <1>4, <1>5

LEMMA LockInit == Init => Lock!Init
<1> SUFFICES ASSUME Init PROVE Lock!Init
    OBVIOUS
<1>1. \A t \in Tasks : task[t].status = "ABSENT" /\ task[t].assignee = None
      BY DEF Init
<1>2. Phase("ABSENT") = "absent"
      BY DEF Phase
<1>3. \A q \in Requests : ~Claiming(req[q])
      BY DEF Init, Claiming, Idle
<1>4. Admitted = {}
      BY <1>3, AdmittedHas
<1> QED BY <1>1, <1>2, <1>4 DEF Lock!Init, LockState

\* A task update is one step of the lock on that task.
LEMMA LockSet ==
    ASSUME TypeOK, NEW t \in Tasks, NEW s \in Statuses, NEW m, NEW by, NEW h,
           WriteTask(t, s, m, by, h)
    PROVE  Lock!Set(t, Phase(s), m)
<1>1. /\ task'[t].status = s /\ task'[t].assignee = m
      /\ \A u \in Tasks : u # t => task'[u] = task[u]
      BY Written
<1>2. LockState'[t] = Phase(s) /\ \A u \in Tasks : u # t => LockState'[u] = LockState[u]
      BY <1>1 DEF LockState
<1>3. LockState' = [LockState EXCEPT ![t] = Phase(s)]
      BY <1>2 DEF LockState
<1>4. Holder' = [Holder EXCEPT ![t] = m]
      BY <1>1 DEF Holder
<1> QED BY <1>3, <1>4 DEF Lock!Set, Holder

LEMMA LockNext == WorkInv /\ [Next]_vars => [Lock!Next]_<<LockState, Holder, Admitted>>
<1> SUFFICES ASSUME WorkInv, [Next]_vars
             PROVE  Lock!Next \/ UNCHANGED <<LockState, Holder, Admitted>>
    OBVIOUS
<1>0. TypeOK /\ LocalsOK
      BY DEF WorkInv, TypeInv
<1>a. ASSUME NEW t \in Tasks PROVE LockState[t] # "absent" <=> Exists(t)
  <2>1. task[t].status \in Statuses \cup {"ABSENT"}
        BY <1>0 DEF TypeOK, TaskRow
  <2> QED BY <2>1, PhaseOf DEF LockState, Exists
<1>b. /\ Phase("OPEN") = "free" /\ Phase("ASSIGNED") = "free"
      /\ Phase("DROPPED") = "dropped" /\ Phase("CLAIMED") = "locked"
      BY DEF Phase, Locked
<1>c. ASSUME UNCHANGED task PROVE UNCHANGED <<LockState, Holder>>
      BY <1>c DEF LockState, Holder
<1>d. ASSUME UNCHANGED req PROVE Admitted' = Admitted
      BY <1>d DEF Admitted
<1>e. /\ ~Claiming(Idle)
      /\ \A pc, u, m, e : pc \in {"route", "routeWrite", "assignWrite", "dropOpen"} =>
            ~Claiming(At(pc, u, m, e))
      BY DEF Claiming, Idle, At
<1>1. CASE UNCHANGED <<task, req>>
      BY <1>1, <1>c, <1>d
<1>2. ASSUME NEW r \in Requests, CreateTask(r) PROVE Lock!Next
  <2>1. PICK t \in Tasks, due \in DueTimes, noRoute \in BOOLEAN :
          /\ ~Exists(t)
          /\ task' = [task EXCEPT ![t] = [status |-> "OPEN", assignee |-> None, dueAt |-> due]]
          /\ Goto(r, IF noRoute THEN Idle ELSE At("route", t, None, 0))
        BY <1>2 DEF CreateTask
  <2>2. /\ task'[t].status = "OPEN" /\ task'[t].assignee = None
        /\ \A u \in Tasks : u # t => task'[u] = task[u]
        BY <1>0, <2>1 DEF TypeOK
  <2>3. LockState' = [LockState EXCEPT ![t] = "free"]
        BY <1>b, <2>2 DEF LockState
  <2>4. Holder' = [Holder EXCEPT ![t] = None]
        BY <2>2 DEF Holder
  <2>5. Lock!Create(t)
        BY <1>a, <2>1, <2>3, <2>4 DEF Lock!Create, Lock!Set, Holder
  <2>6. ~Claiming(req[r])
        BY <1>2 DEF CreateTask, Ready, Claiming
  <2>7. Admitted' = Admitted
        BY <1>0, <1>e, <2>1, <2>6, AdmittedMoves
  <2> QED BY <2>5, <2>7 DEF Lock!Next
<1>3. ASSUME NEW r \in Requests, RouteWrite(r) \/ AssignWrite(r) PROVE Lock!Next
  <2>1. PICK t \in Tasks, m \in Members : t = req[r].task /\ m = req[r].member
        BY <1>0, <1>3 DEF RouteWrite, AssignWrite, LocalsOK, Names
  <2>2. Exists(t) /\ WriteTask(t, "ASSIGNED", m, "other", {})
        BY <1>3, <2>1 DEF RouteWrite, AssignWrite, WorkInv, Working
  <2>3. Lock!Set(t, Phase("ASSIGNED"), m)
        BY <1>0, <2>1, <2>2, LockSet DEF Statuses
  <2>4. Lock!Place(t, m)
        BY <1>a, <1>b, <2>2, <2>3 DEF Lock!Place
  <2>5. Goto(r, Idle) /\ ~Claiming(req[r])
        BY <1>3 DEF RouteWrite, AssignWrite, Claiming
  <2>6. Admitted' = Admitted
        BY <1>0, <1>e, <2>5, AdmittedMoves
  <2> QED BY <2>4, <2>6 DEF Lock!Next
<1>4. ASSUME NEW r \in Requests, SetStatus(r) PROVE Lock!Next
  <2>1. PICK t \in Tasks, s \in Settable, m \in Members \cup {None} :
            /\ Exists(t) /\ m = task[t].assignee
            /\ WriteTask(t, s, m, "other", {})
        BY <1>0, <1>4 DEF SetStatus, TypeOK, TaskRow
  <2>2. s \in Statuses
        BY InputsAreLegal
  <2>3. Phase(s) \in {"free", "dropped", "locked"}
        BY <2>2, PhaseOf DEF Statuses
  <2>4. Lock!Set(t, Phase(s), m)
        BY <1>0, <2>1, <2>2, LockSet
  <2>5. Lock!Mark(t)
        BY <1>a, <2>1, <2>3, <2>4 DEF Lock!Mark, Lock!Set
  <2>6. Admitted' = Admitted
        BY <1>4, <1>d DEF SetStatus
  <2> QED BY <2>5, <2>6 DEF Lock!Next
<1>5. ASSUME NEW r \in Requests, DropTask(r) PROVE Lock!Next
  <2>1. PICK t \in Tasks : /\ Exists(t) /\ WriteTask(t, "DROPPED", None, "drop", {})
                           /\ Goto(r, At("dropOpen", t, None, 0))
        BY <1>5 DEF DropTask
  <2>2. Lock!Set(t, Phase("DROPPED"), None)
        BY <1>0, <2>1, LockSet DEF Statuses
  <2>3. Lock!Drop(t)
        BY <1>a, <1>b, <2>1, <2>2 DEF Lock!Drop
  <2>4. ~Claiming(req[r])
        BY <1>5 DEF DropTask, Ready, Claiming
  <2>5. Admitted' = Admitted
        BY <1>0, <1>e, <2>1, <2>4, AdmittedMoves
  <2> QED BY <2>3, <2>5 DEF Lock!Next
\* A claim that passes its check is let in.
<1>6. ASSUME NEW r \in Requests, ClaimCheck(r) PROVE Lock!Next
  <2>1. PICK t \in Tasks, m \in Members :
            Exists(t) /\ task[t].status \notin Locked /\ Admit(r, t, m)
        BY <1>6 DEF ClaimCheck
  <2> DEFINE x == At("claimFind", t, m, 0)
  <2>2. Goto(r, x) /\ UNCHANGED task /\ ~Claiming(req[r])
        BY <1>6, <2>1 DEF Admit, rows, ClaimCheck, Ready, Claiming
  <2>3. Claiming(x) /\ Claim(x, r) = <<r, t, m>>
        BY DEF Claiming, At, Claim
  <2> HIDE DEF x
  <2>4. Admitted' = Admitted \cup {<<r, t, m>>}
        BY <1>0, <2>2, <2>3, AdmittedMoves
  <2>5. \A c \in Admitted : c[1] # r
        BY <2>2, AdmittedHas DEF Claim
  <2>6. LockState[t] \in {"free", "dropped"}
    <3>1. task[t].status \in Statuses \cup {"ABSENT"}
          BY <1>0 DEF TypeOK, TaskRow
    <3> QED BY <2>1, <3>1, PhaseOf DEF LockState, Exists
  <2>7. Lock!Admit(r, t, m)
        BY <1>c, <2>2, <2>4, <2>5, <2>6 DEF Lock!Admit, Holder
  <2> QED BY <2>7 DEF Lock!Next
\* It is withdrawn, or goes on as it was.
<1>7. ASSUME NEW r \in Requests, Claiming(req[r]), UNCHANGED task,
             \/ Goto(r, Idle)
             \/ \E pc, e : /\ pc \in {"claimFind", "claimResolve", "claimLock"}
                           /\ Goto(r, At(pc, req[r].task, req[r].member, e))
      PROVE  Lock!Next \/ UNCHANGED <<LockState, Holder, Admitted>>
  <2> DEFINE c == Claim(req[r], r)
  <2>1. c \in Admitted
        BY <1>7, AdmittedHas
  <2>2. CASE Goto(r, Idle)
    <3>1. Admitted' = Admitted \ {c}
          BY <1>0, <1>7, <1>e, <2>2, AdmittedMoves
    <3>2. Lock!Withdraw(c)
          BY <1>c, <1>7, <3>1 DEF Lock!Withdraw, Holder
    <3> QED BY <2>1, <3>2 DEF Lock!Next
  <2>3. CASE ~Goto(r, Idle)
    <3>0. \A pc, e : pc \in {"claimFind", "claimResolve", "claimLock"} =>
            /\ Claiming(At(pc, req[r].task, req[r].member, e))
            /\ Claim(At(pc, req[r].task, req[r].member, e), r) = c
          BY DEF Claiming, At, Claim
    <3>1. PICK x : Goto(r, x) /\ Claiming(x) /\ Claim(x, r) = c
          BY <1>7, <2>3, <3>0
    <3>2. Admitted' = Admitted
          BY <1>0, <1>7, <3>1, AdmittedMoves
    <3> QED BY <1>c, <1>7, <3>2
  <2> QED BY <2>2, <2>3
<1>8. ASSUME NEW r \in Requests, ClaimFind(r) \/ ClaimResolve(r)
      PROVE  Lock!Next \/ UNCHANGED <<LockState, Holder, Admitted>>
  <2>1. UNCHANGED task /\ Claiming(req[r])
        BY <1>8 DEF ClaimFind, ClaimResolve, Claiming, rows
  <2>2. \/ Goto(r, Idle)
        \/ \E pc, e : /\ pc \in {"claimFind", "claimResolve", "claimLock"}
                      /\ Goto(r, At(pc, req[r].task, req[r].member, e))
        BY <1>8 DEF ClaimFind, ClaimResolve
  <2> QED BY <1>7, <2>1, <2>2
\* It takes effect.
<1>9. ASSUME NEW r \in Requests, ClaimLock(r) PROVE Lock!Next
  <2>1. PICK t \in Tasks, m \in Members : t = req[r].task /\ m = req[r].member
        BY <1>0, <1>9 DEF ClaimLock, LocalsOK, Names
  <2>2. /\ \E h : WriteTask(t, "CLAIMED", m, "claim", h)
        /\ Goto(r, Idle) /\ Claiming(req[r])
        BY <1>9, <2>1 DEF ClaimLock, Claiming
  <2>3. Lock!Set(t, "locked", m)
        BY <1>0, <1>b, <2>1, <2>2, LockSet DEF Statuses
  <2>4. Claim(req[r], r) = <<r, t, m>> /\ Claim(req[r], r) \in Admitted
        BY <2>1, <2>2, AdmittedHas DEF Claim
  <2>5. Admitted' = Admitted \ {<<r, t, m>>}
        BY <1>0, <1>e, <2>2, <2>4, AdmittedMoves
  <2>6. Lock!Claim(<<r, t, m>>)
        BY <2>3, <2>5 DEF Lock!Claim
  <2> QED BY <2>4, <2>6 DEF Lock!Next
<1>10. ASSUME NEW r \in Requests,
              \/ AssignCheck(r) \/ RouteDecide(r) \/ DropOpen(r) \/ Broadcast(r)
              \/ ForeignKeyFails(r) \/ RequestFails(r)
       PROVE  Lock!Next \/ UNCHANGED <<LockState, Holder, Admitted>>
  <2>1. UNCHANGED task
        BY <1>10 DEF AssignCheck, RouteDecide, DropOpen, Broadcast, ForeignKeyFails,
           RequestFails, Abort, rows
  <2>2. CASE Claiming(req[r])
    <3>1. UNCHANGED req \/ Goto(r, Idle)
          BY <1>10, <2>2 DEF AssignCheck, RouteDecide, DropOpen, Broadcast, ForeignKeyFails,
             RequestFails, Abort, Claiming, Ready
    <3> QED BY <1>1, <1>7, <2>1, <2>2, <3>1
  <2>3. CASE ~Claiming(req[r])
    <3>1. \/ UNCHANGED req
          \/ \E x : Goto(r, x) /\ ~Claiming(x)
      <4>1. \/ UNCHANGED req \/ Goto(r, Idle)
            \/ \E u, m : Goto(r, At("routeWrite", u, m, 0)) \/ Goto(r, At("assignWrite", u, m, 0))
            BY <1>10 DEF AssignCheck, RouteDecide, DropOpen, Broadcast, ForeignKeyFails,
               RequestFails, Abort
      <4> QED BY <1>e, <4>1
    <3> QED BY <1>0, <1>1, <1>c, <2>1, <2>3, <3>1, AdmittedMoves
  <2> QED BY <2>2, <2>3
<1>11. ASSUME NEW m \in Members, RemoveMember(m) PROVE Lock!Next
  <2>1. \A t \in Tasks : task'[t] = IF task[t].assignee = m
                                    THEN [task[t] EXCEPT !.assignee = None] ELSE task[t]
        BY <1>11 DEF RemoveMember
  <2>2. ASSUME NEW t \in Tasks
        PROVE  /\ task'[t].status = task[t].status
               /\ task'[t].assignee = IF task[t].assignee = m THEN None ELSE task[t].assignee
        BY <1>0, <2>1 DEF TypeOK, TaskRow
  <2>3. LockState' = LockState
        BY <2>2 DEF LockState
  <2>4. Holder' = [t \in Tasks |-> IF Holder[t] = m THEN None ELSE Holder[t]]
        BY <2>2 DEF Holder
  <2>5. Lock!Forget(m)
        BY <2>3, <2>4 DEF Lock!Forget, Holder
  <2>6. Admitted' = Admitted
        BY <1>11, <1>d DEF RemoveMember
  <2> QED BY <2>5, <2>6 DEF Lock!Next
<1>12. ASSUME \/ \E k \in TimerRuns : Timer(k) \/ RunFails(k)
              \/ \E m \in Members : SetActive(m)
              \/ Tick \/ UNCHANGED vars
       PROVE  UNCHANGED <<task, req>>
       BY <1>12 DEF Timer, TimerRead, TimerStamp, TimerEnd, RunFails, SetActive, Tick, vars, rows
<1> QED
    BY <1>1, <1>2, <1>3, <1>4, <1>5, <1>6, <1>8, <1>9, <1>10, <1>11, <1>12
    DEF Next, Start, Continue

\* With any number of requests in flight the handlers of TasksService,
\* statement by statement, with the timer, departures and failures in between,
\* implement the lock of ClaimLock: a claim was let in while the task was not
\* locked, and only such a claim, a placement, a drop, a status set by hand or
\* a departure moves a lock.
THEOREM HandlersImplementClaimLock == Spec => ImplementsClaimLock
<1>1. Spec => []WorkInv
      BY WorkInit, WorkNext, PTL DEF Spec
<1>2. WorkInv /\ [Next]_vars =>
        [Lock!Next]_<<LockState, [t \in Tasks |-> task[t].assignee], Admitted>>
      BY LockNext DEF Holder
<1> QED BY <1>1, <1>2, LockInit, PTL DEF Spec, ImplementsClaimLock, Lock!Spec
=============================================================================
