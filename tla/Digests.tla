-------------------------------- MODULE Digests --------------------------------
(* services/api modules/notifications: a member's digest is put together from    *)
(* several reads while tasks change hands, mailed, and recorded after that; the  *)
(* household's digests are put together one member after the other.              *)
EXTENDS ApiCall, Wellbeing

CONSTANTS
    DigestMembers,  \* the active members, numbered in the order they are read
    DigestTasks,    \* the household's tasks, numbered
    Sends,          \* calls of sendDigest
    MaxMoves        \* bound: tasks that change hands or are finished

\* The members are numbered; there are finitely many rows.
ASSUME DigestsAssumption ==
    /\ IsFiniteSet(DigestMembers) /\ DigestMembers = 1 .. Cardinality(DigestMembers)
    /\ IsFiniteSet(DigestTasks)
    /\ MaxMoves \in Nat

VARIABLES
    chores,   \* per task, who it is assigned to and whether it is done
    sends,    \* per call of sendDigest, how far it has come and what it has read
    house,    \* the same for a call of buildHouseholdDigests
    mails,    \* messages the mail provider took, each under its own ref
    records,  \* rows of Notification
    moves

digestVars == <<chores, sends, house, mails, records, moves>>

Unsent == [step |-> "none", member |-> 1, items |-> {}, share |-> 0, ref |-> 0]
Idle == [step |-> "none", member |-> 1, shares |-> <<>>, steady |-> TRUE]

DigestsTypeOK ==
    /\ chores \in [DigestTasks -> [holder : DigestMembers \cup {Null}, done : BOOLEAN]]
    /\ sends \in [Sends -> [step : {"none", "items", "share", "mail", "record", "done", "failed"},
                            member : DigestMembers \cup {1}, items : SUBSET DigestTasks,
                            share : 0 .. 1000, ref : Nat]]
    /\ house.step \in {"none", "build", "done", "failed"} /\ house.member \in Nat /\ house.steady \in BOOLEAN
    /\ moves \in 0 .. MaxMoves

DigestsInit ==
    /\ chores \in [DigestTasks -> [holder : DigestMembers \cup {Null}, done : {FALSE}]]
    /\ sends = [s \in Sends |-> Unsent]
    /\ house = Idle
    /\ mails = {} /\ records = {}
    /\ moves = 0

\* The tasks listed: assigned to the member and not done, whenever they are due.
Listed(m) == {t \in DigestTasks : chores[t].holder = m /\ ~chores[t].done}

\* The load of every member, over all tasks of the household, done or not.
Equity ==
    ComputeLoadEquity(
        [t \in DigestTasks |-> [category |-> "ERRAND", urgency |-> "MED", assignee |-> chores[t].holder]],
        DigestMembers)

ShareOf(m) == Equity[m].share

-----------------------------------------------------------------------------
StartSend(s) ==
    /\ sends[s].step = "none"
    /\ \E m \in DigestMembers : sends' = [sends EXCEPT ![s].step = "items", ![s].member = m]
    /\ Works
    /\ UNCHANGED <<chores, house, mails, records, moves>>

\* buildDigest: the items first, the load after them.
ReadItems(s) ==
    /\ sends[s].step = "items"
    /\ sends' = [sends EXCEPT ![s].step = "share", ![s].items = Listed(sends[s].member)]
    /\ Works
    /\ UNCHANGED <<chores, house, mails, records, moves>>

ReadShare(s) ==
    /\ sends[s].step = "share"
    /\ \/ sends' = [sends EXCEPT ![s].step = "mail", ![s].share = ShareOf(sends[s].member)] /\ Works
       \/ sends' = [sends EXCEPT ![s].step = "failed"] /\ Fails
    /\ UNCHANGED <<chores, house, mails, records, moves>>

\* The provider takes the mail and answers with a ref; a failure may come before
\* or after it has been taken.
MailOf(s, ref) == [ref |-> ref, to |-> sends[s].member, items |-> sends[s].items, share |-> sends[s].share]

SendMail(s) ==
    LET ref == Cardinality(mails) + 1
    IN  /\ sends[s].step = "mail"
        /\ \/ /\ mails' = mails \cup {MailOf(s, ref)}
              /\ sends' = [sends EXCEPT ![s].step = "record", ![s].ref = ref]
              /\ Works
           \/ /\ mails' \in {mails, mails \cup {MailOf(s, ref)}}
              /\ sends' = [sends EXCEPT ![s].step = "failed"]
              /\ Fails
        /\ UNCHANGED <<chores, house, records, moves>>

\* A broken form of the next definition: the content is read again.
RecordOfNow(s) ==
    [ref |-> sends[s].ref, to |-> sends[s].member, items |-> Listed(sends[s].member), share |-> sends[s].share]

RecordOf(s) == MailOf(s, sends[s].ref)

\* The row, SENT at once, with the payload that was mailed.
RecordMail(s) ==
    /\ sends[s].step = "record"
    /\ \/ /\ records' = records \cup {RecordOf(s)}
          /\ sends' = [sends EXCEPT ![s].step = "done"]
          /\ Works
       \/ /\ sends' = [sends EXCEPT ![s].step = "failed"]
          /\ UNCHANGED records /\ Fails
    /\ UNCHANGED <<chores, house, mails, moves>>

-----------------------------------------------------------------------------
\* The digests of the active members, in the order they were read; "steady" says
\* that no task has moved since the first.
StartHouse ==
    /\ house.step = "none"
    /\ house' = [Idle EXCEPT !.step = "build"]
    /\ Works
    /\ UNCHANGED <<chores, sends, mails, records, moves>>

BuildNext ==
    /\ house.step = "build"
    /\ \/ /\ house.member \in DigestMembers
          /\ house' = [house EXCEPT !.member = @ + 1, !.shares = Append(@, ShareOf(house.member))]
          /\ Works
       \/ /\ house.member \notin DigestMembers
          /\ house' = [house EXCEPT !.step = "done"]
          /\ Works
       \/ house' = [house EXCEPT !.step = "failed"] /\ Fails
    /\ UNCHANGED <<chores, sends, mails, records, moves>>

\* A task changes hands or is done: the task lifecycle, seen from here.
TaskMoves(t) ==
    /\ moves < MaxMoves
    /\ \/ \E m \in DigestMembers \ {chores[t].holder} : chores' = [chores EXCEPT ![t].holder = m]
       \/ ~chores[t].done /\ chores' = [chores EXCEPT ![t].done = TRUE]
    /\ moves' = moves + 1
    /\ house' = IF house.step = "build" THEN [house EXCEPT !.steady = FALSE] ELSE house
    /\ Works
    /\ UNCHANGED <<sends, mails, records>>

DigestsNext ==
    \/ \E s \in Sends : StartSend(s) \/ ReadItems(s) \/ ReadShare(s) \/ SendMail(s) \/ RecordMail(s)
    \/ StartHouse \/ BuildNext
    \/ \E t \in DigestTasks : TaskMoves(t)

-----------------------------------------------------------------------------
\* What is recorded as sent was mailed, to that member, word for word and under
\* that ref, however the tasks moved between mailing and recording; a call that
\* answered has its record.
RecordedWasMailed ==
    /\ records \subseteq mails
    /\ \A s \in Sends : sends[s].step = "done" => MailOf(s, sends[s].ref) \in records

\* If no task moves meanwhile, the shares the members are told add up to the
\* whole, but for rounding.
HouseholdSharesAddUp ==
    house.step = "done" /\ house.steady =>
        LET told == MapThenSumSet(LAMBDA i : house.shares[i], DOMAIN house.shares)
        IN  \/ told = 0 /\ \A t \in DigestTasks : chores[t].holder = Null \/ moves > 0
            \/ told \in 1000 - Len(house.shares) .. 1000 + Len(house.shares)

\* A digest says what is so: what was recorded was mailed, and the shares told to
\* the members of a household are shares of one whole.
DigestsAreTrue == RecordedWasMailed /\ HouseholdSharesAddUp
=============================================================================
