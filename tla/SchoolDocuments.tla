---------------------------- MODULE SchoolDocuments ----------------------------
(* services/api modules/school and modules/approvals: an uploaded document       *)
(* becomes a task and a gate per reason found in it, one after the other; heads  *)
(* of the household decide the gates, and leave.                                 *)
EXTENDS ApiCall, SequencesExt

CONSTANTS
    Uploads,   \* documents that are uploaded; the task of a document has its name
    Heads,     \* heads of the household, numbered by age of their row
    Deciders   \* decisions that can be in flight at once

\* Any heads that are left have an oldest.
ASSUME SchoolAssumption ==
    /\ Null \notin Heads
    /\ \A S \in (SUBSET Heads) \ {{}} : \E h \in S : \A k \in S : h <= k

VARIABLES
    people,    \* heads that are still members
    uploads,   \* per document, how far its call has come and what it holds
    tasks,     \* the tasks of documents, with whether they need approval
    approvals, \* rows of Approval
    deciding   \* per decision in flight, the gate it has read and what it will write

schoolVars == <<people, uploads, tasks, approvals, deciding>>

Reasons == <<"PERMISSION_SLIP", "FEE">>
Decisions == {"APPROVED", "REJECTED"}

ApprovalRow ==
    [task : Uploads, reason : Range(Reasons), by : Heads,
     status : {"PENDING"} \cup Decisions, decidedBy : Heads \cup {Null}]

Unread == [step |-> "none", flags |-> {}, by |-> Null, gate |-> 1]

SchoolTypeOK ==
    /\ people \subseteq Heads
    /\ uploads \in [Uploads -> [step : {"none", "requester", "task", "gates", "done", "failed"},
                                flags : SUBSET Range(Reasons), by : Heads \cup {Null},
                                gate : 1 .. Len(Reasons) + 1]]
    /\ tasks \subseteq [upload : Uploads, needsApproval : BOOLEAN]
    /\ approvals \subseteq ApprovalRow
    /\ \A d \in Deciders : deciding[d] = Null \/ deciding[d] \in
          [task : Uploads, reason : Range(Reasons), decision : Decisions, who : Heads]

SchoolInit ==
    /\ people = Heads
    /\ uploads = [u \in Uploads |-> Unread]
    /\ tasks = {} /\ approvals = {}
    /\ deciding = [d \in Deciders |-> Null]

\* POST /school/documents: OCR reads the text, which names a fee, a slip, both or
\* neither; the caller may say who asks.
Upload(u) ==
    /\ uploads[u].step = "none"
    /\ \/ /\ \E flags \in SUBSET Range(Reasons), by \in people \cup {Null} :
                uploads' = [uploads EXCEPT ![u] =
                    [step |-> "requester", flags |-> flags, by |-> by, gate |-> 1]]
          /\ Works
       \/ uploads' = [uploads EXCEPT ![u].step = "failed"] /\ Fails
    /\ UNCHANGED <<people, tasks, approvals, deciding>>

\* Who asks: the one named, else the first head, else nobody.
Requester(named) ==
    IF named # Null THEN named
    ELSE IF people = {} THEN Null ELSE Min(people)

ResolveRequester(u) ==
    /\ uploads[u].step = "requester"
    /\ uploads' = [uploads EXCEPT ![u].step = "task", ![u].by = Requester(@)]
    /\ Works
    /\ UNCHANGED <<people, tasks, approvals, deciding>>

\* The task is stored and routed.  When routing fails the task is there and the
\* call ends without a gate.
CreateTask(u) ==
    LET row == [upload |-> u, needsApproval |-> uploads[u].flags # {}]
    IN  /\ uploads[u].step = "task"
        /\ \/ /\ tasks' = tasks \cup {row}
              /\ uploads' = [uploads EXCEPT ![u].step = "gates"]
              /\ Works
           \/ /\ tasks' \in {tasks, tasks \cup {row}}
              /\ uploads' = [uploads EXCEPT ![u].step = "failed"]
              /\ Fails
        /\ UNCHANGED <<people, approvals, deciding>>

\* A broken form of the next definition: the fee is asked for only without a slip.
WantedFirst(c, reason) ==
    /\ reason \in c.flags /\ c.by # Null
    /\ reason = "FEE" => "PERMISSION_SLIP" \notin c.flags

\* A gate for each reason, as long as somebody asks for it.
Wanted(c, reason) == reason \in c.flags /\ c.by # Null

\* The gate of the next reason.  One who asked and has left since fails the call.
OpenGate(u) ==
    LET c == uploads[u]
        reason == Reasons[c.gate]
        row == [task |-> u, reason |-> reason, by |-> c.by, status |-> "PENDING", decidedBy |-> Null]
    IN  /\ c.step = "gates" /\ c.gate <= Len(Reasons)
        /\ \/ /\ ~Wanted(c, reason)
              /\ uploads' = [uploads EXCEPT ![u].gate = @ + 1]
              /\ UNCHANGED approvals /\ Works
           \/ /\ Wanted(c, reason) /\ c.by \in people
              /\ approvals' = approvals \cup {row}
              /\ uploads' = [uploads EXCEPT ![u].gate = @ + 1]
              /\ Works
           \/ /\ Wanted(c, reason)
              /\ uploads' = [uploads EXCEPT ![u].step = "failed"]
              /\ UNCHANGED approvals
              /\ IF c.by \in people THEN Fails ELSE Works
        /\ UNCHANGED <<people, tasks, deciding>>

Answer(u) ==
    /\ uploads[u].step = "gates" /\ uploads[u].gate > Len(Reasons)
    /\ uploads' = [uploads EXCEPT ![u].step = "done"]
    /\ Works
    /\ UNCHANGED <<people, tasks, approvals, deciding>>

-----------------------------------------------------------------------------
\* POST /approvals/:id/decide reads the gate, whatever its status, and writes
\* the decision over it; the last writer wins.
ReadGate(d) ==
    /\ deciding[d] = Null
    /\ \E a \in approvals, decision \in Decisions, who \in people :
          deciding' = [deciding EXCEPT ![d] =
              [task |-> a.task, reason |-> a.reason, decision |-> decision, who |-> who]]
    /\ Works
    /\ UNCHANGED <<people, uploads, tasks, approvals>>

\* A broken form of the next definition: the reason is not looked at.
IsGateOfTask(a, d) == a.task = deciding[d].task

IsGate(a, d) == a.task = deciding[d].task /\ a.reason = deciding[d].reason

\* The gate, or the one who decides, may be gone by now: the update fails.
WriteDecision(d) ==
    /\ deciding[d] # Null
    /\ IF deciding[d].who \in people
       THEN approvals' = {IF IsGate(a, d)
                          THEN [a EXCEPT !.status = deciding[d].decision, !.decidedBy = deciding[d].who]
                          ELSE a : a \in approvals}
       ELSE UNCHANGED approvals
    /\ deciding' = [deciding EXCEPT ![d] = Null]
    /\ Works
    /\ UNCHANGED <<people, uploads, tasks>>

\* DELETE /members/:id: the gates a member asked for go too, whatever the task
\* needs; those decided stay decided, by nobody.
RemoveHead(h) ==
    /\ h \in people
    /\ people' = people \ {h}
    /\ approvals' = {[a EXCEPT !.decidedBy = IF @ = h THEN Null ELSE @] :
                        a \in {b \in approvals : b.by # h}}
    /\ Works
    /\ UNCHANGED <<uploads, tasks, deciding>>

SchoolNext ==
    \/ \E u \in Uploads : \/ Upload(u) \/ ResolveRequester(u) \/ CreateTask(u)
                          \/ OpenGate(u) \/ Answer(u)
    \/ \E d \in Deciders : ReadGate(d) \/ WriteDecision(d)
    \/ \E h \in Heads : RemoveHead(h)

-----------------------------------------------------------------------------
\* A call that has answered left one gate for each reason it found, unless nobody
\* asked or the one who did has left; a gate always stands at a task that needs
\* one, opened for a reason its document has.
GatesMatchFlags ==
    /\ \A u \in Uploads :
          LET gates == {a \in approvals : a.task = u}
          IN  /\ Cardinality(gates) = Cardinality({a.reason : a \in gates})
              /\ uploads[u].step = "done" =>
                    {a.reason : a \in gates} = IF uploads[u].by \in people THEN uploads[u].flags ELSE {}
    /\ \A a \in approvals :
          /\ [upload |-> a.task, needsApproval |-> TRUE] \in tasks
          /\ a.reason \in uploads[a.task].flags

\* A gate changes by a decision on that very gate, or because its decider left;
\* once decided it is never pending again.
GateMovesByDecision ==
    [][\A a \in approvals : \A b \in approvals' :
          /\ a.task = b.task /\ a.reason = b.reason /\ a.status # b.status
          => \E d \in Deciders : /\ deciding[d] # Null /\ deciding'[d] = Null
                                 /\ deciding[d].task = a.task /\ deciding[d].reason = a.reason
                                 /\ b.status = deciding[d].decision /\ b.decidedBy = deciding[d].who
      ]_schoolVars
=============================================================================
