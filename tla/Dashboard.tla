------------------------------- MODULE Dashboard -------------------------------
(* apps/web: one cached snapshot, five mutations that patch it before the server *)
(* has answered, roll it back when the server fails, and fetch it anew when they *)
(* settle; the views offer actions from what is cached.  A snapshot is one task, *)
(* one approval, one wellness window and one skill of a member, enough to tell   *)
(* the mutations apart.                                                          *)
EXTENDS Integers, FiniteSets

CONSTANTS
    Null,
    Mutations,    \* mutations that can be in flight at once
    Modes,        \* VITE_API_MODE: "mock", "real" or both
    MaxPresses,   \* bound: buttons pressed
    MaxLosses     \* bound: requests that fail, and reconnections

ASSUME DashboardAssumption ==
    /\ Modes \subseteq {"mock", "real"} /\ MaxPresses \in Nat /\ MaxLosses \in Nat
    /\ Null \notin {"me", "other"}

VARIABLES
    mode,
    server,       \* the snapshot at the server (in the mock client, its variable)
    cache,        \* what the views show, Null before the first answer
    fetch,        \* the fetch in flight: not yet answered, or with its answer
    failed,       \* the last fetch ended in an error
    mutations,
    presses, losses

vars == <<mode, server, cache, fetch, failed, mutations, presses, losses>>

Actions == {"claimTask", "dropTask", "approve", "reject", "claimWindow", "toggleSkill"}

\* A task has a holder exactly while it is assigned or claimed.
Snapshots ==
    {s \in [task : {"OPEN", "ASSIGNED", "CLAIMED", "DROPPED"}, holder : {Null, "me", "other"},
            approval : {"PENDING", "APPROVED", "REJECTED"}, window : {"SUGGESTED", "CLAIMED"},
            skill : BOOLEAN] : s.holder = Null <=> s.task \in {"OPEN", "DROPPED"}}

NoFetch == [step |-> "none", data |-> Null]
Asked == [step |-> "asked", data |-> Null]

\* A mutation at rest.  "prev" is the snapshot its patch was applied to; "alone"
\* says that nothing else was pressed, fetched or fetching beside it.
Rest == [step |-> "none", action |-> Null, prev |-> Null, alone |-> FALSE]

\* What the server holds and what the views show is a snapshot of a whole task,
\* whichever patches and rollbacks it went through.
TypeOK ==
    /\ mode \in Modes /\ server \in Snapshots /\ cache \in Snapshots \cup {Null}
    /\ fetch.step \in {"none", "asked", "answered"} /\ fetch.data \in Snapshots \cup {Null}
    /\ failed \in BOOLEAN
    /\ mutations \in [Mutations -> [step : {"none", "cancelled", "called", "served", "failed", "settling"},
                                    action : Actions \cup {Null}, prev : Snapshots \cup {Null},
                                    alone : BOOLEAN]]
    /\ presses \in 0 .. MaxPresses /\ losses \in 0 .. MaxLosses

Init ==
    /\ mode \in Modes
    /\ \E task \in {<<"OPEN", Null>>, <<"ASSIGNED", "other">>} :
          server = [task |-> task[1], holder |-> task[2], approval |-> "PENDING",
                    window |-> "SUGGESTED", skill |-> FALSE]
    /\ cache = Null /\ fetch = Asked /\ failed = FALSE
    /\ mutations = [m \in Mutations |-> Rest]
    /\ presses = 0 /\ losses = 0

-----------------------------------------------------------------------------
\* Which buttons the views show.
Offered(s, action) ==
    CASE action = "claimTask" -> s.task = "OPEN"
      [] action = "dropTask" -> s.task \in {"ASSIGNED", "CLAIMED"}
      [] action \in {"approve", "reject"} -> s.approval = "PENDING"
      [] action = "claimWindow" -> s.window = "SUGGESTED"
      [] action = "toggleSkill" -> TRUE

\* The member who acts: the first head of the household.
Me == "me"

\* What a mutation does to the server's snapshot, whatever its state.
Applied(s, action) ==
    CASE action = "claimTask" -> [s EXCEPT !.task = "CLAIMED", !.holder = Me]
      [] action = "dropTask" -> [s EXCEPT !.task = "DROPPED", !.holder = Null]
      [] action = "approve" -> [s EXCEPT !.approval = "APPROVED"]
      [] action = "reject" -> [s EXCEPT !.approval = "REJECTED"]
      [] action = "claimWindow" -> [s EXCEPT !.window = "CLAIMED"]
      [] action = "toggleSkill" -> [s EXCEPT !.skill = ~@]

\* A broken form of the next definition: a dropped task keeps its holder.
PatchedHolderKept(s, action) ==
    IF action = "dropTask" THEN [s EXCEPT !.task = "DROPPED"] ELSE Applied(s, action)

\* What the mutation's patch does to the cached snapshot.
Patched(s, action) == Applied(s, action)

-----------------------------------------------------------------------------
(* The fetch of the snapshot: one at a time.                                    *)

\* The server answers with what it has at that moment.
ServerAnswers ==
    /\ fetch.step = "asked"
    /\ fetch' = [step |-> "answered", data |-> server]
    /\ UNCHANGED <<mode, server, cache, failed, mutations, presses, losses>>

\* The answer becomes what is cached.
AnswerArrives ==
    /\ fetch.step = "answered"
    /\ cache' = fetch.data
    /\ fetch' = NoFetch /\ failed' = FALSE
    /\ UNCHANGED <<mode, server, mutations, presses, losses>>

\* No retry: what is cached stays (the mock client never fails to answer).
FetchFails ==
    /\ mode = "real" /\ fetch.step # "none"
    /\ losses < MaxLosses
    /\ losses' = losses + 1
    /\ fetch' = NoFetch /\ failed' = TRUE
    /\ UNCHANGED <<mode, server, cache, mutations, presses>>

Crowded == [n \in Mutations |-> [mutations[n] EXCEPT !.alone = FALSE]]

\* The browser is back online: the query is fetched unless it is being fetched.
Reconnect ==
    /\ losses < MaxLosses
    /\ losses' = losses + 1
    /\ fetch' = IF fetch.step = "none" THEN Asked ELSE fetch
    /\ mutations' = Crowded
    /\ UNCHANGED <<mode, server, cache, failed, presses>>

-----------------------------------------------------------------------------
(* A mutation.                                                                  *)

\* A broken form of the next definition: a fetch in flight goes on.
CancelQueriesNot == fetch

\* A fetch in flight is given up and its answer is never used.
CancelQueries == NoFetch

\* A button is pressed; the patch waits for cancelQueries.
Press(m) ==
    /\ mutations[m].step = "none"
    /\ presses < MaxPresses
    /\ presses' = presses + 1
    /\ \E action \in Actions :
          /\ cache # Null /\ Offered(cache, action)
          /\ mutations' = [Crowded EXCEPT ![m] =
                [step |-> "cancelled", action |-> action, prev |-> Null,
                 alone |-> \A n \in Mutations : mutations[n].step = "none"]]
    /\ fetch' = CancelQueries
    /\ UNCHANGED <<mode, server, cache, failed, losses>>

\* The snapshot is kept, the patch is shown, the request goes out.
Patch(m) ==
    /\ mutations[m].step = "cancelled"
    /\ mutations' = [mutations EXCEPT ![m].step = "called", ![m].prev = cache]
    /\ cache' = Patched(cache, mutations[m].action)
    /\ UNCHANGED <<mode, server, fetch, failed, presses, losses>>

Serve(m) ==
    /\ mutations[m].step = "called"
    /\ server' = Applied(server, mutations[m].action)
    /\ mutations' = [mutations EXCEPT ![m].step = "served"]
    /\ UNCHANGED <<mode, cache, fetch, failed, presses, losses>>

\* The request is refused or lost, or its answer is lost after it was served.
RequestFails(m) ==
    /\ mode = "real" /\ mutations[m].step \in {"called", "served"}
    /\ losses < MaxLosses
    /\ losses' = losses + 1
    /\ mutations' = [mutations EXCEPT ![m].step = "failed"]
    /\ UNCHANGED <<mode, server, cache, fetch, failed, presses>>

\* A broken form of the next definition: what was shown stays.
RolledBackNot(m) == cache

\* onError: the snapshot kept by this mutation, with whatever others have patched
\* into the cache since taken out too.
RolledBack(m) == mutations[m].prev

RollBack(m) ==
    /\ mutations[m].step = "failed"
    /\ cache' = RolledBack(m)
    /\ mutations' = [mutations EXCEPT ![m].step = "settling"]
    /\ UNCHANGED <<mode, server, fetch, failed, presses, losses>>

\* A broken form of the next definition: only a success fetches anew.
InvalidateOnSuccess(m) == IF mutations[m].step = "served" THEN Asked ELSE fetch

\* A fetch in flight is replaced by a new one.
Invalidate(m) == Asked

\* onSettled, after a success or a rollback.
Settle(m) ==
    /\ mutations[m].step \in {"served", "settling"}
    /\ fetch' = Invalidate(m)
    /\ mutations' = [mutations EXCEPT ![m] = Rest]
    /\ UNCHANGED <<mode, server, cache, failed, presses, losses>>

Next ==
    \/ ServerAnswers \/ AnswerArrives \/ FetchFails \/ Reconnect
    \/ \E m \in Mutations : Press(m) \/ Patch(m) \/ Serve(m) \/ RequestFails(m) \/ RollBack(m) \/ Settle(m)

\* Requests are answered and callbacks run; nobody has to press anything.
Fairness ==
    /\ WF_vars(ServerAnswers) /\ WF_vars(AnswerArrives)
    /\ \A m \in Mutations : /\ WF_vars(Patch(m)) /\ WF_vars(Serve(m))
                            /\ WF_vars(RollBack(m)) /\ WF_vars(Settle(m))

Spec == Init /\ [][Next]_vars
FairSpec == Spec /\ Fairness
-----------------------------------------------------------------------------
\* queries.ts "update it optimistically and then reconcile": once nothing is in
\* flight the dashboard shows what the server has, whatever patches, rollbacks
\* and cancelled fetches came in between, unless the last fetch failed.
QuietShowsServer ==
    (\A m \in Mutations : mutations[m].step = "none") /\ fetch.step = "none" /\ ~failed
        => cache = server

\* While a mutation is alone, what it promised stays on the screen until the
\* server has answered it, and after a failure nothing of it is left.
PromiseHolds ==
    \A m \in Mutations : mutations[m].alone =>
        /\ mutations[m].step \in {"called", "served", "failed"} =>
              cache = Patched(mutations[m].prev, mutations[m].action)
        /\ mutations[m].step = "settling" => cache = mutations[m].prev

\* Once nobody presses anything and no request fails any more, the dashboard
\* comes to show what the server has and stays there.
ComesToRest == <>[](failed \/ cache = server)
=============================================================================
