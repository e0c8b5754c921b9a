----------------------------- MODULE DashboardProofs -----------------------------
(***************************************************************************)
(* What the dashboard's cache guarantees for any number of mutations in    *)
(* flight, of presses and of losses: its types, that a quiet screen shows  *)
(* what the server has, and that a mutation that is alone keeps its promise.*)
(***************************************************************************)
EXTENDS Dashboard, TLAPS

\* What the steps of a mutation and of a fetch have set before they are used.
LocalsOK ==
    /\ fetch.step = "answered" => fetch.data \in Snapshots
    /\ \A m \in Mutations :
          /\ mutations[m].step # "none" => cache \in Snapshots /\ mutations[m].action \in Actions
          /\ mutations[m].step \in {"called", "served", "failed"} => mutations[m].prev \in Snapshots

\* Nothing is in flight but, perhaps, a fetch.
AtRest == \A m \in Mutations : mutations[m].step = "none"

\* At rest, an answer on its way is what the server has, and so is the cache when
\* none is on its way.
Synced ==
    AtRest => /\ fetch.step = "answered" => fetch.data = server
              /\ fetch.step = "none" /\ ~failed => cache = server

\* A mutation that is alone is the only one, and no fetch is in flight.
AloneIsAlone ==
    \A m \in Mutations : mutations[m].alone =>
        /\ fetch.step = "none"
        /\ \A n \in Mutations \ {m} : mutations[n].step = "none"

MutationRow ==
    [step : {"none", "cancelled", "called", "served", "failed", "settling"},
     action : Actions \cup {Null}, prev : Snapshots \cup {Null}, alone : BOOLEAN]

TypeInv == TypeOK /\ LocalsOK
IInv == TypeInv /\ Synced /\ AloneIsAlone /\ PromiseHolds

-----------------------------------------------------------------------------
(* The operators of the model keep a snapshot whole.                        *)

LEMMA AppliedIsSnapshot ==
    ASSUME NEW s \in Snapshots, NEW action \in Actions
    PROVE  Applied(s, action) \in Snapshots
<1>1. CASE action = "claimTask"
      BY <1>1, DashboardAssumption DEF Applied, Snapshots, Me
<1>2. CASE action = "dropTask"
      BY <1>2, DashboardAssumption DEF Applied, Snapshots
<1>3. CASE action = "approve"
      BY <1>3 DEF Applied, Snapshots
<1>4. CASE action = "reject"
      BY <1>4 DEF Applied, Snapshots
<1>5. CASE action = "claimWindow"
      BY <1>5 DEF Applied, Snapshots
<1>6. CASE action = "toggleSkill"
      BY <1>6 DEF Applied, Snapshots
<1> QED BY <1>1, <1>2, <1>3, <1>4, <1>5, <1>6 DEF Actions

LEMMA InitHolds == Init => IInv
<1> SUFFICES ASSUME Init PROVE IInv
    OBVIOUS
<1>1. server \in Snapshots
  <2>1. PICK t \in {<<"OPEN", Null>>, <<"ASSIGNED", "other">>} :
            server = [task |-> t[1], holder |-> t[2], approval |-> "PENDING",
                      window |-> "SUGGESTED", skill |-> FALSE]
        BY DEF Init
  <2>2. CASE t = <<"OPEN", Null>>
        BY <2>1, <2>2 DEF Snapshots
  <2>3. CASE t = <<"ASSIGNED", "other">>
        BY <2>1, <2>3, DashboardAssumption DEF Snapshots
  <2> QED BY <2>1, <2>2, <2>3
<1>2. \A m \in Mutations : mutations[m] = Rest
      BY DEF Init
<1>3. TypeOK
  <2>1. Rest \in MutationRow
        BY DEF Rest, MutationRow
  <2>2. mutations \in [Mutations -> MutationRow]
        BY <2>1 DEF Init
  <2>3. /\ fetch.step \in {"none", "asked", "answered"} /\ fetch.data \in Snapshots \cup {Null}
        /\ cache \in Snapshots \cup {Null} /\ failed \in BOOLEAN
        BY DEF Init, Asked
  <2>4. mode \in Modes /\ presses \in 0 .. MaxPresses /\ losses \in 0 .. MaxLosses
        BY DashboardAssumption DEF Init
  <2> QED BY <1>1, <2>2, <2>3, <2>4 DEF TypeOK, MutationRow
<1>4. LocalsOK
      BY <1>2 DEF Init, LocalsOK, Asked, Rest
<1>5. Synced
      BY DEF Init, Synced, Asked
<1>6. AloneIsAlone /\ PromiseHolds
      BY <1>2 DEF AloneIsAlone, PromiseHolds, Rest
<1> QED BY <1>3, <1>4, <1>5, <1>6 DEF IInv, TypeInv

\* A mutation that moves on leaves the others alone.
LEMMA Moved ==
    ASSUME TypeOK, NEW m \in Mutations, NEW row \in MutationRow,
           mutations' = [mutations EXCEPT ![m] = row]
    PROVE  /\ mutations' \in [Mutations -> MutationRow]
           /\ mutations'[m] = row
           /\ \A n \in Mutations \ {m} : mutations'[n] = mutations[n]
BY DEF TypeOK, MutationRow

\* A button, or the browser coming back, ends the time of being alone.
LEMMA CrowdedRows ==
    ASSUME TypeOK
    PROVE  /\ Crowded \in [Mutations -> MutationRow]
           /\ \A n \in Mutations : /\ Crowded[n].step = mutations[n].step
                                    /\ Crowded[n].action = mutations[n].action
                                    /\ Crowded[n].prev = mutations[n].prev
                                    /\ Crowded[n].alone = FALSE
BY DEF TypeOK, MutationRow, Crowded

LEMMA TypeNext == TypeInv /\ [Next]_vars => TypeInv'
<1> SUFFICES ASSUME TypeInv, [Next]_vars PROVE TypeInv'
    OBVIOUS
<1>0. TypeOK /\ LocalsOK
      BY DEF TypeInv
<1>a. mutations \in [Mutations -> MutationRow]
      BY <1>0 DEF TypeOK, MutationRow
<1>1. CASE ServerAnswers
      BY <1>0, <1>1 DEF ServerAnswers, TypeInv, TypeOK, LocalsOK
<1>2. CASE AnswerArrives
      BY <1>0, <1>2 DEF AnswerArrives, TypeInv, TypeOK, LocalsOK, NoFetch
<1>3. CASE FetchFails
      BY <1>0, <1>3, DashboardAssumption DEF FetchFails, TypeInv, TypeOK, LocalsOK, NoFetch
<1>4. CASE Reconnect
  <2>1. mutations' = Crowded /\ fetch' \in {fetch, Asked}
        BY <1>4 DEF Reconnect
  <2>2. losses' \in 0 .. MaxLosses /\ UNCHANGED <<mode, server, cache, failed, presses>>
        BY <1>0, <1>4, DashboardAssumption DEF Reconnect, TypeOK
  <2>3. /\ fetch'.step \in {"none", "asked", "answered"} /\ fetch'.data \in Snapshots \cup {Null}
        /\ fetch'.step = "answered" => fetch' = fetch
        BY <1>0, <2>1 DEF TypeOK, Asked
  <2>4. mutations' \in [Mutations -> MutationRow]
        BY <1>0, <2>1, CrowdedRows
  <2>5. TypeOK'
        BY <1>0, <2>2, <2>3, <2>4 DEF TypeOK, MutationRow
  <2>6. \A n \in Mutations : /\ mutations'[n].step = mutations[n].step
                             /\ mutations'[n].action = mutations[n].action
                             /\ mutations'[n].prev = mutations[n].prev
        BY <1>0, <2>1, CrowdedRows
  <2>7. LocalsOK'
        BY <1>0, <2>2, <2>3, <2>6 DEF LocalsOK
  <2> QED BY <2>5, <2>7 DEF TypeInv
<1>5. ASSUME NEW m \in Mutations, Press(m) PROVE TypeInv'
  <2>1. PICK action \in Actions, alone \in BOOLEAN :
            /\ cache # Null
            /\ mutations' = [Crowded EXCEPT ![m] =
                   [step |-> "cancelled", action |-> action, prev |-> Null, alone |-> alone]]
        BY <1>5, Zenon DEF Press
  <2>2. fetch' = NoFetch /\ presses' \in 0 .. MaxPresses /\ UNCHANGED <<mode, server, cache, failed, losses>>
        BY <1>0, <1>5, DashboardAssumption DEF Press, CancelQueries, TypeOK
  <2>3. mutations' \in [Mutations -> MutationRow]
        BY <1>0, <2>1, CrowdedRows DEF MutationRow
  <2>4. TypeOK'
        BY <1>0, <2>2, <2>3 DEF TypeOK, MutationRow, NoFetch
  <2>5. LocalsOK'
        BY <1>0, <2>1, <2>2, CrowdedRows DEF LocalsOK, NoFetch, TypeOK
  <2> QED BY <2>4, <2>5 DEF TypeInv
<1>6. ASSUME NEW m \in Mutations, Patch(m) PROVE TypeInv'
  <2>1. cache \in Snapshots /\ mutations[m].action \in Actions
        BY <1>0, <1>6 DEF Patch, LocalsOK
  <2>2. cache' \in Snapshots
        BY <1>6, <2>1, AppliedIsSnapshot DEF Patch, Patched
  <2>3. mutations' = [mutations EXCEPT ![m].step = "called", ![m].prev = cache]
        /\ UNCHANGED <<mode, server, fetch, failed, presses, losses>>
        BY <1>6 DEF Patch
  <2>4. TypeOK'
    <3>1. [mutations[m] EXCEPT !.step = "called", !.prev = cache] \in MutationRow
          BY <1>a, <2>1 DEF MutationRow
    <3>2. mutations' \in [Mutations -> MutationRow]
          BY <1>a, <2>3, <3>1
    <3> QED BY <1>0, <2>2, <2>3, <3>2 DEF TypeOK, MutationRow
  <2>5. LocalsOK'
        BY <1>0, <1>a, <2>1, <2>2, <2>3 DEF LocalsOK, MutationRow
  <2> QED BY <2>4, <2>5 DEF TypeInv
<1>7. ASSUME NEW m \in Mutations, Serve(m) PROVE TypeInv'
  <2>1. server' \in Snapshots
        BY <1>0, <1>7, AppliedIsSnapshot DEF Serve, LocalsOK, TypeOK
  <2>2. mutations' = [mutations EXCEPT ![m].step = "served"] /\ mutations[m].step = "called"
        /\ UNCHANGED <<mode, cache, fetch, failed, presses, losses>>
        BY <1>7 DEF Serve
  <2>3. TypeOK'
        BY <1>0, <2>1, <2>2 DEF TypeOK
  <2>4. LocalsOK'
        BY <1>0, <1>a, <2>2 DEF LocalsOK, MutationRow
  <2> QED BY <2>3, <2>4 DEF TypeInv
<1>8. ASSUME NEW m \in Mutations, RequestFails(m) PROVE TypeInv'
  <2>1. mutations' = [mutations EXCEPT ![m].step = "failed"] /\ mutations[m].step \in {"called", "served"}
        /\ UNCHANGED <<mode, server, cache, fetch, failed, presses>>
        BY <1>8 DEF RequestFails
  <2>2. losses' \in 0 .. MaxLosses
        BY <1>0, <1>8, DashboardAssumption DEF RequestFails, TypeOK
  <2>3. TypeOK'
        BY <1>0, <2>1, <2>2 DEF TypeOK
  <2>4. LocalsOK'
        BY <1>0, <1>a, <2>1 DEF LocalsOK, MutationRow
  <2> QED BY <2>3, <2>4 DEF TypeInv
<1>9. ASSUME NEW m \in Mutations, RollBack(m) PROVE TypeInv'
  <2>1. cache' \in Snapshots
        BY <1>0, <1>9 DEF RollBack, RolledBack, LocalsOK
  <2>2. mutations' = [mutations EXCEPT ![m].step = "settling"] /\ mutations[m].step = "failed"
        /\ UNCHANGED <<mode, server, fetch, failed, presses, losses>>
        BY <1>9 DEF RollBack
  <2>3. TypeOK'
        BY <1>0, <2>1, <2>2 DEF TypeOK
  <2>4. LocalsOK'
        BY <1>0, <1>a, <2>1, <2>2 DEF LocalsOK, MutationRow
  <2> QED BY <2>3, <2>4 DEF TypeInv
<1>10. ASSUME NEW m \in Mutations, Settle(m) PROVE TypeInv'
  <2>1. /\ fetch' = Asked /\ mutations' = [mutations EXCEPT ![m] = Rest]
        /\ UNCHANGED <<mode, server, cache, failed, presses, losses>>
        BY <1>10 DEF Settle, Invalidate
  <2>2. Rest \in MutationRow /\ Rest.step = "none"
        BY DEF Rest, MutationRow
  <2>3. TypeOK'
        BY <1>0, <2>1, <2>2, Moved DEF TypeOK, MutationRow, Asked
  <2>4. LocalsOK'
        BY <1>0, <2>1, <2>2, Moved DEF LocalsOK, Asked
  <2> QED BY <2>3, <2>4 DEF TypeInv
<1>11. CASE UNCHANGED vars
       BY <1>0, <1>11 DEF vars, TypeInv, TypeOK, LocalsOK
<1> QED BY <1>1, <1>2, <1>3, <1>4, <1>5, <1>6, <1>7, <1>8, <1>9, <1>10, <1>11 DEF Next

-----------------------------------------------------------------------------
(* What the screen shows.                                                   *)

LEMMA QuietNext == IInv /\ [Next]_vars => Synced'
<1> SUFFICES ASSUME IInv, [Next]_vars PROVE Synced'
    OBVIOUS
<1>0. TypeOK /\ Synced /\ mutations \in [Mutations -> MutationRow]
      BY DEF IInv, TypeInv, TypeOK, MutationRow
<1>a. ASSUME NEW m \in Mutations, mutations'[m].step # "none" PROVE Synced'
      BY <1>a DEF Synced, AtRest
<1>1. CASE ServerAnswers
      BY <1>0, <1>1 DEF ServerAnswers, Synced, AtRest
<1>2. CASE AnswerArrives
      BY <1>0, <1>2 DEF AnswerArrives, Synced, AtRest, NoFetch
<1>3. CASE FetchFails
      BY <1>0, <1>3 DEF FetchFails, Synced, AtRest, NoFetch
<1>4. CASE Reconnect
  <2>1. \A n \in Mutations : mutations'[n].step = mutations[n].step
        BY <1>0, <1>4, CrowdedRows DEF Reconnect
  <2>2. /\ UNCHANGED <<server, cache, failed>>
        /\ fetch' = IF fetch.step = "none" THEN Asked ELSE fetch
        BY <1>4 DEF Reconnect
  <2> QED BY <1>0, <2>1, <2>2 DEF Synced, AtRest, Asked
<1>5. ASSUME NEW m \in Mutations, Press(m) PROVE Synced'
  <2>1. mutations'[m].step # "none"
        BY <1>0, <1>5, CrowdedRows DEF Press
  <2> QED BY <1>a, <2>1
<1>6. ASSUME NEW m \in Mutations, Patch(m) \/ Serve(m) \/ RequestFails(m) \/ RollBack(m) PROVE Synced'
  <2>1. mutations'[m].step # "none"
        BY <1>0, <1>6 DEF Patch, Serve, RequestFails, RollBack, MutationRow
  <2> QED BY <1>a, <2>1
<1>7. ASSUME NEW m \in Mutations, Settle(m) PROVE Synced'
      BY <1>7 DEF Settle, Invalidate, Synced, Asked
<1>8. CASE UNCHANGED vars
      BY <1>0, <1>8 DEF vars, Synced, AtRest
<1> QED BY <1>1, <1>2, <1>3, <1>4, <1>5, <1>6, <1>7, <1>8 DEF Next

\* Who is alone, and what they promised: one mutation moves at a time, so it is
\* enough to look at the one that moves and at one that stands still.
Kept(m) ==
    mutations[m].alone =>
        /\ fetch.step = "none"
        /\ \A n \in Mutations \ {m} : mutations[n].step = "none"
        /\ mutations[m].step \in {"called", "served", "failed"} =>
              cache = Patched(mutations[m].prev, mutations[m].action)
        /\ mutations[m].step = "settling" => cache = mutations[m].prev

LEMMA KeptIsPromise == (AloneIsAlone /\ PromiseHolds) <=> \A m \in Mutations : Kept(m)
BY Zenon DEF AloneIsAlone, PromiseHolds, Kept

LEMMA PromiseNext == IInv /\ [Next]_vars => AloneIsAlone' /\ PromiseHolds'
<1> SUFFICES ASSUME IInv, [Next]_vars PROVE \A m \in Mutations : Kept(m)'
    BY Zenon DEF AloneIsAlone, PromiseHolds, Kept
<1> SUFFICES ASSUME NEW m \in Mutations, mutations'[m].alone PROVE Kept(m)'
    BY DEF Kept
<1>0. TypeOK /\ LocalsOK /\ mutations \in [Mutations -> MutationRow]
      BY DEF IInv, TypeInv, TypeOK, MutationRow
<1>a. \A n \in Mutations : Kept(n)
      BY KeptIsPromise DEF IInv
<1>1. CASE ServerAnswers
      BY <1>a, <1>1 DEF ServerAnswers, Kept
<1>2. CASE AnswerArrives
      BY <1>a, <1>2 DEF AnswerArrives, Kept
<1>3. CASE FetchFails
      BY <1>a, <1>3 DEF FetchFails, Kept
<1>4. CASE Reconnect
      BY <1>0, <1>4, CrowdedRows DEF Reconnect
<1>5. ASSUME NEW n \in Mutations, Press(n) PROVE Kept(m)'
  <2> DEFINE quiet == \A k \in Mutations : mutations[k].step = "none"
  <2>1. PICK action \in Actions :
            mutations' = [Crowded EXCEPT ![n] =
                [step |-> "cancelled", action |-> action, prev |-> Null, alone |-> quiet]]
        BY <1>5, Zenon DEF Press
  <2>2. fetch' = NoFetch
        BY <1>5 DEF Press, CancelQueries
  <2>3. n = m
        BY <1>0, <2>1, CrowdedRows
  <2>4. \A k \in Mutations \ {m} : mutations'[k].step = "none"
        BY <1>0, <2>1, <2>3, CrowdedRows
  <2>5. mutations'[m].step = "cancelled"
        BY <1>0, <2>1, <2>3, CrowdedRows
  <2> QED BY <2>2, <2>4, <2>5 DEF Kept, NoFetch
<1>6. ASSUME NEW n \in Mutations, Patch(n) PROVE Kept(m)'
  <2>1. mutations[n].step = "cancelled" /\ UNCHANGED fetch
        /\ cache' = Patched(cache, mutations[n].action)
        /\ mutations' = [mutations EXCEPT ![n].step = "called", ![n].prev = cache]
        BY <1>6 DEF Patch
  <2>2. mutations[m].alone
        BY <1>0, <2>1 DEF MutationRow
  <2>3. n = m
        BY <1>a, <2>1, <2>2 DEF Kept
  <2>4. /\ mutations'[m].step = "called" /\ mutations'[m].prev = cache
        /\ mutations'[m].action = mutations[m].action
        /\ \A k \in Mutations \ {m} : mutations'[k] = mutations[k]
        BY <1>0, <2>1, <2>3 DEF MutationRow
  <2>5. cache' = Patched(mutations'[m].prev, mutations'[m].action)
        BY <2>1, <2>3, <2>4
  <2>6. fetch.step = "none" /\ \A k \in Mutations \ {m} : mutations[k].step = "none"
        BY <1>a, <2>2, Zenon DEF Kept
  <2>7. fetch'.step = "none"
        BY <2>1, <2>6
  <2>8. \A k \in Mutations \ {m} : mutations'[k].step = "none"
        BY <2>4, <2>6
  <2>9. mutations'[m].step # "settling"
        BY <2>4
  <2> QED BY <2>5, <2>7, <2>8, <2>9, Zenon DEF Kept
<1>7. ASSUME NEW n \in Mutations, Serve(n) PROVE Kept(m)'
  <2>1. mutations[n].step = "called" /\ UNCHANGED <<fetch, cache>>
        /\ mutations' = [mutations EXCEPT ![n].step = "served"]
        BY <1>7 DEF Serve
  <2>2. mutations[m].alone
        BY <1>0, <2>1 DEF MutationRow
  <2>3. n = m
        BY <1>a, <2>1, <2>2 DEF Kept
  <2>4. /\ mutations'[m].step = "served" /\ mutations'[m].prev = mutations[m].prev
        /\ mutations'[m].action = mutations[m].action
        /\ \A k \in Mutations \ {m} : mutations'[k] = mutations[k]
        BY <1>0, <2>1, <2>3 DEF MutationRow
  <2> QED BY <1>a, <2>1, <2>2, <2>3, <2>4 DEF Kept, Patched
<1>8. ASSUME NEW n \in Mutations, RequestFails(n) PROVE Kept(m)'
  <2>1. mutations[n].step \in {"called", "served"} /\ UNCHANGED <<fetch, cache>>
        /\ mutations' = [mutations EXCEPT ![n].step = "failed"]
        BY <1>8 DEF RequestFails
  <2>2. mutations[m].alone
        BY <1>0, <2>1 DEF MutationRow
  <2>3. n = m
        BY <1>a, <2>1, <2>2 DEF Kept
  <2>4. /\ mutations'[m].step = "failed" /\ mutations'[m].prev = mutations[m].prev
        /\ mutations'[m].action = mutations[m].action
        /\ \A k \in Mutations \ {m} : mutations'[k] = mutations[k]
        BY <1>0, <2>1, <2>3 DEF MutationRow
  <2> QED BY <1>a, <2>1, <2>2, <2>3, <2>4 DEF Kept, Patched
<1>9. ASSUME NEW n \in Mutations, RollBack(n) PROVE Kept(m)'
  <2>1. mutations[n].step = "failed" /\ UNCHANGED fetch /\ cache' = mutations[n].prev
        /\ mutations' = [mutations EXCEPT ![n].step = "settling"]
        BY <1>9 DEF RollBack, RolledBack
  <2>2. mutations[m].alone
        BY <1>0, <2>1 DEF MutationRow
  <2>3. n = m
        BY <1>a, <2>1, <2>2 DEF Kept
  <2>4. /\ mutations'[m].step = "settling" /\ mutations'[m].prev = mutations[m].prev
        /\ \A k \in Mutations \ {m} : mutations'[k] = mutations[k]
        BY <1>0, <2>1, <2>3 DEF MutationRow
  <2> QED BY <1>a, <2>1, <2>2, <2>3, <2>4 DEF Kept
<1>10. ASSUME NEW n \in Mutations, Settle(n) PROVE Kept(m)'
  <2>1. mutations[n].step # "none" /\ mutations' = [mutations EXCEPT ![n] = Rest]
        BY <1>10 DEF Settle
  <2>2. n # m
        BY <1>0, <2>1 DEF Rest
  <2>3. mutations[m].alone
        BY <1>0, <2>1, <2>2
  <2> QED BY <1>a, <2>1, <2>2, <2>3 DEF Kept
<1>11. CASE UNCHANGED vars
       BY <1>a, <1>11 DEF vars, Kept, Patched
<1> QED BY <1>1, <1>2, <1>3, <1>4, <1>5, <1>6, <1>7, <1>8, <1>9, <1>10, <1>11 DEF Next

LEMMA InvariantNext == IInv /\ [Next]_vars => IInv'
BY TypeNext, QuietNext, PromiseNext, Zenon DEF IInv

-----------------------------------------------------------------------------
\* Whatever is patched, served, lost and rolled back, what the server has and what
\* the views show are whole snapshots (api/queries.ts).
THEOREM DashboardTypes == Spec => []TypeOK
<1>1. IInv => TypeOK
      BY DEF IInv, TypeInv
<1> QED BY <1>1, InitHolds, InvariantNext, PTL DEF Spec

\* However many mutations overlap, a screen with nothing in flight shows what the
\* server has, unless the last fetch failed (api/queries.ts, onSettled).
THEOREM QuietScreenIsTrue == Spec => []QuietShowsServer
<1>1. IInv => QuietShowsServer
      BY DEF IInv, Synced, AtRest, QuietShowsServer
<1> QED BY <1>1, InitHolds, InvariantNext, PTL DEF Spec

\* A mutation that nothing else touches keeps its patch on the screen until it is
\* answered, and takes it back entirely when it fails (api/queries.ts, onMutate, onError).
THEOREM PromisesAreKept == Spec => []PromiseHolds
<1>1. IInv => PromiseHolds
      BY DEF IInv
<1> QED BY <1>1, InitHolds, InvariantNext, PTL DEF Spec
=============================================================================
