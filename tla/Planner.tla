-------------------------------- MODULE Planner --------------------------------
(* services/api modules/availability and modules/wellbeing: availability blocks  *)
(* come and are purged while the conflict radar and the search for free windows  *)
(* read them, compute, and store what they found row by row.                     *)
EXTENDS ApiCall, Commute, Wellbeing

CONSTANTS
    Planned,    \* the members of the household, in the order they are read
    BlockKinds, \* the blocks that may be added: [member, kind, from, to]
    GoalRows,   \* the goals that may be set: [id, member, count, minutes]
    Radars,     \* calls of detectAndStoreConflicts
    Searches,   \* calls of suggestWindows
    PlanRange,  \* the range a search is given
    MaxBlocks   \* bound: blocks at a time

\* Instants and lengths are numbers; nothing in the code has a block end after it
\* starts.
ASSUME PlannerAssumption ==
    /\ \A b \in BlockKinds : b.from \in Int /\ b.to \in Int
    /\ \A g \in GoalRows : g.minutes \in Int
    /\ PlanRange.from \in Int /\ PlanRange.to \in Int
    /\ MaxBlocks \in Nat

VARIABLES
    blocks,     \* rows of AvailabilityBlock, oldest first
    goals,      \* rows of WellnessGoal, oldest first
    conflicts,  \* rows of Conflict, with the call that stored them
    windows,    \* rows of WellnessWindow, with the call that stored them
    radars,     \* per call, how far it has come, what it read and what it found
    searches

plannerVars == <<blocks, goals, conflicts, windows, radars, searches>>

NotRun == [step |-> "none", seen |-> <<>>, found |-> <<>>]
NotSearched == [step |-> "none", member |-> Null, goals |-> <<>>, seen |-> <<>>, found |-> <<>>]
Steps == {"none", "goals", "blocks", "store", "done", "failed"}

PlannerTypeOK ==
    /\ Len(blocks) <= MaxBlocks /\ Range(blocks) \subseteq BlockKinds
    /\ Range(goals) \subseteq GoalRows
    /\ \A i \in DOMAIN conflicts : conflicts[i].call \in Radars
    /\ \A i \in DOMAIN windows : windows[i].call \in Searches
    /\ \A r \in Radars : radars[r].step \in Steps
    /\ \A s \in Searches : searches[s].step \in Steps

PlannerInit ==
    /\ blocks = <<>> /\ goals = <<>> /\ conflicts = <<>> /\ windows = <<>>
    /\ radars = [r \in Radars |-> NotRun]
    /\ searches = [s \in Searches |-> NotSearched]

AddBlock ==
    /\ Len(blocks) < MaxBlocks
    /\ \E b \in BlockKinds : blocks' = Append(blocks, b)
    /\ Works
    /\ UNCHANGED <<goals, conflicts, windows, radars, searches>>

\* The purge sweep deletes blocks whose raw source has expired.
PurgeBlock ==
    /\ \E i \in DOMAIN blocks : blocks' = RemoveAt(blocks, i)
    /\ Works
    /\ UNCHANGED <<goals, conflicts, windows, radars, searches>>

SetGoal ==
    /\ \E g \in GoalRows \ Range(goals) : goals' = Append(goals, g)
    /\ Works
    /\ UNCHANGED <<blocks, conflicts, windows, radars, searches>>

\* A broken form of the next definition: travel is not a commitment.
IsCommitmentBusy(b) == b.kind = "BUSY"

\* BUSY and TRAVEL blocks take up time.
IsCommitment(b) == b.kind # "AVAILABLE"

-----------------------------------------------------------------------------
(* The radar.                                                                   *)

\* A block as a commitment: without a task, and never in need of a driver.
Commitments(seen) ==
    LET kept == Kept(seen, {i \in DOMAIN seen : IsCommitment(seen[i])})
    IN  [i \in DOMAIN kept |-> [member |-> kept[i].member, from |-> kept[i].from, to |-> kept[i].to,
                                task |-> Null, driver |-> FALSE]]

\* The members are read before the blocks; the radar asks only whether one of
\* them drives, which without a need for a driver makes no difference.
RunRadar(r) ==
    /\ radars[r].step = "none"
    /\ radars' = [radars EXCEPT ![r] =
          [step |-> "store", seen |-> blocks,
           found |-> DetectConflicts(Commitments(blocks), <<>>, DefaultBuffer)]]
    /\ Works
    /\ UNCHANGED <<blocks, goals, conflicts, windows, searches>>

\* The next conflict is stored, whether or not an earlier run has stored it.
StoreConflict(r) ==
    /\ radars[r].step = "store"
    /\ \/ /\ radars[r].found # <<>>
          /\ conflicts' = Append(conflicts, [call |-> r, conflict |-> Head(radars[r].found)])
          /\ radars' = [radars EXCEPT ![r].found = Tail(@)]
          /\ Works
       \/ /\ radars[r].found # <<>>
          /\ radars' = [radars EXCEPT ![r].step = "failed"]
          /\ UNCHANGED conflicts /\ Fails
       \/ /\ radars[r].found = <<>>
          /\ radars' = [radars EXCEPT ![r].step = "done"]
          /\ UNCHANGED conflicts /\ Works
    /\ UNCHANGED <<blocks, goals, windows, searches>>

-----------------------------------------------------------------------------
(* The search for free windows.                                                 *)

BusyBlocks(seen, member) ==
    LET kept == Kept(seen, {i \in DOMAIN seen : seen[i].member = member /\ IsCommitment(seen[i])})
    IN  [i \in DOMAIN kept |-> [from |-> kept[i].from, to |-> kept[i].to, label |-> kept[i].kind]]

\* The member's goals, then the member's blocks, then the search; in between
\* goals are set, blocks come and go.
ReadGoals(s) ==
    /\ searches[s].step = "none"
    /\ \E m \in Range(Planned) :
          searches' = [searches EXCEPT ![s].step = "blocks", ![s].member = m,
                                       ![s].goals = Kept(goals, {i \in DOMAIN goals : goals[i].member = m})]
    /\ Works
    /\ UNCHANGED <<blocks, goals, conflicts, windows, radars>>

Search(s) ==
    LET c == searches[s]
    IN  /\ c.step = "blocks"
        /\ searches' = [searches EXCEPT ![s].step = "store", ![s].seen = blocks,
               ![s].found = FindMicroWindows(c.member, c.goals, BusyBlocks(blocks, c.member), PlanRange, 0)]
        /\ Works
        /\ UNCHANGED <<blocks, goals, conflicts, windows, radars>>

\* The next window is stored as SUGGESTED; nothing looks at earlier suggestions.
StoreWindow(s) ==
    /\ searches[s].step = "store"
    /\ \/ /\ searches[s].found # <<>>
          /\ windows' = Append(windows, [call |-> s, window |-> Head(searches[s].found),
                                         status |-> "SUGGESTED"])
          /\ searches' = [searches EXCEPT ![s].found = Tail(@)]
          /\ Works
       \/ /\ searches[s].found # <<>>
          /\ searches' = [searches EXCEPT ![s].step = "failed"]
          /\ UNCHANGED windows /\ Fails
       \/ /\ searches[s].found = <<>>
          /\ searches' = [searches EXCEPT ![s].step = "done"]
          /\ UNCHANGED windows /\ Works
    /\ UNCHANGED <<blocks, goals, conflicts, radars>>

RadarNext ==
    \/ AddBlock \/ PurgeBlock
    \/ \E r \in Radars : RunRadar(r) \/ StoreConflict(r)

SearchNext ==
    \/ AddBlock \/ PurgeBlock \/ SetGoal
    \/ \E s \in Searches : ReadGoals(s) \/ Search(s) \/ StoreWindow(s)

-----------------------------------------------------------------------------
\* Two blocks of one member, both taking up time, that overlap.
Clashing(a, b) ==
    /\ a.kind # "AVAILABLE" /\ b.kind # "AVAILABLE"
    /\ a.member = b.member /\ WindowsOverlap(a.from, a.to, b.from, b.to)

\* The second of two blocks of one member begins when the first has ended, less than
\* some minutes later.
Squeezed(a, b, minutes) ==
    /\ a.kind # "AVAILABLE" /\ b.kind # "AVAILABLE"
    /\ a.member = b.member /\ a.to <= b.from /\ b.from < AddMinutes(a.to, minutes)

\* A finished run has stored a conflict if the blocks it read held a double booking,
\* and, where those blocks last, every conflict of that kind points at one of them;
\* every squeeze it stored lies between two blocks of one member less than 15 minutes
\* apart and is serious below six; however many rows came or went before it was done.
RadarStoresWhatItSaw ==
    \A r \in Radars : radars[r].step = "done" =>
        LET seen == radars[r].seen
            stored == {conflicts[i].conflict : i \in {k \in DOMAIN conflicts : conflicts[k].call = r}}
            ripples == {c \in stored : c.type = "RIPPLE_SHIFT"}
            squeezes == {c \in stored : c.type = "BUFFER_SQUEEZE"}
        IN  /\ (\E i, j \in DOMAIN seen : i # j /\ Clashing(seen[i], seen[j])) => ripples # {}
            /\ (\A k \in DOMAIN seen : seen[k].from < seen[k].to) =>
                  \A c \in ripples : \E i, j \in DOMAIN seen :
                     i # j /\ Clashing(seen[i], seen[j]) /\ c.from = Max({seen[i].from, seen[j].from})
            /\ \A c \in squeezes : \E i, j \in DOMAIN seen :
                  /\ i # j /\ c.from = seen[i].to /\ c.to = seen[j].from
                  /\ Squeezed(seen[i], seen[j], 15)
                  /\ c.severity = "MEDIUM" <=> Squeezed(seen[i], seen[j], 6)

\* What a search has stored fits around the blocks it read, BUSY and TRAVEL alike,
\* and serves a goal its member had; one call never stores two that overlap.
WindowsFitTheBlocks ==
    \A i \in DOMAIN windows :
        LET w == windows[i].window
            c == searches[windows[i].call]
        IN  /\ \A k \in DOMAIN c.seen : c.seen[k].member = c.member /\ c.seen[k].kind # "AVAILABLE" =>
                  ~WindowsOverlap(w.from, w.to, c.seen[k].from, c.seen[k].to)
            /\ \E k \in DOMAIN goals : goals[k].id = w.goal /\ goals[k].member = c.member
            /\ \A j \in DOMAIN windows : j # i /\ windows[j].call = windows[i].call =>
                  ~WindowsOverlap(w.from, w.to, windows[j].window.from, windows[j].window.to)
=============================================================================
