--------------------------- MODULE MCTaskLifecycle ---------------------------
(* Small instances of TaskLifecycle for TLC.                               *)
EXTENDS TaskLifecycle, TLC

\* dueAt values of created tasks: none, or none and the last instant.
NeverDue == {Never}
DueOrNot == {Never, MaxTime}

\* Tasks, members and request slots are interchangeable.
Symmetry == Permutations(Tasks) \cup Permutations(Members) \cup Permutations(Requests)
=============================================================================
