------------------------------- MODULE CoreTime -------------------------------
(* packages/core/src/time.ts and routing/age.ts.  An instant is an integer and *)
(* a minute has Minute instants (in the code instants are milliseconds and a   *)
(* minute has 60000 of them): a length in minutes becomes one in instants, and *)
(* a difference of instants is floored to whole minutes.  A calendar date is a *)
(* record of year, month and day.                                              *)
EXTENDS Integers, FiniteSetsExt

CONSTANTS
    Null,       \* a value that is missing: undefined or null in the code
    Minute      \* instants in a minute

ASSUME MinuteLasts == Minute \in Nat \ {0}

\* A set in the order of a strict total order, given as the pairs in it: each
\* element is preceded by as many as come before it (SetToSortSeq would enumerate
\* all arrangements first).
SortedBy(S, R) ==
    [k \in 1 .. Cardinality(S) |->
        CHOOSE x \in S : Cardinality({y \in S : <<y, x>> \in R}) = k - 1]

Sorted(S, before(_, _)) == SortedBy(S, {p \in S \X S : before(p[1], p[2])})

\* The elements of a list at the places in I, in the order of the list, and by
\* start, equal starts in the order of the list.
Kept(s, I) ==
    LET order == SortedBy(I, {p \in I \X I : p[1] < p[2]})
    IN  [k \in DOMAIN order |-> s[order[k]]]

StartsFirst(s, i, j) ==
    \/ s[i].from < s[j].from
    \/ s[i].from = s[j].from /\ i < j

ByStart(s, I) ==
    LET order == SortedBy(I, {p \in I \X I : StartsFirst(s, p[1], p[2])})
    IN  [k \in DOMAIN order |-> s[order[k]]]

\* The sum of a function over a finite set.
SumOf(v, S) == MapThenSumSet(LAMBDA i : v[i], S)

Clamp(x, lo, hi) == Min({hi, Max({lo, x})})

AddMinutes(t, n) == t + n * Minute

\* Whole minutes from b to a, rounded down.
DiffMinutes(a, b) == (a - b) \div Minute

\* Half-open: two windows that only touch do not overlap.
WindowsOverlap(aStart, aEnd, bStart, bEnd) == aStart < bEnd /\ bStart < aEnd

\* Date order, and the whole years between a birth date and today.
Before(d, e) ==
    \/ d.y < e.y
    \/ d.y = e.y /\ d.m < e.m
    \/ d.y = e.y /\ d.m = e.m /\ d.d < e.d

ComputeAge(birth, today) ==
    IF birth = Null THEN Null
    ELSE LET monthDelta == today.m - birth.m
             early == monthDelta < 0 \/ (monthDelta = 0 /\ today.d < birth.d)
         IN  Max({0, today.y - birth.y - (IF early THEN 1 ELSE 0)})
=============================================================================
