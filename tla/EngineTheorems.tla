----------------------------- MODULE EngineTheorems -----------------------------
(***************************************************************************)
(* What the services and the library both rely on: the load shares, the    *)
(* free windows and the conflict radar, for every input.                   *)
(***************************************************************************)
EXTENDS Commute, Wellbeing, CoreTheorems

-----------------------------------------------------------------------------
(* Load shares.                                                                 *)

\* The weight of the counted tasks as a sum of a function.
LEMMA WeightIsSum ==
    ASSUME NEW tasks, NEW S, IsFiniteSet(S), \A i \in S : tasks[i].urgency \in Urgencies,
           NEW w, \A i \in S : w[i] = UrgencyWeight[tasks[i].urgency]
    PROVE  /\ \A i \in S : w[i] \in 1 .. 4
           /\ Weight(tasks, S) = SumOf(w, S)
<1> DEFINE u == [i \in S |-> UrgencyWeight[tasks[i].urgency]]
<1>1. \A i \in S : w[i] \in 1 .. 4 /\ w[i] \in Int /\ w[i] = u[i]
      BY DEF UrgencyWeight, Urgencies
<1>2. Weight(tasks, S) = SumOf(u, S)
      BY DEF Weight
<1> HIDE DEF u
<1>3. SumOf(w, S) = SumOf(u, S)
      BY <1>1, SumSame
<1> QED BY <1>1, <1>2, <1>3

\* One rounded share of a whole: within half a tenth of a percent.
IsShare(s, n, d) ==
    /\ s \in 0 .. 1000
    /\ 2 * d * s <= 2000 * n + d
    /\ 2000 * n - d < 2 * d * s

LEMMA ShareIsRounded ==
    ASSUME NEW n \in Nat, NEW d \in Nat, d > 0, n <= d
    PROVE  IsShare(Clamp(Tenths(n, d), 0, 1000), n, d)
<1> DEFINE q == (2000 * n + d) \div (2 * d)
<1>1. q \in 0 .. 1000 /\ 2 * d * q <= 2000 * n + d /\ 2000 * n + d < 2 * d * q + 2 * d
      OBVIOUS
<1>2. Clamp(q, 0, 1000) = q
  <2> DEFINE lo == 0
             hi == 1000
  <2>1. q \in Int /\ lo \in Int /\ hi \in Int /\ lo <= hi /\ q \in lo .. hi
        BY <1>1
  <2> HIDE DEF lo, hi, q
  <2>2. Clamp(q, lo, hi) = q
        BY <2>1, ClampStays
  <2> QED BY <2>2 DEF lo, hi
<1> QED BY <1>1, <1>2 DEF Tenths, IsShare

\* Tasks whose load is known, and the shares a household's load is split into.
LoadKnown(tasks) ==
    /\ IsFiniteSet(DOMAIN tasks)
    /\ \A i \in DOMAIN tasks : tasks[i].urgency \in Urgencies

SharesOf(share, tasks, members) ==
    \A m \in members : share[m] = ComputeLoadEquity(tasks, members)[m].share

\* None without load, else the whole, give or take half a tenth of a percent per
\* member.
OneWhole(share, tasks, members) ==
    /\ \A m \in members : share[m] \in 0 .. 1000
    /\ \A m \in members : ComputeLoadEquity(tasks, members)[m].load \in Nat
    /\ \/ /\ \A i \in DOMAIN tasks : ~Counted(tasks[i], members)
          /\ \A m \in members : ComputeLoadEquity(tasks, members)[m].load = 0
          /\ SumOf(share, members) = 0
       \/ /\ \E m \in members : ComputeLoadEquity(tasks, members)[m].load > 0
          /\ SumOf(share, members) \in Int
          /\ 2 * SumOf(share, members) \in 2000 - Cardinality(members) .. 2000 + Cardinality(members)

LEMMA SharesMakeTheWhole ==
    ASSUME NEW tasks, LoadKnown(tasks), NEW members, IsFiniteSet(members),
           NEW share, SharesOf(share, tasks, members)
    PROVE  OneWhole(share, tasks, members)
<1> USE DEF LoadKnown, SharesOf, OneWhole
<1> DEFINE S == {i \in DOMAIN tasks : Counted(tasks[i], members)}
           Of(m) == {i \in DOMAIN tasks : Counted(tasks[i], members) /\ tasks[i].assignee = m}
           w == [i \in DOMAIN tasks |-> UrgencyWeight[tasks[i].urgency]]
           h == [i \in DOMAIN tasks |-> tasks[i].assignee]
           load == [m \in members |-> LoadOf(m, tasks, members)]
           total == SumOf(w, S)
           N == Cardinality(members)
<1>0. S \subseteq DOMAIN tasks /\ IsFiniteSet(S) /\ N \in Nat
      BY FS_Subset, FS_CardinalityType
<1>1. /\ \A i \in S : w[i] \in 1 .. 4
      /\ Weight(tasks, S) = total
  <2>1. \A i \in S : tasks[i].urgency \in Urgencies /\ w[i] = UrgencyWeight[tasks[i].urgency]
        OBVIOUS
  <2> HIDE DEF S, w
  <2> QED BY <1>0, <2>1, WeightIsSum
<1>2. ASSUME NEW m \in members
      PROVE  /\ Of(m) = {i \in S : h[i] = m}
             /\ load[m] = SumOf(w, {i \in S : h[i] = m})
  <2>1. Of(m) = {i \in S : h[i] = m} /\ Of(m) \subseteq DOMAIN tasks
        OBVIOUS
  <2>2. IsFiniteSet(Of(m))
        BY <2>1, FS_Subset
  <2>3. \A i \in Of(m) : tasks[i].urgency \in Urgencies /\ w[i] = UrgencyWeight[tasks[i].urgency]
        OBVIOUS
  <2>4. load[m] = Weight(tasks, Of(m))
        BY DEF LoadOf
  <2> DEFINE A == Of(m)
  <2>5. Weight(tasks, A) = SumOf(w, A)
    <3>1. IsFiniteSet(A) /\ \A i \in A : tasks[i].urgency \in Urgencies /\ w[i] = UrgencyWeight[tasks[i].urgency]
          BY <2>2, <2>3
    <3> HIDE DEF A, w
    <3> QED BY <3>1, WeightIsSum
  <2> QED BY <2>1, <2>4, <2>5
<1>3. /\ \A i \in S : w[i] \in Nat /\ w[i] \in Int /\ w[i] > 0
      /\ \A i \in S : h[i] \in members
      BY <1>1 DEF Counted
<1>4. total \in Nat
  <2> HIDE DEF S, w
  <2> QED BY <1>0, <1>3, SumAtLeast
<1>5. SumOf(load, members) = total
  <2>1. /\ IsFiniteSet(S) /\ (\A i \in S : w[i] \in Int)
        /\ IsFiniteSet(members) /\ (\A i \in S : h[i] \in members)
        /\ Fibres(load, w, h, S, members)
        BY <1>0, <1>2, <1>3 DEF Fibres
  <2> HIDE DEF S, w, h, load
  <2> QED BY <2>1, SumFibres
<1>6. ASSUME NEW m \in members PROVE load[m] \in Nat /\ load[m] <= total
  <2> DEFINE A == {i \in S : h[i] = m}
  <2>1. A \in SUBSET S /\ load[m] = SumOf(w, A)
        BY <1>2
  <2> HIDE DEF A, S, w, load
  <2>2. SumOf(w, A) \in Nat /\ SumOf(w, A) <= SumOf(w, S)
        BY <1>0, <1>3, <2>1, SumAtLeast
  <2> QED BY <2>1, <2>2
<1>7. ASSUME NEW m \in members
      PROVE  /\ ComputeLoadEquity(tasks, members)[m].load = load[m]
             /\ share[m] = IF total = 0 THEN 0 ELSE Clamp(Tenths(load[m], total), 0, 1000)
  <2>1. ComputeLoadEquity(tasks, members)[m] =
            [load |-> load[m],
             share |-> IF total = 0 THEN 0 ELSE Clamp(Tenths(load[m], total), 0, 1000)]
        BY <1>1 DEF ComputeLoadEquity
  <2> HIDE DEF load, total
  <2>2. share[m] = ComputeLoadEquity(tasks, members)[m].share
        OBVIOUS
  <2> QED BY <2>1, <2>2
<1>10. \A m \in members : ComputeLoadEquity(tasks, members)[m].load = load[m] /\ load[m] \in Nat
  <2> HIDE DEF total, load, S, w, h
  <2> QED BY <1>6, <1>7
<1>8. CASE total = 0
  <2>1. \A m \in members : share[m] = 0 /\ load[m] = 0
        BY <1>6, <1>7, <1>8
  <2>2. \A i \in DOMAIN tasks : ~Counted(tasks[i], members)
    <3> SUFFICES ASSUME NEW i \in S PROVE FALSE
        OBVIOUS
    <3>1. w[i] <= total
      <4> HIDE DEF S, w
      <4> QED BY <1>0, <1>3, SumAtLeast
    <3> QED BY <1>3, <1>8, <3>1
  <2>3. SumOf(share, members) = 0
    <3> DEFINE c == 0
    <3>1. c \in Int /\ \A m \in members : share[m] = c
          BY <2>1
    <3> HIDE DEF c
    <3>2. SumOf(share, members) = c * Cardinality(members)
          BY <3>1, SumConst
    <3> QED BY <1>0, <3>2 DEF c
  <2>4. \A m \in members : ComputeLoadEquity(tasks, members)[m].load = 0
        BY <1>10, <2>1
  <2> QED BY <2>1, <2>2, <2>3, <2>4
<1>9. CASE total # 0
  <2> DEFINE d == total
  <2>1. d \in Nat /\ d > 0
        BY <1>4, <1>9
  <2>2. ASSUME NEW m \in members
        PROVE  /\ share[m] \in 0 .. 1000
               /\ 2 * d * share[m] <= 2000 * load[m] + d
               /\ 2000 * load[m] - d < 2 * d * share[m]
    <3> DEFINE n == load[m]
    <3>1. n \in Nat /\ n <= d /\ share[m] = Clamp(Tenths(n, d), 0, 1000)
          BY <1>6, <1>7, <1>9
    <3> HIDE DEF n, d
    <3>2. IsShare(Clamp(Tenths(n, d), 0, 1000), n, d)
          BY <2>1, <3>1, ShareIsRounded
    <3>3. IsShare(share[m], n, d)
          BY <3>1, <3>2
    <3> QED BY <3>3 DEF n, IsShare
  <2> DEFINE low  == [m \in members |-> 2000 * load[m] - d]
             mid  == [m \in members |-> 2 * d * share[m]]
             high == [m \in members |-> 2000 * load[m] + d]
             thou == [m \in members |-> 2000 * load[m]]
             plus == [m \in members |-> d]
             less == [m \in members |-> -d]
             two  == 2 * d
             ls   == SumOf(share, members)
  <2>3. \A m \in members : /\ share[m] \in Int /\ load[m] \in Int
                           /\ mid[m] = two * share[m] /\ thou[m] = 2000 * load[m]
                           /\ high[m] = thou[m] + plus[m] /\ low[m] = thou[m] + less[m]
                           /\ plus[m] = d /\ less[m] = -d
                           /\ thou[m] \in Int /\ plus[m] \in Int /\ less[m] \in Int
                           /\ mid[m] \in Int /\ low[m] \in Int /\ high[m] \in Int
                           /\ low[m] <= mid[m] /\ mid[m] <= high[m]
    <3> SUFFICES ASSUME NEW m \in members
                 PROVE  /\ share[m] \in Int /\ load[m] \in Int
                        /\ 2 * d * share[m] = two * share[m]
                        /\ 2000 * load[m] + d = 2000 * load[m] + d
                        /\ 2000 * load[m] - d = 2000 * load[m] + (-d)
                        /\ 2000 * load[m] \in Int /\ d \in Int /\ -d \in Int
                        /\ 2 * d * share[m] \in Int
                        /\ 2000 * load[m] - d <= 2 * d * share[m]
                        /\ 2 * d * share[m] <= 2000 * load[m] + d
        OBVIOUS
    <3> DEFINE n == load[m]
               s == share[m]
    <3>1. n \in Nat /\ s \in 0 .. 1000 /\ 2 * d * s <= 2000 * n + d /\ 2000 * n - d < 2 * d * s
          BY <1>6, <2>2
    <3> HIDE DEF n, s, d
    <3>2. /\ s \in Int /\ n \in Int /\ 2 * d * s = (2 * d) * s
          /\ 2000 * n - d = 2000 * n + (-d) /\ 2000 * n \in Int /\ d \in Int /\ -d \in Int
          /\ 2 * d * s \in Int /\ 2000 * n - d <= 2 * d * s
          BY <2>1, <3>1
    <3> QED BY <3>1, <3>2 DEF n, s
  <2> HIDE DEF low, mid, high, thou, plus, less, d, load
  <2>4. ls \in Int
    <3>1. members \in SUBSET members
          OBVIOUS
    <3> QED BY <2>3, <3>1, SumFacts
  <2> HIDE DEF ls
  <2>5. SumOf(mid, members) = two * ls
    <3>1. two \in Int
          BY <2>1
    <3> HIDE DEF two
    <3> QED BY <2>3, <3>1, SumScale DEF ls
  <2>6. SumOf(thou, members) = 2000 * d
    <3> DEFINE c == 2000
    <3>1. c \in Int /\ \A m \in members : load[m] \in Int /\ thou[m] = c * load[m]
          BY <2>3
    <3> HIDE DEF c
    <3>2. SumOf(thou, members) = c * SumOf(load, members)
          BY <3>1, SumScale
    <3> QED BY <1>5, <3>2 DEF c, d
  <2>7. SumOf(plus, members) = d * N /\ SumOf(less, members) = (-d) * N
    <3> DEFINE e == -d
    <3>1. d \in Int /\ e \in Int /\ \A m \in members : plus[m] = d /\ less[m] = e
          BY <2>1, <2>3
    <3> HIDE DEF e
    <3> QED BY <3>1, SumConst DEF e
  <2>8. SumOf(high, members) = 2000 * d + d * N
    <3>1. \A m \in members : thou[m] \in Int /\ plus[m] \in Int /\ high[m] = thou[m] + plus[m]
          BY <2>3
    <3>2. SumOf(high, members) = SumOf(thou, members) + SumOf(plus, members)
          BY <3>1, SumAdd
    <3> QED BY <2>6, <2>7, <3>2
  <2>9. SumOf(low, members) = 2000 * d + (-d) * N
    <3>1. \A m \in members : thou[m] \in Int /\ less[m] \in Int /\ low[m] = thou[m] + less[m]
          BY <2>3
    <3>2. SumOf(low, members) = SumOf(thou, members) + SumOf(less, members)
          BY <3>1, SumAdd
    <3> QED BY <2>6, <2>7, <3>2
  <2>10. SumOf(low, members) <= SumOf(mid, members) /\ SumOf(mid, members) <= SumOf(high, members)
    <3>1. \A m \in members : low[m] \in Int /\ mid[m] \in Int /\ low[m] <= mid[m]
          BY <2>3
    <3>2. \A m \in members : mid[m] \in Int /\ high[m] \in Int /\ mid[m] <= high[m]
          BY <2>3
    <3> QED BY <3>1, <3>2, SumMono
  <2>11. 2000 * d + (-d) * N <= two * ls /\ two * ls <= 2000 * d + d * N
         BY <2>5, <2>8, <2>9, <2>10
  <2>12. 2 * ls \in 2000 - N .. 2000 + N
    <3> HIDE DEF N
    <3>1. d * (2000 - N) <= d * (2 * ls) /\ d * (2 * ls) <= d * (2000 + N)
          BY <1>0, <2>1, <2>4, <2>11
    <3> QED BY <1>0, <2>1, <2>4, <3>1
  <2>13. \E m \in members : load[m] > 0
    <3> SUFFICES ASSUME \A m \in members : ~(load[m] > 0) PROVE FALSE
        OBVIOUS
    <3> DEFINE c == 0
    <3>1. c \in Int /\ \A m \in members : load[m] = c
      <4>1. ASSUME NEW m \in members PROVE load[m] = 0
        <5>1. load[m] \in Nat /\ ~(load[m] > 0)
              BY <1>6
        <5> HIDE DEF load
        <5> QED BY <5>1
      <4> QED BY <4>1
    <3> HIDE DEF c
    <3>2. SumOf(load, members) = c * Cardinality(members)
          BY <3>1, SumConst
    <3> QED BY <1>0, <1>5, <2>1, <3>2 DEF c, d
  <2>14. \A m \in members : share[m] \in 0 .. 1000
         BY <2>2
  <2>15. \A m \in members : ComputeLoadEquity(tasks, members)[m].load = load[m] /\ load[m] \in Nat
         BY <1>10
  <2> HIDE DEF N
  <2> QED BY <2>4, <2>12, <2>13, <2>14, <2>15 DEF ls, N
<1> QED BY <1>8, <1>9
-----------------------------------------------------------------------------
(* The conflict radar.                                                          *)

\* A list of commitments with their times.
Timed(cs) ==
    /\ Len(cs) \in Nat /\ DOMAIN cs = 1 .. Len(cs)
    /\ \A i \in DOMAIN cs : cs[i].from \in Int /\ cs[i].to \in Int

\* What the radar can report about a list.
Reports(cs) ==
    {SoleDriver(c) : c \in ToSet(cs)} \cup {RippleShift(c, d) : c, d \in ToSet(cs)}
      \cup {BufferSqueeze(c, d) : c, d \in ToSet(cs)}

\* A report of a ripple, and the two commitments of one member it comes from.
Ripples(r, cs, i, j) ==
    /\ i # j /\ cs[i].member = cs[j].member
    /\ cs[i].from <= cs[j].from /\ cs[j].from < cs[i].to
    /\ r.from = cs[j].from

\* A report of a squeeze, and the two commitments of one member it lies between.
Squeezes(r, cs, buffer, i, j) ==
    /\ i # j /\ cs[i].member = cs[j].member
    /\ r.from = cs[i].to /\ r.to = cs[j].from
    /\ r.from <= r.to /\ r.to < AddMinutes(r.from, buffer)
    /\ r.severity = "MEDIUM" <=> r.to < AddMinutes(r.from, 6)

IsReal(r, cs, buffer) ==
    /\ r.type = "RIPPLE_SHIFT" => \E i, j \in DOMAIN cs : Ripples(r, cs, i, j)
    /\ r.type = "BUFFER_SQUEEZE" => \E i, j \in DOMAIN cs : Squeezes(r, cs, buffer, i, j)

LEMMA ReportsTyped ==
    ASSUME NEW cs, Timed(cs), NEW r \in Reports(cs)
    PROVE  r.from \in Int /\ SeverityRank[r.severity] \in 1 .. 3
<1>1. \A c \in ToSet(cs) : c.from \in Int /\ c.to \in Int
      BY DEF Timed, ToSet
<1>2. CASE r \in {SoleDriver(c) : c \in ToSet(cs)}
      BY <1>1, <1>2 DEF SoleDriver, SeverityRank
<1>3. CASE r \in {RippleShift(c, d) : c, d \in ToSet(cs)}
      BY <1>1, <1>3 DEF RippleShift, SeverityRank
<1>4. CASE r \in {BufferSqueeze(c, d) : c, d \in ToSet(cs)}
  <2>1. PICK c \in ToSet(cs), d \in ToSet(cs) : r = BufferSqueeze(c, d)
        BY <1>4
  <2>2. r.from = c.to /\ r.severity \in {"MEDIUM", "LOW"}
        BY <2>1 DEF BufferSqueeze
  <2> QED BY <1>1, <2>2 DEF SeverityRank
<1> QED BY <1>2, <1>3, <1>4 DEF Reports

\* One member's commitments, compared with their neighbours.
ComparedWell(v, cs, buffer, m) ==
    /\ v \in Seq(Reports(cs))
    /\ \A e \in DOMAIN v : IsReal(v[e], cs, buffer)
    /\ (\E i, j \in DOMAIN cs : i # j /\ cs[i].member = m /\ DoubleBooked(cs[i], cs[j])) =>
          \E e \in DOMAIN v : v[e].type = "RIPPLE_SHIFT"

LEMMA NeighboursSuffice ==
    ASSUME NEW cs, Timed(cs), NEW buffer \in Int, NEW m
    PROVE  ComparedWell(Compared(SortedFor(m, cs), buffer), cs, buffer, m)
<1> DEFINE own == {i \in DOMAIN cs : cs[i].member = m}
           n == Cardinality(own)
           s == SortedFor(m, cs)
           X == Reports(cs)
           ss == [k \in Neighbours(s) |-> PairConflict(s[k], s[k + 1], buffer)]
           v == Compared(s, buffer)
<1>1. own \subseteq DOMAIN cs /\ own \subseteq Int /\ IsFiniteSet(own) /\ \A i \in own : cs[i].from \in Int
  <2>1. own \subseteq DOMAIN cs
        OBVIOUS
  <2>2. IsFiniteSet(DOMAIN cs) /\ DOMAIN cs \subseteq Int
        BY Prefixes1N DEF Timed
  <2> HIDE DEF own
  <2> QED BY <2>1, <2>2, FS_Subset DEF Timed
<1>2. s = ByStart(cs, own)
      BY DEF SortedFor
<1> HIDE DEF own, s
<1>3. PICK o : /\ Arranges(s, o, cs, own)
               /\ \A j, k \in 1 .. n : j < k => StartsFirst(cs, o[j], o[k])
      BY <1>1, <1>2, ByStartFacts
<1>4. /\ n \in Nat /\ DOMAIN s = 1 .. n /\ Len(s) = n
      /\ \A k \in 1 .. n : o[k] \in own /\ s[k] = cs[o[k]]
      BY <1>3 DEF Arranges
<1>5. ASSUME NEW k \in 1 .. n - 1
      PROVE  /\ k \in 1 .. n /\ k + 1 \in 1 .. n /\ o[k] \in own /\ o[k + 1] \in own /\ o[k] # o[k + 1]
             /\ s[k] = cs[o[k]] /\ s[k + 1] = cs[o[k + 1]] /\ s[k].from <= s[k + 1].from
             /\ s[k].from \in Int /\ s[k].to \in Int /\ s[k + 1].from \in Int
             /\ s[k] \in ToSet(cs) /\ s[k + 1] \in ToSet(cs)
  <2>1. k \in 1 .. n /\ k + 1 \in 1 .. n /\ k < k + 1
    <3> HIDE DEF n
    <3> QED BY <1>4
  <2>2. o[k] \in own /\ o[k + 1] \in own /\ StartsFirst(cs, o[k], o[k + 1])
        BY <1>3, <1>4, <2>1
  <2>3. o[k] # o[k + 1]
        BY <1>3, <2>1 DEF Arranges
  <2>4. s[k] = cs[o[k]] /\ s[k + 1] = cs[o[k + 1]]
        BY <1>4, <2>1
  <2>5. o[k] \in DOMAIN cs /\ o[k + 1] \in DOMAIN cs
        BY <1>1, <2>2
  <2>6. s[k] \in ToSet(cs) /\ s[k + 1] \in ToSet(cs)
        BY <2>4, <2>5 DEF ToSet
  <2>7. s[k].from \in Int /\ s[k].to \in Int /\ s[k + 1].from \in Int
        BY <2>4, <2>5 DEF Timed
  <2>8. s[k].from <= s[k + 1].from
        BY <2>2, <2>4, <2>7 DEF StartsFirst
  <2> QED BY <2>1, <2>2, <2>3, <2>4, <2>6, <2>7, <2>8
<1>6. DOMAIN ss = 1 .. n - 1 /\ \A k \in 1 .. n - 1 : ss[k] = PairConflict(s[k], s[k + 1], buffer)
      BY <1>4 DEF Neighbours
<1>7. v = FlattenSeq(ss)
      BY DEF Compared
<1> HIDE DEF ss, v, n
<1>8. ASSUME NEW k \in 1 .. n - 1
      PROVE  /\ ss[k] \in Seq(X)
             /\ \A e \in DOMAIN ss[k] : IsReal(ss[k][e], cs, buffer)
             /\ s[k + 1].from < s[k].to => 1 \in DOMAIN ss[k] /\ ss[k][1].type = "RIPPLE_SHIFT"
  <2>1. CASE s[k + 1].from < s[k].to
    <3> DEFINE r == RippleShift(s[k], s[k + 1])
    <3>1. ss[k] = <<r>>
          BY <1>6, <2>1 DEF PairConflict
    <3>2. r \in X
          BY <1>5 DEF Reports
    <3>3. r.type = "RIPPLE_SHIFT" /\ r.from = s[k + 1].from
          BY DEF RippleShift
    <3> HIDE DEF r, X
    <3>4. Ripples(r, cs, o[k], o[k + 1]) /\ o[k] \in DOMAIN cs /\ o[k + 1] \in DOMAIN cs
      <4>1. cs[o[k]].member = cs[o[k + 1]].member /\ o[k] \in DOMAIN cs /\ o[k + 1] \in DOMAIN cs
            BY <1>5 DEF own
      <4> QED BY <1>5, <2>1, <3>3, <4>1 DEF Ripples
    <3>5. IsReal(r, cs, buffer)
          BY <3>3, <3>4 DEF IsReal
    <3> QED BY <3>1, <3>2, <3>3, <3>5
  <2>2. CASE ~(s[k + 1].from < s[k].to)
    <3> DEFINE r == BufferSqueeze(s[k], s[k + 1])
               x == s[k].to
               y == s[k + 1].from
    <3>0. x \in Int /\ y \in Int /\ x <= y
          BY <1>5, <2>2
    <3>1. (ss[k] = <<r>> /\ DiffMinutes(y, x) < buffer) \/ ss[k] = <<>>
          BY <1>6, <2>2 DEF PairConflict
    <3>2. r \in X
          BY <1>5 DEF Reports
    <3>3. /\ r.type = "BUFFER_SQUEEZE" /\ r.from = x /\ r.to = y
          /\ r.severity = "MEDIUM" <=> DiffMinutes(y, x) <= 5
          BY DEF BufferSqueeze
    <3> HIDE DEF r, X, x, y
    <3>4. ASSUME DiffMinutes(y, x) < buffer PROVE IsReal(r, cs, buffer)
      <4>1. cs[o[k]].member = cs[o[k + 1]].member /\ o[k] \in DOMAIN cs /\ o[k + 1] \in DOMAIN cs
            BY <1>5 DEF own
      <4>2. x = cs[o[k]].to /\ y = cs[o[k + 1]].from
            BY <1>5 DEF x, y
      <4>3. y < AddMinutes(x, buffer)
            BY <3>0, <3>4, MinutesCompared
      <4> DEFINE six == 6
      <4>d. DiffMinutes(y, x) \in Int
            BY <3>0, MinutesCompared
      <4>4. six \in Int /\ (DiffMinutes(y, x) <= 5 <=> DiffMinutes(y, x) < six)
            BY <4>d
      <4> HIDE DEF six
      <4>5. DiffMinutes(y, x) < six <=> y < AddMinutes(x, six)
            BY <3>0, <4>4, MinutesCompared
      <4>6. r.severity = "MEDIUM" <=> y < AddMinutes(x, six)
            BY <3>3, <4>4, <4>5
      <4>7. Squeezes(r, cs, buffer, o[k], o[k + 1])
            BY <1>5, <3>0, <3>3, <4>1, <4>2, <4>3, <4>6 DEF Squeezes, six
      <4> QED BY <3>3, <4>1, <4>7 DEF IsReal
    <3>5. CASE ss[k] = <<r>> /\ DiffMinutes(y, x) < buffer
      <4>1. IsReal(r, cs, buffer)
            BY <3>4, <3>5
      <4>2. ss[k] \in Seq(X) /\ \A e \in DOMAIN ss[k] : ss[k][e] = r
            BY <3>2, <3>5
      <4> QED BY <2>2, <4>1, <4>2
    <3>6. CASE ss[k] = <<>>
          BY <2>2, <3>6
    <3> QED BY <3>1, <3>5, <3>6
  <2> QED BY <2>1, <2>2
<1>9. ss \in Seq(Seq(X))
  <2> DEFINE Y == Seq(X)
             hi == IF n = 0 THEN 0 ELSE n - 1
  <2>1. hi \in Nat /\ 1 .. hi = 1 .. n - 1
        BY <1>4
  <2>2. ss = [k \in 1 .. n - 1 |-> ss[k]]
        BY <1>6 DEF ss
  <2>3. \A k \in 1 .. n - 1 : ss[k] \in Y
        BY <1>8
  <2> HIDE DEF Y, hi
  <2>4. ss \in [1 .. hi -> Y]
        BY <2>1, <2>2, <2>3
  <2>5. ss \in Seq(Y)
        BY <2>1, <2>4
  <2> QED BY <2>5 DEF Y
<1> HIDE DEF X
<1>10. /\ v \in Seq(X)
       /\ \A e \in DOMAIN v : \E k \in DOMAIN ss : \E j \in DOMAIN ss[k] : v[e] = ss[k][j]
       /\ \A k \in DOMAIN ss : \A j \in DOMAIN ss[k] : \E e \in DOMAIN v : v[e] = ss[k][j]
       BY <1>7, <1>9, FlattenFacts
<1>11. ASSUME NEW e \in DOMAIN v PROVE IsReal(v[e], cs, buffer)
  <2>1. PICK k \in DOMAIN ss : \E j \in DOMAIN ss[k] : v[e] = ss[k][j]
        BY <1>10
  <2>2. PICK j \in DOMAIN ss[k] : v[e] = ss[k][j]
        BY <2>1
  <2> QED BY <1>6, <1>8, <2>2
\* The earlier of two that overlap overlaps the one that starts next.
<1>12. ASSUME NEW p \in 1 .. n, NEW q \in 1 .. n, p < q, s[q].from < s[p].to
       PROVE  \E e \in DOMAIN v : v[e].type = "RIPPLE_SHIFT"
  <2>1. p \in 1 .. n - 1 /\ p + 1 \in 1 .. n /\ (p + 1 = q \/ p + 1 < q)
        BY <1>4, <1>12
  <2>2. s[p + 1].from <= s[q].from /\ s[p + 1].from \in Int /\ s[q].from \in Int /\ s[p].to \in Int
    <3>1. o[p + 1] \in own /\ o[q] \in own /\ o[p] \in own
          BY <1>4, <2>1
    <3>2. /\ s[p + 1] = cs[o[p + 1]] /\ s[q] = cs[o[q]] /\ s[p] = cs[o[p]]
          BY <1>4, <2>1
    <3>3. /\ s[p + 1].from \in Int /\ s[q].from \in Int /\ s[p].to \in Int
          BY <1>1, <3>1, <3>2 DEF Timed
    <3>4. CASE p + 1 = q
          BY <3>3, <3>4
    <3>5. CASE p + 1 < q
      <4>1. StartsFirst(cs, o[p + 1], o[q])
            BY <1>3, <2>1, <3>5 DEF n
      <4> QED BY <3>2, <3>3, <4>1 DEF StartsFirst
    <3> QED BY <2>1, <3>4, <3>5
  <2>3. s[p + 1].from < s[p].to
        BY <1>12, <2>2
  <2>4. 1 \in DOMAIN ss[p] /\ ss[p][1].type = "RIPPLE_SHIFT"
        BY <1>8, <2>1, <2>3
  <2>5. p \in DOMAIN ss
        BY <1>6, <2>1
  <2> QED BY <1>10, <2>4, <2>5
<1>13. ASSUME NEW i \in DOMAIN cs, NEW j \in DOMAIN cs, i # j, cs[i].member = m, DoubleBooked(cs[i], cs[j])
       PROVE  \E e \in DOMAIN v : v[e].type = "RIPPLE_SHIFT"
  <2>1. i \in own /\ j \in own
        BY <1>13 DEF own, DoubleBooked
  <2>2. PICK p \in 1 .. n : o[p] = i
        BY <1>3, <2>1 DEF Arranges, n
  <2>3. PICK q \in 1 .. n : o[q] = j
        BY <1>3, <2>1 DEF Arranges, n
  <2>4. s[p] = cs[i] /\ s[q] = cs[j] /\ s[q].from < s[p].to /\ s[p].from < s[q].to
        BY <1>4, <1>13, <2>2, <2>3 DEF DoubleBooked, WindowsOverlap
  <2>5. p < q \/ q < p
        BY <1>4, <1>13, <2>2, <2>3
  <2> QED BY <1>12, <2>4, <2>5
<1>14. v \in Seq(Reports(cs))
       BY <1>10 DEF X
<1>15. ComparedWell(v, cs, buffer, m)
       BY <1>11, <1>13, <1>14 DEF ComparedWell
<1> QED BY <1>15 DEF v, s

LEMMA SeverityKeepsAll ==
    ASSUME NEW cs, Timed(cs), NEW found \in Seq(Reports(cs))
    PROVE  \E o : Arranges(BySeverity(found), o, found, DOMAIN found)
<1> DEFINE D == DOMAIN found
           R == {p \in D \X D : ComesFirst(found, p[1], p[2])}
           o == SortedBy(D, R)
<1>1. IsFiniteSet(D) /\ D \subseteq Int
      BY Prefixes1N
<1>2. BySeverity(found) = [k \in DOMAIN o |-> found[o[k]]]
      BY DEF BySeverity
<1>3. \A i \in D : found[i].from \in Int /\ SeverityRank[found[i].severity] \in 1 .. 3
  <2>1. \A i \in D : found[i] \in Reports(cs)
        OBVIOUS
  <2> HIDE DEF D
  <2> QED BY <2>1, ReportsTyped
<1> DEFINE v == [i \in D |-> found[i].from]
           w == [i \in D |-> SeverityRank[found[i].severity]]
           Goes(i, j) == w[i] > w[j] \/ (w[i] = w[j] /\ (v[i] < v[j] \/ (v[i] = v[j] /\ i < j)))
<1>4. \A i, j \in D : <<i, j>> \in R <=> Goes(i, j)
      BY DEF ComesFirst, StartsFirst
<1>5. \A i \in D : v[i] \in Int /\ w[i] \in Int /\ i \in Int
      BY <1>1, <1>3
<1> HIDE DEF v, w, R, D
<1>6. \A i \in D : ~Goes(i, i)
      BY <1>5
<1>7. ASSUME NEW i \in D, NEW j \in D, i # j PROVE Goes(i, j) \/ Goes(j, i)
      BY <1>5, <1>7
<1>8. ASSUME NEW i \in D, NEW j \in D, NEW k \in D, Goes(i, j), Goes(j, k) PROVE Goes(i, k)
  <2> DEFINE vi == v[i]
             vj == v[j]
             vk == v[k]
             wi == w[i]
             wj == w[j]
             wk == w[k]
  <2>1. /\ vi \in Int /\ vj \in Int /\ vk \in Int /\ i \in Int /\ j \in Int /\ k \in Int
        /\ wi \in Int /\ wj \in Int /\ wk \in Int
        BY <1>5
  <2>2. wi > wj \/ (wi = wj /\ (vi < vj \/ (vi = vj /\ i < j)))
        BY <1>8
  <2>3. wj > wk \/ (wj = wk /\ (vj < vk \/ (vj = vk /\ j < k)))
        BY <1>8
  <2> HIDE DEF vi, vj, vk, wi, wj, wk
  <2>4. wi > wk \/ (wi = wk /\ (vi < vk \/ (vi = vk /\ i < k)))
        BY <2>1, <2>2, <2>3
  <2> QED BY <2>4 DEF vi, vj, vk, wi, wj, wk
<1> HIDE DEF Goes
<1>9. Orders(R, D)
      BY <1>4, <1>6, <1>7, <1>8 DEF Orders
<1> DEFINE p == o
<1>10. p = SortedBy(D, R) /\ BySeverity(found) = [k \in DOMAIN p |-> found[p[k]]]
       BY <1>2
<1> HIDE DEF p
<1>11. Arranges(BySeverity(found), p, found, D)
       BY <1>1, <1>9, <1>10, ArrangedInOrder
<1> QED BY <1>11 DEF D

\* All the radar says of a list.
RadarFound(found, cs, buffer) ==
    /\ found \in Seq(Reports(cs))
    /\ \A e \in DOMAIN found : IsReal(found[e], cs, buffer)
    /\ (\E i, j \in DOMAIN cs : i # j /\ DoubleBooked(cs[i], cs[j])) =>
          \E e \in DOMAIN found : found[e].type = "RIPPLE_SHIFT"

LEMMA RadarFinds ==
    ASSUME NEW cs, Timed(cs), NEW members, NEW buffer \in Int
    PROVE  RadarFound(DetectConflicts(cs, members, buffer), cs, buffer)
<1> DEFINE X == Reports(cs)
           I == {i \in DOMAIN cs : cs[i].driver}
           drives == Kept(cs, I)
           sole == IF Cardinality(DrivingMembers(members)) = 1
                   THEN [i \in DOMAIN drives |-> SoleDriver(drives[i])] ELSE <<>>
           own == {c.member : c \in ToSet(cs)}
           owners == SetToSeq(own)
           pairs == [k \in DOMAIN owners |-> Compared(SortedFor(owners[k], cs), buffer)]
           flat == FlattenSeq(pairs)
           all == sole \o flat
           found == DetectConflicts(cs, members, buffer)
<1>1. found = BySeverity(all)
      BY DEF DetectConflicts
<1>2. IsFiniteSet(DOMAIN cs) /\ DOMAIN cs \subseteq Int
      BY Prefixes1N DEF Timed
<1>3. sole \in Seq(X) /\ \A e \in DOMAIN sole : sole[e].type = "SOLE_DRIVER"
  <2>1. I \subseteq DOMAIN cs
        OBVIOUS
  <2> HIDE DEF I
  <2>2. IsFiniteSet(I) /\ I \subseteq Int
        BY <1>2, <2>1, FS_Subset
  <2> HIDE DEF drives
  <2>3. PICK o : Arranges(drives, o, cs, I)
        BY <2>2, KeptFacts DEF drives
  <2>4. /\ Cardinality(I) \in Nat /\ DOMAIN drives = 1 .. Cardinality(I)
        /\ \A k \in 1 .. Cardinality(I) : drives[k] \in ToSet(cs)
        BY <2>1, <2>3 DEF Arranges, ToSet
  <2>5. CASE Cardinality(DrivingMembers(members)) = 1
    <3> DEFINE n == Cardinality(I)
               sd == [i \in 1 .. n |-> SoleDriver(drives[i])]
    <3>1. sole = sd
          BY <2>4, <2>5
    <3>2. \A i \in 1 .. n : SoleDriver(drives[i]) \in X
          BY <2>4 DEF Reports
    <3>3. n \in Nat
          BY <2>4
    <3>4. \A i \in 1 .. n : SoleDriver(drives[i]).type = "SOLE_DRIVER"
          BY DEF SoleDriver
    <3> HIDE DEF X, n
    <3>5. sd \in [1 .. n -> X]
          BY <3>2
    <3> HIDE DEF sole
    <3> QED BY <3>1, <3>3, <3>4, <3>5
  <2>6. CASE ~(Cardinality(DrivingMembers(members)) = 1)
        BY <2>6
  <2> QED BY <2>5, <2>6
<1>4. /\ IsFiniteSet(own) /\ Cardinality(own) \in Nat /\ DOMAIN owners = 1 .. Cardinality(own)
      /\ \A x \in own : \E k \in DOMAIN owners : owners[k] = x
  <2>1. IsFiniteSet(own)
    <3> DEFINE f == [i \in DOMAIN cs |-> cs[i].member]
    <3>1. f \in Surjection(DOMAIN cs, own)
          BY DEF Surjection, ToSet
    <3> HIDE DEF f, own
    <3> QED BY <1>2, <3>1, FS_Surjection
  <2> HIDE DEF own
  <2>2. /\ Cardinality(own) \in Nat /\ SetToSeq(own) \in [1 .. Cardinality(own) -> own]
        /\ \A x \in own : \E i \in 1 .. Cardinality(own) : SetToSeq(own)[i] = x
        BY <2>1, SetToSeqFacts
  <2> QED BY <2>1, <2>2
<1> HIDE DEF own, owners, sole, I, drives
<1>5. \A k \in DOMAIN owners : ComparedWell(pairs[k], cs, buffer, owners[k])
      BY NeighboursSuffice
<1> HIDE DEF X
<1>6. pairs \in Seq(Seq(X))
  <2> DEFINE Y == Seq(X)
             n == Cardinality(own)
  <2>1. DOMAIN pairs = 1 .. n /\ n \in Nat /\ pairs = [k \in 1 .. n |-> pairs[k]]
        BY <1>4
  <2> HIDE DEF pairs
  <2>2. \A k \in 1 .. n : pairs[k] \in Y
        BY <1>4, <1>5 DEF ComparedWell, X
  <2> HIDE DEF Y, n
  <2>3. pairs \in [1 .. n -> Y]
        BY <2>1, <2>2
  <2> QED BY <2>1, <2>3 DEF Y
<1>7. DOMAIN pairs = DOMAIN owners
      OBVIOUS
<1> HIDE DEF pairs, flat
<1>8. /\ flat \in Seq(X)
      /\ \A e \in DOMAIN flat : \E k \in DOMAIN pairs : \E j \in DOMAIN pairs[k] : flat[e] = pairs[k][j]
      /\ \A k \in DOMAIN pairs : \A j \in DOMAIN pairs[k] : \E e \in DOMAIN flat : flat[e] = pairs[k][j]
      BY <1>6, FlattenFacts DEF flat
<1>9. /\ all \in Seq(X)
      /\ \A e \in DOMAIN all : (\E i \in DOMAIN sole : all[e] = sole[i]) \/ (\E i \in DOMAIN flat : all[e] = flat[i])
      /\ \A i \in DOMAIN flat : \E e \in DOMAIN all : all[e] = flat[i]
  <2>1. sole \in Seq(X) /\ flat \in Seq(X)
        BY <1>3, <1>8
  <2>2. /\ all \in Seq(X) /\ DOMAIN all = 1 .. Len(sole) + Len(flat)
        /\ DOMAIN sole = 1 .. Len(sole) /\ DOMAIN flat = 1 .. Len(flat)
        /\ Len(sole) \in Nat /\ Len(flat) \in Nat
        /\ \A e \in 1 .. Len(sole) + Len(flat) :
              all[e] = IF e <= Len(sole) THEN sole[e] ELSE flat[e - Len(sole)]
        BY <2>1
  <2> HIDE DEF all
  <2>3. ASSUME NEW e \in DOMAIN all
        PROVE  (\E i \in DOMAIN sole : all[e] = sole[i]) \/ (\E i \in DOMAIN flat : all[e] = flat[i])
    <3>1. CASE e <= Len(sole)
      <4>1. e \in DOMAIN sole /\ all[e] = sole[e]
            BY <2>2, <3>1
      <4> QED BY <4>1
    <3>2. CASE ~(e <= Len(sole))
      <4>1. e - Len(sole) \in DOMAIN flat /\ all[e] = flat[e - Len(sole)]
            BY <2>2, <3>2
      <4> QED BY <4>1
    <3> QED BY <3>1, <3>2
  <2>4. ASSUME NEW i \in DOMAIN flat PROVE \E e \in DOMAIN all : all[e] = flat[i]
    <3>1. /\ i + Len(sole) \in DOMAIN all /\ ~(i + Len(sole) <= Len(sole))
          /\ (i + Len(sole)) - Len(sole) = i
          BY <2>2
    <3>2. all[i + Len(sole)] = flat[i]
          BY <2>2, <3>1
    <3> QED BY <3>1, <3>2
  <2> QED BY <2>2, <2>3, <2>4
<1> HIDE DEF all
<1>10. \A e \in DOMAIN all : IsReal(all[e], cs, buffer)
  <2>1. \A i \in DOMAIN sole : IsReal(sole[i], cs, buffer)
        BY <1>3 DEF IsReal
  <2>2. ASSUME NEW i \in DOMAIN flat PROVE IsReal(flat[i], cs, buffer)
    <3>1. PICK k \in DOMAIN pairs : \E j \in DOMAIN pairs[k] : flat[i] = pairs[k][j]
          BY <1>8
    <3> QED BY <1>5, <1>7, <3>1 DEF ComparedWell
  <2> QED BY <1>9, <2>1, <2>2
<1>11. ASSUME NEW i \in DOMAIN cs, NEW j \in DOMAIN cs, i # j, DoubleBooked(cs[i], cs[j])
       PROVE  \E e \in DOMAIN all : all[e].type = "RIPPLE_SHIFT"
  <2>1. cs[i].member \in own
        BY DEF own, ToSet
  <2>2. PICK k \in DOMAIN owners : owners[k] = cs[i].member
        BY <1>4, <2>1
  <2>3. PICK f \in DOMAIN pairs[k] : pairs[k][f].type = "RIPPLE_SHIFT"
        BY <1>5, <1>11, <2>2 DEF ComparedWell
  <2>4. PICK g \in DOMAIN flat : flat[g] = pairs[k][f]
        BY <1>7, <1>8
  <2>5. PICK e \in DOMAIN all : all[e] = flat[g]
        BY <1>9
  <2> QED BY <2>3, <2>4, <2>5
<1>12. PICK o : Arranges(found, o, all, DOMAIN all)
       BY <1>1, <1>9, SeverityKeepsAll DEF X
<1> HIDE DEF found
<1>13. /\ Cardinality(DOMAIN all) \in Nat /\ DOMAIN found = 1 .. Cardinality(DOMAIN all)
       /\ \A k \in DOMAIN found : o[k] \in DOMAIN all /\ found[k] = all[o[k]]
       /\ \A e \in DOMAIN all : \E k \in DOMAIN found : found[k] = all[e]
       BY <1>12 DEF Arranges
<1>14. found \in Seq(X)
  <2>1. \A k \in DOMAIN found : found[k] \in X
    <3>1. \A e \in DOMAIN all : all[e] \in X
          BY <1>9
    <3> QED BY <1>13, <3>1
  <2>2. found = [k \in DOMAIN found |-> found[k]]
        BY <1>12 DEF Arranges
  <2> QED BY <1>13, <2>1, <2>2
<1>15. \A e \in DOMAIN found : IsReal(found[e], cs, buffer)
       BY <1>10, <1>13
<1>16. (\E i, j \in DOMAIN cs : i # j /\ DoubleBooked(cs[i], cs[j])) =>
          \E e \in DOMAIN found : found[e].type = "RIPPLE_SHIFT"
  <2> SUFFICES ASSUME NEW i \in DOMAIN cs, NEW j \in DOMAIN cs, i # j, DoubleBooked(cs[i], cs[j])
               PROVE  \E e \in DOMAIN found : found[e].type = "RIPPLE_SHIFT"
      OBVIOUS
  <2>1. PICK e \in DOMAIN all : all[e].type = "RIPPLE_SHIFT"
        BY <1>11
  <2> QED BY <1>13, <2>1
<1>17. RadarFound(found, cs, buffer)
       BY <1>14, <1>15, <1>16 DEF RadarFound, X
<1> QED BY <1>17 DEF found

LEMMA RadarIsRight ==
    ASSUME NEW cs, Timed(cs), NEW buffer, NEW found, RadarFound(found, cs, buffer)
    PROVE  RippleIsReal(cs, found) /\ SqueezeIsReal(cs, buffer, found)
<1>1. ASSUME \A c \in ToSet(cs) : c.from < c.to, NEW r \in DOMAIN found, found[r].type = "RIPPLE_SHIFT"
      PROVE  \E i, j \in DOMAIN cs : /\ i # j /\ DoubleBooked(cs[i], cs[j])
                                     /\ found[r].from = Max({cs[i].from, cs[j].from})
  <2>1. PICK i \in DOMAIN cs, j \in DOMAIN cs : Ripples(found[r], cs, i, j)
        BY <1>1 DEF RadarFound, IsReal
  <2> DEFINE x == cs[i].from
             y == cs[j].from
  <2>2. x \in Int /\ y \in Int /\ cs[i].to \in Int /\ cs[j].to \in Int /\ y < cs[j].to
        BY <1>1 DEF Timed, ToSet
  <2>3. /\ i # j /\ cs[i].member = cs[j].member
        /\ x <= y /\ y < cs[i].to /\ found[r].from = y
        BY <2>1 DEF Ripples
  <2>4. DoubleBooked(cs[i], cs[j])
        BY <2>2, <2>3 DEF DoubleBooked, WindowsOverlap
  <2>5. found[r].from = Max({x, y})
    <3> HIDE DEF x, y
    <3> QED BY <2>2, <2>3, MaxOfTwo
  <2> QED BY <2>3, <2>4, <2>5
<1>2. ASSUME NEW e \in DOMAIN found, found[e].type = "BUFFER_SQUEEZE"
      PROVE  \E i, j \in DOMAIN cs : Squeezes(found[e], cs, buffer, i, j)
      BY <1>2 DEF RadarFound, IsReal
<1>3. SqueezeIsReal(cs, buffer, found)
      BY <1>2 DEF SqueezeIsReal, Squeezes
<1> QED BY <1>1, <1>3 DEF RippleIsReal, RadarFound

-----------------------------------------------------------------------------
(* Free windows.                                                                *)

\* The scan over n blocks, one state after each of them.
Scans(h, blocks, start, buffer) ==
    /\ h[0] = [cursor |-> start, gaps |-> <<>>]
    /\ \A k \in 1 .. Len(blocks) : h[k] = ScanBlock(h[k - 1], blocks[k], buffer)

LabelsOf(blocks) == {Null} \cup {blocks[i].label : i \in DOMAIN blocks}

GapSet(B) == [from : Int, to : Int, by : B]

ScanStates(B) == [cursor : Int, gaps : Seq(GapSet(B))]

LEMMA ScanTyped ==
    ASSUME NEW B, NEW acc \in ScanStates(B), NEW b, b.from \in Int, b.to \in Int, b.label \in B,
           NEW buffer \in Int
    PROVE  ScanBlock(acc, b, buffer) \in ScanStates(B)
<1> DEFINE x == acc.cursor
           y == b.to + buffer
           gap == [from |-> x, to |-> b.from - buffer, by |-> b.label]
           G == GapSet(B)
<1>1. x \in Int /\ y \in Int /\ acc.gaps \in Seq(G)
      BY DEF ScanStates
<1>2. Advance(x, b, buffer) \in Int
  <2>1. Advance(x, b, buffer) = Max({x, y})
        BY DEF Advance
  <2> HIDE DEF x, y
  <2> QED BY <1>1, <2>1, MaxOfTwo
<1>3. gap \in G
      BY <1>1 DEF GapSet
<1>4. Append(acc.gaps, gap) \in Seq(G)
  <2> HIDE DEF gap, G
  <2> QED BY <1>1, <1>3
<1> QED BY <1>1, <1>2, <1>4 DEF ScanBlock, ScanStates

ScansTo(h, blocks, start, buffer) ==
    /\ Scans(h, blocks, start, buffer)
    /\ \A k \in 0 .. Len(blocks) : h[k] \in ScanStates(LabelsOf(blocks))
    /\ ScanEnd(blocks, start, buffer) = h[Len(blocks)]

LEMMA ScanInOrder ==
    ASSUME NEW blocks, Timed(blocks), NEW start \in Int, NEW buffer \in Int
    PROVE  \E h : ScansTo(h, blocks, start, buffer)
<1> DEFINE n == Len(blocks)
           D == DOMAIN blocks
           B == LabelsOf(blocks)
           base == [cursor |-> start, gaps |-> <<>>]
           Y == ScanStates(B)
           step == [p \in D \X Y |-> ScanBlock(p[2], blocks[p[1]], buffer)]
           It(g) == g = [t \in SUBSET D |-> IF t = {} THEN base
                            ELSE ScanBlock(g[t \ {Max(t)}], blocks[Max(t)], buffer)]
           it == CHOOSE g : It(g)
           h == [k \in 0 .. n |-> it[1 .. k]]
<1>1. n \in Nat /\ D = 1 .. n
      BY DEF Timed
<1>2. base \in Y
      BY DEF ScanStates
<1>3. \A i \in D, e \in Y : step[<<i, e>>] = ScanBlock(e, blocks[i], buffer)
  <2> HIDE DEF D, Y
  <2> QED OBVIOUS
<1>4. ASSUME NEW i \in D, NEW e \in Y PROVE ScanBlock(e, blocks[i], buffer) \in Y
  <2>1. blocks[i].from \in Int /\ blocks[i].to \in Int /\ blocks[i].label \in B
        BY DEF Timed, LabelsOf
  <2> HIDE DEF B
  <2> QED BY <2>1, ScanTyped
<1> HIDE DEF n, base, Y, step, D, h
<1>5. StepsInto(step, D, Y)
      BY <1>3, <1>4 DEF StepsInto
<1>6. PICK g : Iterated(g, D, Y, base, step)
      BY <1>1, <1>2, <1>5, IterateExists
<1>7. It(g)
  <2>1. g = [t \in SUBSET D |-> g[t]] /\ g[{}] = base
        BY <1>6 DEF Iterated
  <2>2. \A t \in SUBSET D : t # {} => g[t] = ScanBlock(g[t \ {Max(t)}], blocks[Max(t)], buffer)
        BY <1>3, <1>6 DEF Iterated
  <2> QED BY <2>1, <2>2
<1>8. It(it)
  <2>1. \E f : It(f)
        BY <1>7
  <2> HIDE DEF It
  <2> QED BY <2>1
<1>9. ScanEnd(blocks, start, buffer) = it[D]
      BY DEF ScanEnd, FoldLeft, MapThenFoldSet, D, base
<1>10. it[{}] = base /\ \A t \in SUBSET D : t # {} => it[t] = ScanBlock(it[t \ {Max(t)}], blocks[Max(t)], buffer)
  <2>1. {} \in SUBSET D
        OBVIOUS
  <2> HIDE DEF it
  <2> QED BY <1>8, <2>1
<1> HIDE DEF it
<1>11. Prefixed(h, it, n)
       BY DEF Prefixed, h
<1>12. /\ h[0] = base /\ h[n] = it[D]
       /\ \A k \in 1 .. n : h[k] = ScanBlock(h[k - 1], blocks[k], buffer)
  <2>1. /\ h[0] = it[{}] /\ h[n] = it[D]
        /\ \A k \in 1 .. n : /\ 1 .. k \in SUBSET D /\ 1 .. k # {} /\ Max(1 .. k) = k
                             /\ h[k] = it[1 .. k] /\ h[k - 1] = it[(1 .. k) \ {Max(1 .. k)}]
    <3>1. Follows(h, it, D, n)
          BY <1>1, <1>11, PrefixValues
    <3> QED BY <3>1 DEF Follows
  <2>2. ASSUME NEW k \in 1 .. n PROVE h[k] = ScanBlock(h[k - 1], blocks[k], buffer)
        BY <1>10, <2>1
  <2> QED BY <1>10, <2>1, <2>2
<1> DEFINE T == {k \in Nat : k <= n => h[k] \in Y}
<1>13. 0 \in T
       BY <1>2, <1>12
<1>14. ASSUME NEW k \in Nat, k \in T PROVE k + 1 \in T
  <2> SUFFICES ASSUME k + 1 <= n PROVE h[k + 1] \in Y
      OBVIOUS
  <2>1. k + 1 \in D /\ h[k] \in Y /\ (k + 1) - 1 = k
        BY <1>1, <1>14
  <2>2. h[k + 1] = ScanBlock(h[k], blocks[k + 1], buffer)
        BY <1>1, <1>12, <2>1
  <2> QED BY <1>4, <2>1, <2>2
<1> HIDE DEF T
<1>15. \A k \in Nat : k \in T
       BY <1>13, <1>14, NumberInduction
<1>16. \A k \in 0 .. n : h[k] \in Y
       BY <1>1, <1>15 DEF T
<1>17. Scans(h, blocks, start, buffer)
       BY <1>12 DEF Scans, base, n
<1>18. ScansTo(h, blocks, start, buffer)
       BY <1>9, <1>12, <1>16, <1>17 DEF ScansTo, n, Y
<1> QED BY <1>18

\* What one block does to the scan.
LEMMA AfterBlock ==
    ASSUME NEW B, NEW acc \in ScanStates(B), NEW b, b.from \in Int, b.to \in Int,
           NEW buffer \in Int, NEW new, new = ScanBlock(acc, b, buffer)
    PROVE  /\ new.cursor = IF acc.cursor >= b.to + buffer THEN acc.cursor ELSE b.to + buffer
           /\ b.from - buffer <= acc.cursor => new.gaps = acc.gaps
           /\ b.from - buffer > acc.cursor =>
                 new.gaps = Append(acc.gaps, [from |-> acc.cursor, to |-> b.from - buffer, by |-> b.label])
<1> DEFINE x == acc.cursor
           y == b.to + buffer
<1>1. x \in Int /\ y \in Int /\ b.from - buffer \in Int
      BY DEF ScanStates
<1>2. Advance(x, b, buffer) = IF x >= y THEN x ELSE y
  <2>1. Advance(x, b, buffer) = Max({x, y})
        BY DEF Advance
  <2> HIDE DEF x, y
  <2> QED BY <1>1, <2>1, MaxOfTwo
<1>3. new.cursor = Advance(x, b, buffer)
      BY DEF ScanBlock
<1>4. b.from - buffer <= x => new.gaps = acc.gaps
      BY <1>1 DEF ScanBlock
<1>5. b.from - buffer > x =>
         new.gaps = Append(acc.gaps, [from |-> acc.cursor, to |-> b.from - buffer, by |-> b.label])
      BY <1>1 DEF ScanBlock
<1> QED BY <1>2, <1>3, <1>4, <1>5

\* A gap inside the range, clear of every block.
ClearGap(g, blocks, range, buffer) ==
    /\ range.from <= g.from /\ g.from < g.to /\ g.to <= range.to
    /\ \A j \in DOMAIN blocks : blocks[j].to + buffer <= g.from \/ g.to <= blocks[j].from - buffer

\* What holds of the scan after k blocks.
Scanned(acc, k, blocks, range, buffer) ==
    /\ range.from <= acc.cursor
    /\ \A j \in DOMAIN blocks : j <= k => blocks[j].to + buffer <= acc.cursor
    /\ \A i \in DOMAIN acc.gaps : ClearGap(acc.gaps[i], blocks, range, buffer)

\* Blocks that touch the range, by start.
OrderedBlocks(blocks, range) ==
    /\ Timed(blocks)
    /\ \A j \in DOMAIN blocks : blocks[j].to > range.from /\ blocks[j].from < range.to
    /\ \A j, k \in DOMAIN blocks : j < k => blocks[j].from <= blocks[k].from

LEMMA Grows ==
    ASSUME NEW G, NEW s \in Seq(G), NEW g \in G
    PROVE  /\ DOMAIN Append(s, g) = (DOMAIN s) \cup {Len(s) + 1}
           /\ Append(s, g)[Len(s) + 1] = g
           /\ \A i \in DOMAIN s : Append(s, g)[i] = s[i] /\ i < Len(s) + 1
           /\ DOMAIN s = 1 .. Len(s) /\ Len(s) \in Nat
OBVIOUS

LEMMA ScanStep ==
    ASSUME NEW range, range.from \in Int, range.to \in Int, NEW blocks, OrderedBlocks(blocks, range),
           NEW buffer \in Nat, NEW k \in DOMAIN blocks, NEW B, blocks[k].label \in B,
           NEW acc \in ScanStates(B), Scanned(acc, k - 1, blocks, range, buffer),
           NEW new, new = ScanBlock(acc, blocks[k], buffer)
    PROVE  Scanned(new, k, blocks, range, buffer)
<1> DEFINE b == blocks[k]
           x == acc.cursor
           gap == [from |-> x, to |-> b.from - buffer, by |-> b.label]
           G == GapSet(B)
<1>1. /\ Len(blocks) \in Nat /\ DOMAIN blocks = 1 .. Len(blocks)
      /\ \A j \in DOMAIN blocks : blocks[j].from \in Int /\ blocks[j].to \in Int
      /\ \A i, j \in DOMAIN blocks : i < j => blocks[i].from <= blocks[j].from
      BY DEF OrderedBlocks, Timed
<1>2. x \in Int /\ acc.gaps \in Seq(G) /\ b.from \in Int /\ b.to \in Int /\ b.from < range.to
      BY <1>1 DEF ScanStates, OrderedBlocks
<1>3. /\ new.cursor = IF x >= b.to + buffer THEN x ELSE b.to + buffer
      /\ b.from - buffer <= x => new.gaps = acc.gaps
      /\ b.from - buffer > x => new.gaps = Append(acc.gaps, gap)
      BY <1>2, AfterBlock
<1>4. new.cursor \in Int /\ new.cursor >= x /\ new.cursor >= b.to + buffer
      BY <1>2, <1>3
<1>5. range.from <= new.cursor
      BY <1>2, <1>4 DEF Scanned
<1>6. ASSUME NEW j \in DOMAIN blocks, j <= k PROVE blocks[j].to + buffer <= new.cursor
  <2>1. CASE j = k
        BY <1>4, <2>1
  <2>2. CASE j # k
    <3>1. j <= k - 1
          BY <1>1, <1>6, <2>2
    <3>2. blocks[j].to + buffer <= x
          BY <3>1 DEF Scanned
    <3> QED BY <1>1, <1>2, <1>4, <3>2
  <2> QED BY <2>1, <2>2
<1>7. ASSUME NEW i \in DOMAIN new.gaps PROVE ClearGap(new.gaps[i], blocks, range, buffer)
  <2>1. CASE b.from - buffer <= x
        BY <1>3, <2>1 DEF Scanned
  <2>2. CASE b.from - buffer > x
    <3>1. gap \in G
          BY <1>1, <1>2 DEF GapSet
    <3>2. gap.from = x /\ gap.to = b.from - buffer
          OBVIOUS
    <3> HIDE DEF gap, G
    <3>3. /\ DOMAIN new.gaps = (DOMAIN acc.gaps) \cup {Len(acc.gaps) + 1}
          /\ new.gaps[Len(acc.gaps) + 1] = gap
          /\ \A e \in DOMAIN acc.gaps : new.gaps[e] = acc.gaps[e]
          BY <1>2, <1>3, <2>2, <3>1, Grows
    <3>4. ClearGap(gap, blocks, range, buffer)
      <4>1. range.from <= gap.from /\ gap.from < gap.to /\ gap.to <= range.to
            BY <1>2, <2>2, <3>2 DEF Scanned
      <4>2. ASSUME NEW j \in DOMAIN blocks
            PROVE  blocks[j].to + buffer <= gap.from \/ gap.to <= blocks[j].from - buffer
        <5>1. CASE j <= k - 1
              BY <3>2, <5>1 DEF Scanned
        <5>2. CASE ~(j <= k - 1)
          <6>1. blocks[k].from <= blocks[j].from
                BY <1>1, <5>2
          <6> QED BY <1>1, <1>2, <3>2, <6>1
        <5> QED BY <5>1, <5>2
      <4> QED BY <4>1, <4>2 DEF ClearGap
    <3> QED BY <3>3, <3>4 DEF Scanned
  <2> QED BY <1>2, <2>1, <2>2
<1> QED BY <1>5, <1>6, <1>7 DEF Scanned

\* Gaps in order, none past the cursor, and no time before it lost: each instant is
\* in a gap or in a block.
InGap(t, gaps) == \E i \in DOMAIN gaps : gaps[i].from <= t /\ t < gaps[i].to

InTurn(gaps, cursor) ==
    /\ \A i \in DOMAIN gaps : gaps[i].to <= cursor
    /\ \A i, j \in DOMAIN gaps : i < j => gaps[i].to <= gaps[j].from

Swept(acc, k, blocks, start) ==
    /\ InTurn(acc.gaps, acc.cursor)
    /\ \A t \in Int : start <= t /\ t < acc.cursor =>
          \/ InGap(t, acc.gaps)
          \/ \E j \in DOMAIN blocks : j <= k /\ blocks[j].from <= t /\ t < blocks[j].to

\* A gap added at the cursor keeps the gaps in order.
LEMMA TurnStep ==
    ASSUME NEW B, NEW gaps \in Seq(GapSet(B)), NEW cursor \in Int, InTurn(gaps, cursor),
           NEW gap \in GapSet(B), gap.from = cursor, NEW to \in Int, cursor <= to, gap.to <= to
    PROVE  /\ InTurn(Append(gaps, gap), to)
           /\ \A t : InGap(t, gaps) => InGap(t, Append(gaps, gap))
           /\ \A t : cursor <= t /\ t < gap.to => InGap(t, Append(gaps, gap))
<1> DEFINE n == Len(gaps)
           new == Append(gaps, gap)
           G == GapSet(B)
<1>1. \A g \in G : g.from \in Int /\ g.to \in Int
      BY DEF GapSet
<1>2. /\ DOMAIN new = (DOMAIN gaps) \cup {n + 1}
      /\ new[n + 1] = gap
      /\ \A i \in DOMAIN gaps : new[i] = gaps[i] /\ i < n + 1
      /\ DOMAIN gaps = 1 .. n /\ n \in Nat
      BY Grows
<1>3. \A i \in DOMAIN gaps : gaps[i] \in G
      OBVIOUS
<1> HIDE DEF n, new, G
<1>4. ASSUME NEW i \in DOMAIN new PROVE new[i].to <= to
  <2>1. CASE i \in DOMAIN gaps
        BY <1>1, <1>2, <1>3, <2>1 DEF InTurn
  <2>2. CASE i = n + 1
        BY <1>2, <2>2
  <2> QED BY <1>2, <2>1, <2>2
<1>5. ASSUME NEW i \in DOMAIN new, NEW j \in DOMAIN new, i < j
      PROVE  new[i].to <= new[j].from
  <2>1. i \in DOMAIN gaps
        BY <1>2, <1>5
  <2>2. CASE j \in DOMAIN gaps
        BY <1>2, <1>5, <2>1, <2>2 DEF InTurn
  <2>3. CASE j = n + 1
        BY <1>2, <2>1, <2>3 DEF InTurn
  <2> QED BY <1>2, <2>2, <2>3
<1>6. \A t : InGap(t, gaps) => InGap(t, new)
      BY <1>2 DEF InGap
<1>7. \A t : cursor <= t /\ t < gap.to => InGap(t, new)
      BY <1>2 DEF InGap
<1>8. InTurn(new, to)
      BY <1>4, <1>5 DEF InTurn
<1> QED BY <1>6, <1>7, <1>8 DEF new

LEMMA SweepStep ==
    ASSUME NEW start \in Int, NEW blocks, Timed(blocks), NEW buffer \in Nat,
           NEW k \in DOMAIN blocks, blocks[k].from <= blocks[k].to,
           NEW B, blocks[k].label \in B, NEW acc \in ScanStates(B),
           Swept(acc, k - 1, blocks, start), buffer = 0,
           NEW new, new = ScanBlock(acc, blocks[k], buffer)
    PROVE  Swept(new, k, blocks, start)
<1> DEFINE b == blocks[k]
           x == acc.cursor
           gap == [from |-> x, to |-> b.from - buffer, by |-> b.label]
           G == GapSet(B)
<1>1. /\ Len(blocks) \in Nat /\ DOMAIN blocks = 1 .. Len(blocks)
      /\ \A j \in DOMAIN blocks : blocks[j].from \in Int /\ blocks[j].to \in Int
      BY DEF Timed
<1>2. x \in Int /\ acc.gaps \in Seq(G) /\ b.from \in Int /\ b.to \in Int /\ b.from <= b.to
      BY <1>1 DEF ScanStates
<1>3. /\ new.cursor = IF x >= b.to + buffer THEN x ELSE b.to + buffer
      /\ b.from - buffer <= x => new.gaps = acc.gaps
      /\ b.from - buffer > x => new.gaps = Append(acc.gaps, gap)
      BY <1>2, AfterBlock
<1>4. /\ new.cursor \in Int /\ new.cursor >= x /\ new.cursor >= b.to
      /\ new.cursor = x \/ new.cursor = b.to
      BY <1>2, <1>3
<1>5. /\ InTurn(new.gaps, new.cursor)
      /\ \A t : InGap(t, acc.gaps) => InGap(t, new.gaps)
      /\ \A t \in Int : x <= t /\ t < b.from => InGap(t, new.gaps)
  <2>1. CASE b.from - buffer <= x
    <3>1. \A i \in DOMAIN acc.gaps : acc.gaps[i].to \in Int /\ acc.gaps[i].to <= x
      <4>1. \A g \in G : g.to \in Int
            BY DEF GapSet
      <4>2. \A i \in DOMAIN acc.gaps : acc.gaps[i] \in G
            BY <1>2
      <4> QED BY <4>1, <4>2 DEF Swept, InTurn
    <3>2. InTurn(new.gaps, new.cursor)
      <4>1. \A i \in DOMAIN acc.gaps : acc.gaps[i].to <= new.cursor
            BY <1>2, <1>4, <3>1
      <4> QED BY <1>3, <2>1, <4>1 DEF Swept, InTurn
    <3>3. \A t \in Int : ~(x <= t /\ t < b.from)
          BY <1>2, <2>1
    <3> QED BY <1>3, <2>1, <3>2, <3>3
  <2>2. CASE b.from - buffer > x
    <3>1. gap \in G /\ gap.from = x /\ gap.to = b.from /\ gap.to <= new.cursor
          BY <1>1, <1>2, <1>4 DEF GapSet
    <3>2. InTurn(acc.gaps, x)
          BY DEF Swept
    <3> HIDE DEF gap, x, b
    <3>3. /\ InTurn(Append(acc.gaps, gap), new.cursor)
          /\ \A t : InGap(t, acc.gaps) => InGap(t, Append(acc.gaps, gap))
          /\ \A t : x <= t /\ t < gap.to => InGap(t, Append(acc.gaps, gap))
          BY <1>2, <1>4, <3>1, <3>2, TurnStep
    <3> QED BY <1>3, <2>2, <3>1, <3>3
  <2> QED BY <1>2, <2>1, <2>2
<1>6. ASSUME NEW t \in Int, start <= t, t < new.cursor
      PROVE  \/ InGap(t, new.gaps)
             \/ \E j \in DOMAIN blocks : j <= k /\ blocks[j].from <= t /\ t < blocks[j].to
  <2>1. CASE t < x
    <3>1. CASE InGap(t, acc.gaps)
          BY <1>5, <3>1
    <3>2. CASE \E j \in DOMAIN blocks : j <= k - 1 /\ blocks[j].from <= t /\ t < blocks[j].to
          BY <1>1, <3>2
    <3> QED BY <1>6, <2>1, <3>1, <3>2 DEF Swept
  <2>2. CASE ~(t < x) /\ t < b.from
        BY <1>2, <1>5, <2>2
  <2>3. CASE ~(t < x) /\ ~(t < b.from)
        BY <1>1, <1>2, <1>4, <1>6, <2>3
  <2> QED BY <2>1, <2>2, <2>3
<1> QED BY <1>5, <1>6 DEF Swept

Lasting(blocks) == \A j \in DOMAIN blocks : blocks[j].from <= blocks[j].to

LEMMA ScanEnds ==
    ASSUME NEW range, range.from \in Int, range.to \in Int, NEW blocks, OrderedBlocks(blocks, range),
           NEW buffer \in Nat,
           NEW end, end = ScanEnd(blocks, range.from, buffer)
    PROVE  /\ end \in ScanStates(LabelsOf(blocks))
           /\ Scanned(end, Len(blocks), blocks, range, buffer)
           /\ buffer = 0 /\ Lasting(blocks) => Swept(end, Len(blocks), blocks, range.from)
<1> DEFINE n == Len(blocks)
           B == LabelsOf(blocks)
           start == range.from
<1>1. Timed(blocks) /\ n \in Nat /\ DOMAIN blocks = 1 .. n /\ \A k \in DOMAIN blocks : blocks[k].label \in B
      BY DEF OrderedBlocks, Timed, LabelsOf
<1>2. PICK h : ScansTo(h, blocks, start, buffer)
      BY <1>1, ScanInOrder
<1>3. /\ end = h[n]
      /\ \A k \in 0 .. n : h[k] \in ScanStates(B)
      BY <1>2 DEF ScansTo
<1>4. /\ h[0] = [cursor |-> start, gaps |-> <<>>]
      /\ \A k \in 1 .. n : h[k] = ScanBlock(h[k - 1], blocks[k], buffer)
      BY <1>2 DEF ScansTo, Scans
<1> HIDE DEF n, B
<1> DEFINE T == {k \in Nat : k <= n =>
                    /\ Scanned(h[k], k, blocks, range, buffer)
                    /\ buffer = 0 /\ Lasting(blocks) => Swept(h[k], k, blocks, start)}
<1>5. 0 \in T
  <2>1. h[0].cursor = start /\ h[0].gaps = <<>> /\ DOMAIN h[0].gaps = {}
        BY <1>4
  <2>2. \A j \in DOMAIN blocks : ~(j <= 0)
        BY <1>1
  <2>3. Scanned(h[0], 0, blocks, range, buffer)
        BY <2>1, <2>2 DEF Scanned
  <2>4. Swept(h[0], 0, blocks, start)
        BY <2>1 DEF Swept, InTurn
  <2> QED BY <2>3, <2>4
<1>6. ASSUME NEW k \in Nat, k \in T PROVE k + 1 \in T
  <2> SUFFICES ASSUME k + 1 <= n
               PROVE  /\ Scanned(h[k + 1], k + 1, blocks, range, buffer)
                      /\ buffer = 0 /\ Lasting(blocks) => Swept(h[k + 1], k + 1, blocks, start)
      OBVIOUS
  <2> DEFINE q == k + 1
             acc == h[k]
             new == h[q]
  <2>1. q \in DOMAIN blocks /\ q - 1 = k /\ k \in 0 .. n /\ k <= n
        BY <1>1
  <2>2. /\ Scanned(acc, q - 1, blocks, range, buffer)
        /\ buffer = 0 /\ Lasting(blocks) => Swept(acc, q - 1, blocks, start)
        BY <1>6, <2>1
  <2>3. acc \in ScanStates(B) /\ blocks[q].label \in B
        BY <1>1, <1>3, <2>1
  <2>4. new = ScanBlock(acc, blocks[q], buffer)
        BY <1>1, <1>4, <2>1
  <2> HIDE DEF q, acc, new, T
  <2>5. Scanned(new, q, blocks, range, buffer)
        BY <2>1, <2>2, <2>3, <2>4, ScanStep
  <2>6. ASSUME buffer = 0, Lasting(blocks) PROVE Swept(new, q, blocks, start)
    <3>1. blocks[q].from <= blocks[q].to /\ Swept(acc, q - 1, blocks, start) /\ buffer = 0
          BY <2>1, <2>2, <2>6 DEF Lasting
    <3> HIDE DEF start
    <3>2. start \in Int
          BY DEF start
    <3> QED BY <1>1, <2>1, <2>3, <2>4, <3>1, <3>2, SweepStep
  <2> QED BY <2>5, <2>6 DEF q, new
<1> HIDE DEF T
<1>7. \A k \in Nat : k \in T
      BY <1>5, <1>6, NumberInduction
<1>8. /\ Scanned(h[n], n, blocks, range, buffer)
      /\ buffer = 0 /\ Lasting(blocks) => Swept(h[n], n, blocks, start)
  <2>1. n \in T
        BY <1>1, <1>7
  <2> QED BY <1>1, <2>1 DEF T
<1>9. h[n] \in ScanStates(B)
      BY <1>1, <1>3
<1> QED BY <1>3, <1>8, <1>9 DEF n, B

\* The gaps of a range, and the instants they hold when blocks last.
ClearGaps(gaps, blocks, range, buffer) ==
    \A i \in DOMAIN gaps : ClearGap(gaps[i], blocks, range, buffer)

LEMMA LastGap ==
    ASSUME NEW range, range.from \in Int, range.to \in Int, NEW blocks, OrderedBlocks(blocks, range),
           NEW buffer \in Nat, NEW B, NEW end \in ScanStates(B),
           Scanned(end, Len(blocks), blocks, range, buffer),
           NEW label \in B, NEW gaps,
           gaps = IF range.to > end.cursor
                  THEN Append(end.gaps, [from |-> end.cursor, to |-> range.to, by |-> label])
                  ELSE end.gaps
    PROVE  /\ gaps \in Seq(GapSet(B))
           /\ ClearGaps(gaps, blocks, range, buffer)
           /\ Swept(end, Len(blocks), blocks, range.from) =>
                 /\ \A i, j \in DOMAIN gaps : i < j => gaps[i].to <= gaps[j].from
                 /\ \A t \in Int : range.from <= t /\ t < range.to =>
                       \/ InGap(t, gaps)
                       \/ \E j \in DOMAIN blocks : blocks[j].from <= t /\ t < blocks[j].to
<1> DEFINE x == end.cursor
           gap == [from |-> x, to |-> range.to, by |-> label]
           G == GapSet(B)
<1>1. /\ Len(blocks) \in Nat /\ DOMAIN blocks = 1 .. Len(blocks)
      /\ \A j \in DOMAIN blocks : blocks[j].from \in Int /\ blocks[j].to \in Int
      BY DEF OrderedBlocks, Timed
<1>2. x \in Int /\ end.gaps \in Seq(G)
      BY DEF ScanStates
<1>3. CASE range.to > x
  <2>1. gap \in G /\ gap.from = x /\ gap.to = range.to
        BY <1>2 DEF GapSet
  <2>2. gaps = Append(end.gaps, gap)
        BY <1>3
  <2> HIDE DEF gap, G
  <2>3. /\ DOMAIN gaps = (DOMAIN end.gaps) \cup {Len(end.gaps) + 1}
        /\ gaps[Len(end.gaps) + 1] = gap
        /\ \A e \in DOMAIN end.gaps : gaps[e] = end.gaps[e]
        BY <1>2, <2>1, <2>2, Grows
  <2>4. ClearGap(gap, blocks, range, buffer)
        BY <1>1, <1>2, <1>3, <2>1 DEF ClearGap, Scanned
  <2>5. ClearGaps(gaps, blocks, range, buffer)
        BY <2>3, <2>4 DEF ClearGaps, Scanned
  <2>6. gaps \in Seq(G)
        BY <1>2, <2>1, <2>2
  <2>7. ASSUME Swept(end, Len(blocks), blocks, range.from)
        PROVE  /\ \A i, j \in DOMAIN gaps : i < j => gaps[i].to <= gaps[j].from
               /\ \A t \in Int : range.from <= t /\ t < range.to =>
                     \/ InGap(t, gaps)
                     \/ \E j \in DOMAIN blocks : blocks[j].from <= t /\ t < blocks[j].to
    <3> DEFINE to == range.to
    <3>1. InTurn(end.gaps, x) /\ to \in Int /\ x <= to /\ gap.to <= to
          BY <1>2, <1>3, <2>1, <2>7 DEF Swept
    <3> HIDE DEF x, to
    <3>2. /\ InTurn(Append(end.gaps, gap), to)
          /\ \A t : InGap(t, end.gaps) => InGap(t, Append(end.gaps, gap))
          /\ \A t : x <= t /\ t < gap.to => InGap(t, Append(end.gaps, gap))
          BY <1>2, <2>1, <3>1, TurnStep DEF G
    <3>3. \A i, j \in DOMAIN gaps : i < j => gaps[i].to <= gaps[j].from
          BY <2>2, <3>2 DEF InTurn
    <3>4. ASSUME NEW t \in Int, range.from <= t, t < range.to
          PROVE  \/ InGap(t, gaps)
                 \/ \E j \in DOMAIN blocks : blocks[j].from <= t /\ t < blocks[j].to
      <4>1. CASE t < x
        <5>1. \/ InGap(t, end.gaps)
              \/ \E j \in DOMAIN blocks : blocks[j].from <= t /\ t < blocks[j].to
              BY <2>7, <3>4, <4>1 DEF Swept, x
        <5> QED BY <2>2, <3>2, <5>1
      <4>2. CASE ~(t < x)
            BY <1>2, <2>1, <2>2, <3>2, <3>4, <4>2
      <4> QED BY <4>1, <4>2
    <3> QED BY <3>3, <3>4
  <2> QED BY <2>5, <2>6, <2>7 DEF G
<1>4. CASE ~(range.to > x)
  <2>1. gaps = end.gaps
        BY <1>4
  <2>2. ClearGaps(gaps, blocks, range, buffer) /\ gaps \in Seq(G)
        BY <1>2, <2>1 DEF ClearGaps, Scanned
  <2>3. ASSUME Swept(end, Len(blocks), blocks, range.from)
        PROVE  /\ \A i, j \in DOMAIN gaps : i < j => gaps[i].to <= gaps[j].from
               /\ \A t \in Int : range.from <= t /\ t < range.to =>
                     \/ InGap(t, gaps)
                     \/ \E j \in DOMAIN blocks : blocks[j].from <= t /\ t < blocks[j].to
    <3>1. \A t \in Int : t < range.to => t < x
          BY <1>2, <1>4
    <3> QED BY <2>1, <2>3, <3>1 DEF Swept, InTurn
  <2> QED BY <2>2, <2>3 DEF G
<1> QED BY <1>3, <1>4

Touches(b, range) == b.to > range.from /\ b.from < range.to

LEMMA BlocksListed ==
    ASSUME NEW range, range.from \in Int, range.to \in Int, NEW busy, Timed(busy),
           NEW blocks, blocks = BlocksIn(busy, range)
    PROVE  /\ OrderedBlocks(blocks, range)
           /\ \A b \in ToSet(busy) : Touches(b, range) => \E j \in DOMAIN blocks : blocks[j] = b
           /\ \A j \in DOMAIN blocks : blocks[j] \in ToSet(busy)
<1> DEFINE I == {i \in DOMAIN busy : busy[i].to > range.from /\ busy[i].from < range.to}
<1>1. /\ Len(busy) \in Nat /\ DOMAIN busy = 1 .. Len(busy)
      /\ \A i \in DOMAIN busy : busy[i].from \in Int /\ busy[i].to \in Int
      BY DEF Timed
<1>2. IsFiniteSet(I) /\ I \subseteq Int /\ \A i \in I : busy[i].from \in Int
  <2>1. IsFiniteSet(DOMAIN busy)
        BY <1>1, Prefixes1N
  <2>2. I \subseteq DOMAIN busy
        OBVIOUS
  <2>3. IsFiniteSet(I)
        BY <2>1, <2>2, FS_Subset
  <2> QED BY <1>1, <2>2, <2>3
<1>3. \A i \in I : i \in DOMAIN busy /\ Touches(busy[i], range)
      BY DEF Touches
<1>4. \A i \in DOMAIN busy : Touches(busy[i], range) => i \in I
      BY DEF Touches
<1>5. blocks = ByStart(busy, I)
      BY DEF BlocksIn
<1> HIDE DEF I
<1> DEFINE n == Cardinality(I)
<1>6. PICK o : /\ Arranges(blocks, o, busy, I)
               /\ \A j, k \in 1 .. n : j < k => StartsFirst(busy, o[j], o[k])
      BY <1>2, <1>5, ByStartFacts
<1>7. /\ n \in Nat /\ DOMAIN blocks = 1 .. n /\ Len(blocks) = n
      /\ \A j \in 1 .. n : o[j] \in I /\ blocks[j] = busy[o[j]]
      /\ \A i \in I : \E j \in 1 .. n : o[j] = i
  <2>1. /\ n \in Nat /\ blocks = [k \in 1 .. n |-> busy[o[k]]]
        /\ \A j \in 1 .. n : o[j] \in I
        /\ \A i \in I : \E j \in 1 .. n : o[j] = i
        BY <1>6 DEF Arranges
  <2> HIDE DEF n
  <2> QED BY <2>1
<1> HIDE DEF n
<1>8. Timed(blocks)
      BY <1>1, <1>3, <1>7 DEF Timed
<1>9. \A j \in DOMAIN blocks : blocks[j].to > range.from /\ blocks[j].from < range.to
      BY <1>3, <1>7 DEF Touches
<1>10. ASSUME NEW j \in DOMAIN blocks, NEW k \in DOMAIN blocks, j < k
       PROVE  blocks[j].from <= blocks[k].from
  <2>1. StartsFirst(busy, o[j], o[k])
        BY <1>6, <1>7, <1>10
  <2>2. busy[o[j]].from \in Int /\ busy[o[k]].from \in Int
        BY <1>2, <1>7
  <2>3. busy[o[j]].from <= busy[o[k]].from
        BY <2>1, <2>2 DEF StartsFirst
  <2> QED BY <1>7, <2>3
<1>11. ASSUME NEW b \in ToSet(busy), Touches(b, range) PROVE \E j \in DOMAIN blocks : blocks[j] = b
  <2>1. PICK i \in DOMAIN busy : busy[i] = b
        BY DEF ToSet
  <2>2. i \in I
        BY <1>4, <1>11, <2>1
  <2> QED BY <1>7, <2>1, <2>2
<1>12. \A j \in DOMAIN blocks : blocks[j] \in ToSet(busy)
       BY <1>3, <1>7 DEF ToSet
<1> QED BY <1>8, <1>9, <1>10, <1>11, <1>12 DEF OrderedBlocks

\* Gaps inside the range and clear of what touches it.
GapsKeepClear(gaps, busy, range, buffer) ==
    /\ Timed(gaps)
    /\ \A i \in DOMAIN gaps :
          /\ range.from <= gaps[i].from /\ gaps[i].from < gaps[i].to /\ gaps[i].to <= range.to
          /\ \A b \in ToSet(busy) : Touches(b, range) =>
                b.to + buffer <= gaps[i].from \/ gaps[i].to <= b.from - buffer

\* Gaps in order that, with the blocks, cover the range.
GapsFill(gaps, blocks, range) ==
    /\ \A i, j \in DOMAIN gaps : i < j => gaps[i].to <= gaps[j].from
    /\ \A t \in Int : range.from <= t /\ t < range.to =>
          \/ InGap(t, gaps)
          \/ \E j \in DOMAIN blocks : blocks[j].from <= t /\ t < blocks[j].to

GapsOf(busy, range, edge) ==
    LET blocks == BlocksIn(busy, range)
        scan == ScanEnd(blocks, range.from, edge)
    IN  IF range.to > scan.cursor
        THEN Append(scan.gaps, [from |-> scan.cursor, to |-> range.to,
                 by |-> IF blocks = <<>> THEN Null ELSE Last(blocks).label])
        ELSE scan.gaps

LEMMA GapsScanned ==
    ASSUME NEW range, range.from \in Int, range.to \in Int, NEW busy, Timed(busy),
           NEW edge \in Nat, NEW gaps, gaps = GapsOf(busy, range, edge)
    PROVE  /\ GapsKeepClear(gaps, busy, range, edge)
           /\ edge = 0 /\ Lasting(busy) => GapsFill(gaps, busy, range)
<1> DEFINE blocks == BlocksIn(busy, range)
           end == ScanEnd(blocks, range.from, edge)
           B == LabelsOf(blocks)
           label == IF blocks = <<>> THEN Null ELSE Last(blocks).label
<1>1. gaps = IF range.to > end.cursor
             THEN Append(end.gaps, [from |-> end.cursor, to |-> range.to, by |-> label])
             ELSE end.gaps
      BY DEF GapsOf
<1> HIDE DEF blocks, end
<1>2. /\ OrderedBlocks(blocks, range)
      /\ \A b \in ToSet(busy) : Touches(b, range) => \E j \in DOMAIN blocks : blocks[j] = b
      /\ \A j \in DOMAIN blocks : blocks[j] \in ToSet(busy)
      BY BlocksListed DEF blocks
<1>3. label \in B
  <2>1. Len(blocks) \in Nat /\ DOMAIN blocks = 1 .. Len(blocks)
        BY <1>2 DEF OrderedBlocks, Timed
  <2>2. CASE blocks = <<>>
        BY <2>2 DEF LabelsOf
  <2>3. CASE blocks # <<>> /\ Len(blocks) > 0
    <3>1. label = blocks[Len(blocks)].label /\ Len(blocks) \in DOMAIN blocks
          BY <2>1, <2>3 DEF Last
    <3> QED BY <3>1 DEF LabelsOf
  <2>4. CASE Len(blocks) = 0
    <3>1. PICK o, I : blocks = [k \in DOMAIN o |-> busy[o[k]]]
          BY DEF blocks, BlocksIn, ByStart
    <3>2. DOMAIN blocks = {} /\ DOMAIN o = {}
          BY <2>1, <2>4, <3>1
    <3>3. blocks = <<>>
          BY <3>1, <3>2
    <3> QED BY <2>2, <3>3
  <2> QED BY <2>1, <2>2, <2>3, <2>4
<1> HIDE DEF B, label
<1>4. /\ end \in ScanStates(B)
      /\ Scanned(end, Len(blocks), blocks, range, edge)
      /\ edge = 0 /\ Lasting(blocks) => Swept(end, Len(blocks), blocks, range.from)
      BY <1>2, ScanEnds DEF end, B
<1>5. /\ gaps \in Seq(GapSet(B))
      /\ ClearGaps(gaps, blocks, range, edge)
      /\ Swept(end, Len(blocks), blocks, range.from) => GapsFill(gaps, blocks, range)
      BY <1>1, <1>2, <1>3, <1>4, LastGap DEF GapsFill
<1>6. GapsKeepClear(gaps, busy, range, edge)
  <2>1. Timed(gaps)
    <3>1. \A g \in GapSet(B) : g.from \in Int /\ g.to \in Int
          BY DEF GapSet
    <3>2. \A i \in DOMAIN gaps : gaps[i] \in GapSet(B)
          BY <1>5
    <3>3. Len(gaps) \in Nat /\ DOMAIN gaps = 1 .. Len(gaps)
          BY <1>5
    <3> QED BY <3>1, <3>2, <3>3 DEF Timed
  <2>2. ASSUME NEW i \in DOMAIN gaps
        PROVE  /\ range.from <= gaps[i].from /\ gaps[i].from < gaps[i].to /\ gaps[i].to <= range.to
               /\ \A b \in ToSet(busy) : Touches(b, range) =>
                     b.to + edge <= gaps[i].from \/ gaps[i].to <= b.from - edge
    <3>1. ClearGap(gaps[i], blocks, range, edge)
          BY <1>5 DEF ClearGaps
    <3> QED BY <1>2, <3>1 DEF ClearGap
  <2> QED BY <2>1, <2>2 DEF GapsKeepClear
<1>7. ASSUME edge = 0, Lasting(busy) PROVE GapsFill(gaps, busy, range)
  <2>1. \A b \in ToSet(busy) : b.from <= b.to
        BY <1>7 DEF Lasting, ToSet
  <2>2. Lasting(blocks)
        BY <1>2, <2>1 DEF Lasting
  <2>3. GapsFill(gaps, blocks, range)
        BY <1>4, <1>5, <1>7, <2>2
  <2>4. \A j \in DOMAIN blocks : \E i \in DOMAIN busy : busy[i] = blocks[j]
        BY <1>2 DEF ToSet
  <2>5. ASSUME NEW t \in Int, range.from <= t, t < range.to
        PROVE  \/ InGap(t, gaps)
               \/ \E j \in DOMAIN busy : busy[j].from <= t /\ t < busy[j].to
    <3>1. \/ InGap(t, gaps)
          \/ \E j \in DOMAIN blocks : blocks[j].from <= t /\ t < blocks[j].to
          BY <2>3, <2>5 DEF GapsFill
    <3> QED BY <2>4, <3>1
  <2> QED BY <2>3, <2>5 DEF GapsFill
<1> QED BY <1>6, <1>7

LEMMA GapsFound ==
    ASSUME NEW range, range.from \in Int, range.to \in Int, NEW busy, Timed(busy),
           NEW buffer \in Nat, NEW gaps, gaps = ComputeGaps(busy, range, buffer),
           NEW edge, edge = AddMinutes(0, buffer)
    PROVE  /\ edge \in Nat
           /\ GapsKeepClear(gaps, busy, range, edge)
           /\ edge = 0 /\ Lasting(busy) => GapsFill(gaps, busy, range)
<1>1. gaps = GapsOf(busy, range, edge)
      BY DEF ComputeGaps, GapsOf
<1>2. edge \in Nat
      BY MinutesAdded
<1> QED BY <1>1, <1>2, GapsScanned

LEMMA GapsAreRight ==
    ASSUME NEW range, range.from \in Int, range.to \in Int, NEW busy, Timed(busy),
           NEW gaps, gaps = ComputeGaps(busy, range, 0)
    PROVE  GapsAreFreeTime(busy, range, gaps)
<1> SUFFICES ASSUME \A b \in ToSet(busy) : b.from <= b.to,
                    NEW t \in range.from .. range.to - 1
             PROVE  Cardinality({g \in ToSet(gaps) : g.from <= t /\ t < g.to})
                      = IF \E b \in ToSet(busy) : b.from <= t /\ t < b.to THEN 0 ELSE 1
    BY DEF GapsAreFreeTime
<1> DEFINE S == {g \in ToSet(gaps) : g.from <= t /\ t < g.to}
           zero == 0
<1>1. GapsKeepClear(gaps, busy, range, zero) /\ GapsFill(gaps, busy, range)
  <2>1. Lasting(busy)
        BY DEF Lasting, ToSet
  <2>2. zero \in Nat /\ zero = 0 /\ gaps = ComputeGaps(busy, range, zero) /\ zero = AddMinutes(0, zero)
        BY MinutesAdded
  <2> HIDE DEF zero
  <2> QED BY <2>1, <2>2, GapsFound
<1>2. t \in Int /\ range.from <= t /\ t < range.to
      OBVIOUS
<1>3. \A b \in ToSet(busy) : b.from \in Int /\ b.to \in Int
      BY DEF Timed, ToSet
<1>4. \A i \in DOMAIN gaps : i \in Int /\ gaps[i].from \in Int /\ gaps[i].to \in Int
      BY <1>1 DEF GapsKeepClear, Timed
<1>5. CASE \E b \in ToSet(busy) : b.from <= t /\ t < b.to
  <2>1. PICK b \in ToSet(busy) : b.from <= t /\ t < b.to
        BY <1>5
  <2>2. Touches(b, range)
        BY <1>2, <1>3, <2>1 DEF Touches
  <2>3. \A i \in DOMAIN gaps : b.to + zero <= gaps[i].from \/ gaps[i].to <= b.from - zero
        BY <1>1, <2>2 DEF GapsKeepClear
  <2>4. \A i \in DOMAIN gaps : ~(gaps[i].from <= t /\ t < gaps[i].to)
        BY <1>2, <1>3, <1>4, <2>1, <2>3
  <2>5. S = {}
        BY <2>4 DEF ToSet
  <2>6. Cardinality(S) = 0
        BY <2>5, FS_EmptySet
  <2> QED BY <1>5, <2>6
<1>6. CASE ~ \E b \in ToSet(busy) : b.from <= t /\ t < b.to
  <2>1. ~ \E j \in DOMAIN busy : busy[j].from <= t /\ t < busy[j].to
        BY <1>6 DEF ToSet
  <2>2. PICK i \in DOMAIN gaps : gaps[i].from <= t /\ t < gaps[i].to
        BY <1>1, <1>2, <2>1 DEF GapsFill, InGap
  <2>3. ASSUME NEW j \in DOMAIN gaps, gaps[j].from <= t, t < gaps[j].to PROVE j = i
    <3>1. i < j => gaps[i].to <= gaps[j].from
          BY <1>1 DEF GapsFill
    <3>2. j < i => gaps[j].to <= gaps[i].from
          BY <1>1 DEF GapsFill
    <3> QED BY <1>2, <1>4, <2>2, <2>3, <3>1, <3>2
  <2>4. S = {gaps[i]}
        BY <2>2, <2>3 DEF ToSet
  <2>5. Cardinality(S) = 1
        BY <2>4, FS_Singleton
  <2> QED BY <1>6, <2>5
<1> QED BY <1>5, <1>6

LEMMA PreferenceKeepsAll ==
    ASSUME NEW gaps, Timed(gaps)
    PROVE  \E o : Arranges(PreferAdjacent(gaps), o, gaps, DOMAIN gaps)
<1> DEFINE D == DOMAIN gaps
           R == {p \in D \X D : IsPreferred(gaps, p[1], p[2])}
           o == SortedBy(D, R)
           v == [i \in D |-> gaps[i].from]
           L == {i \in D : gaps[i].by # Null}
<1>1. /\ IsFiniteSet(D)
      /\ \A i \in D : i \in Int /\ v[i] \in Int
  <2>1. Len(gaps) \in Nat /\ D = 1 .. Len(gaps)
        BY DEF Timed
  <2>2. IsFiniteSet(D)
        BY <2>1, Prefixes1N
  <2> QED BY <2>1, <2>2 DEF Timed
<1>2. PreferAdjacent(gaps) = [k \in DOMAIN o |-> gaps[o[k]]]
      BY DEF PreferAdjacent
<1>3. \A i, j \in D : <<i, j>> \in R <=>
         \/ i \in L /\ j \notin L
         \/ (i \in L <=> j \in L) /\ (v[i] < v[j] \/ (v[i] = v[j] /\ i < j))
      BY DEF IsPreferred, StartsFirst
<1> DEFINE p == o
<1>4. p = SortedBy(D, R) /\ PreferAdjacent(gaps) = [k \in DOMAIN p |-> gaps[p[k]]]
      BY <1>2
<1> HIDE DEF D, R, p, v, L
<1>5. \A i \in D : ~(<<i, i>> \in R)
      BY <1>1, <1>3
<1>6. \A i, j \in D : i # j => <<i, j>> \in R \/ <<j, i>> \in R
      BY <1>1, <1>3
<1>7. ASSUME NEW i \in D, NEW j \in D, NEW k \in D, <<i, j>> \in R, <<j, k>> \in R
      PROVE  <<i, k>> \in R
  <2> DEFINE vi == v[i]
             vj == v[j]
             vk == v[k]
  <2>1. vi \in Int /\ vj \in Int /\ vk \in Int /\ i \in Int /\ j \in Int /\ k \in Int
        BY <1>1
  <2>2. \/ i \in L /\ j \notin L
        \/ (i \in L <=> j \in L) /\ (vi < vj \/ (vi = vj /\ i < j))
        BY <1>3, <1>7
  <2>3. \/ j \in L /\ k \notin L
        \/ (j \in L <=> k \in L) /\ (vj < vk \/ (vj = vk /\ j < k))
        BY <1>3, <1>7
  <2>4. \/ i \in L /\ k \notin L
        \/ (i \in L <=> k \in L) /\ (vi < vk \/ (vi = vk /\ i < k))
    <3> HIDE DEF vi, vj, vk
    <3> QED BY <2>1, <2>2, <2>3
  <2> QED BY <1>3, <2>4
<1>8. Orders(R, D)
  <2>1. R \subseteq D \X D
        BY DEF R
  <2> QED BY <1>5, <1>6, <1>7, <2>1 DEF Orders
<1>9. Arranges(PreferAdjacent(gaps), p, gaps, D)
      BY <1>1, <1>4, <1>8, ArrangedInOrder
<1> QED BY <1>9 DEF D

\* A window at the start of a gap, within it and as long as a goal asks for.
InSomeGap(w, gaps, goals) ==
    /\ w.from \in Int /\ w.to \in Int
    /\ \E k \in DOMAIN gaps : w.from = gaps[k].from /\ w.to <= gaps[k].to
    /\ \E i \in DOMAIN goals : goals[i].id = w.goal /\ w.to = AddMinutes(w.from, goals[i].minutes)

Apart(s) ==
    \A i, j \in DOMAIN s : i # j => ~WindowsOverlap(s[i].from, s[i].to, s[j].from, s[j].to)

Chosen(s, gaps, goals) ==
    /\ Len(s) \in Nat /\ DOMAIN s = 1 .. Len(s)
    /\ \A i \in DOMAIN s : InSomeGap(s[i], gaps, goals)
    /\ Apart(s)

GoalsTimed(goals) ==
    /\ Len(goals) \in Nat /\ DOMAIN goals = 1 .. Len(goals)
    /\ \A i \in DOMAIN goals : goals[i].minutes \in Int

WindowSet(goals) == [goal : {goals[i].id : i \in DOMAIN goals}, from : Int, to : Int]

Selections(gaps, goals) == {s \in Seq(WindowSet(goals)) : Chosen(s, gaps, goals)}

LEMMA SuggestStep ==
    ASSUME NEW gaps, Timed(gaps), NEW goals, GoalsTimed(goals), NEW i \in DOMAIN goals, NEW member,
           NEW taken \in Selections(gaps, goals)
    PROVE  Suggest(taken, goals[i], member, gaps) \in Selections(gaps, goals)
<1> DEFINE goal == goals[i]
           F == Fits(goal, taken, gaps)
           new == Suggest(taken, goal, member, gaps)
<1>1. CASE goal.member # member \/ F = {}
      BY <1>1 DEF Suggest
<1>2. CASE goal.member = member /\ F # {}
  <2> DEFINE gap == gaps[Min(F)]
             w == [goal |-> goal.id, from |-> gap.from, to |-> AddMinutes(gap.from, goal.minutes)]
             W == WindowSet(goals)
             n == Len(taken)
  <2>1. /\ Len(gaps) \in Nat /\ DOMAIN gaps = 1 .. Len(gaps)
        /\ \A k \in DOMAIN gaps : gaps[k].from \in Int /\ gaps[k].to \in Int
        BY DEF Timed
  <2>2. Min(F) \in F
    <3>1. IsFiniteSet(DOMAIN gaps) /\ DOMAIN gaps \subseteq Int
          BY <2>1, Prefixes1N
    <3>2. F \subseteq DOMAIN gaps
          BY DEF Fits
    <3>3. IsFiniteSet(F) /\ F \in SUBSET Int
          BY <3>1, <3>2, FS_Subset
    <3> HIDE DEF F
    <3> QED BY <1>2, <3>3, MinOfFinite
  <2>3. Min(F) \in DOMAIN gaps /\ AddMinutes(gap.from, goal.minutes) <= gap.to /\ GapIsFree(gap, taken)
        BY <2>2 DEF Fits
  <2>4. gap.from \in Int /\ gap.to \in Int /\ goal.minutes \in Int
        BY <2>1, <2>3 DEF GoalsTimed
  <2>5. /\ w.goal = goal.id /\ w.from = gap.from /\ w.to = AddMinutes(gap.from, goal.minutes)
        /\ AddMinutes(gap.from, goal.minutes) \in Int /\ w \in W
        BY <2>4, MinutesAdded DEF WindowSet
  <2>6. new = Append(taken, w)
        BY <1>2 DEF Suggest
  <2> HIDE DEF new, w, W, F
  <2>7. InSomeGap(w, gaps, goals)
    <3>1. w.from \in Int /\ w.to \in Int /\ w.to <= gap.to /\ w.to = AddMinutes(w.from, goal.minutes)
          BY <2>3, <2>4, <2>5
    <3> QED BY <2>3, <2>5, <3>1 DEF InSomeGap
  <2>8. taken \in Seq(W) /\ Chosen(taken, gaps, goals)
        BY DEF Selections, W
  <2>9. /\ DOMAIN new = (DOMAIN taken) \cup {n + 1}
        /\ new[n + 1] = w
        /\ \A e \in DOMAIN taken : new[e] = taken[e] /\ e < n + 1
        BY <2>5, <2>6, <2>8, Grows
  <2>10. new \in Seq(W) /\ Len(new) \in Nat /\ DOMAIN new = 1 .. Len(new)
         BY <2>5, <2>6, <2>8
  <2>11. ASSUME NEW e \in DOMAIN taken
         PROVE  /\ ~WindowsOverlap(w.from, w.to, taken[e].from, taken[e].to)
                /\ ~WindowsOverlap(taken[e].from, taken[e].to, w.from, w.to)
    <3>1. ~WindowsOverlap(gap.from, gap.to, taken[e].from, taken[e].to)
          BY <2>3 DEF GapIsFree, ToSet
    <3>2. taken[e].from \in Int /\ taken[e].to \in Int
          BY <2>8 DEF Chosen, InSomeGap
    <3>3. w.from = gap.from /\ w.to <= gap.to /\ w.to \in Int
          BY <2>3, <2>4, <2>5
    <3> QED BY <2>4, <3>1, <3>2, <3>3 DEF WindowsOverlap
  <2>12. Apart(new)
    <3> SUFFICES ASSUME NEW e \in DOMAIN new, NEW f \in DOMAIN new, e # f
                 PROVE  ~WindowsOverlap(new[e].from, new[e].to, new[f].from, new[f].to)
        BY DEF Apart
    <3>1. CASE e \in DOMAIN taken /\ f \in DOMAIN taken
          BY <2>8, <2>9, <3>1 DEF Chosen, Apart
    <3>2. CASE e = n + 1 /\ f \in DOMAIN taken
          BY <2>9, <2>11, <3>2
    <3>3. CASE e \in DOMAIN taken /\ f = n + 1
          BY <2>9, <2>11, <3>3
    <3> QED BY <2>9, <3>1, <3>2, <3>3
  <2>13. \A e \in DOMAIN new : InSomeGap(new[e], gaps, goals)
         BY <2>7, <2>8, <2>9 DEF Chosen
  <2>14. Chosen(new, gaps, goals)
         BY <2>10, <2>12, <2>13 DEF Chosen
  <2> QED BY <2>10, <2>14 DEF Selections, W, new
<1> QED BY <1>1, <1>2

LEMMA SuggestionsChosen ==
    ASSUME NEW gaps, Timed(gaps), NEW goals, GoalsTimed(goals), NEW member
    PROVE  SuggestAll(goals, member, gaps) \in Selections(gaps, goals)
<1> DEFINE n == Len(goals)
           D == DOMAIN goals
           Y == Selections(gaps, goals)
           base == <<>>
           step == [p \in D \X Y |-> Suggest(p[2], goals[p[1]], member, gaps)]
           It(g) == g = [t \in SUBSET D |-> IF t = {} THEN base
                            ELSE Suggest(g[t \ {Max(t)}], goals[Max(t)], member, gaps)]
           it == CHOOSE g : It(g)
<1>1. n \in Nat /\ D = 1 .. n /\ IsFiniteSet(D) /\ D \subseteq Int
  <2>1. n \in Nat /\ D = 1 .. n
        BY DEF GoalsTimed
  <2> QED BY <2>1, Prefixes1N
<1>2. base \in Y
      BY DEF Selections, Chosen, Apart
<1>3. \A i \in D, e \in Y : step[<<i, e>>] = Suggest(e, goals[i], member, gaps)
  <2> HIDE DEF D, Y
  <2> QED OBVIOUS
<1>4. \A i \in D, e \in Y : Suggest(e, goals[i], member, gaps) \in Y
      BY SuggestStep
<1> HIDE DEF n, base, Y, step, D
<1>5. StepsInto(step, D, Y)
      BY <1>3, <1>4 DEF StepsInto
<1>6. PICK g : Iterated(g, D, Y, base, step)
      BY <1>1, <1>2, <1>5, IterateExists
<1>7. It(g)
  <2>1. g = [t \in SUBSET D |-> g[t]] /\ g[{}] = base
        BY <1>6 DEF Iterated
  <2>2. \A t \in SUBSET D : t # {} => g[t] = Suggest(g[t \ {Max(t)}], goals[Max(t)], member, gaps)
        BY <1>3, <1>6 DEF Iterated
  <2> QED BY <2>1, <2>2
<1>8. It(it)
  <2>1. \E f : It(f)
        BY <1>7
  <2> HIDE DEF It
  <2> QED BY <2>1
<1>9. SuggestAll(goals, member, gaps) = it[D]
      BY DEF SuggestAll, FoldLeft, MapThenFoldSet, D, base
<1>10. /\ it[{}] = base
       /\ \A t \in SUBSET D : t # {} =>
             it[t] = Suggest(it[t \ {Max(t)}], goals[Max(t)], member, gaps)
  <2>1. {} \in SUBSET D
        OBVIOUS
  <2> HIDE DEF it
  <2> QED BY <1>8, <2>1
<1> HIDE DEF it
<1> DEFINE T == {t \in SUBSET D : it[t] \in Y}
<1>11. ASSUME NEW t \in SUBSET D, \A u \in SUBSET t : u # t => u \in T PROVE t \in T
  <2>1. CASE t = {}
        BY <1>2, <1>10, <2>1
  <2>2. CASE t # {}
    <3>1. Max(t) \in t
      <4>1. IsFiniteSet(t) /\ t \in SUBSET Int
            BY <1>1, FS_Subset
      <4> QED BY <2>2, <4>1, MaxOfFinite
    <3>2. t \ {Max(t)} \in SUBSET t /\ t \ {Max(t)} # t /\ Max(t) \in D
          BY <3>1
    <3>3. it[t \ {Max(t)}] \in Y
      <4>1. t \ {Max(t)} \in T
        <5> HIDE DEF T
        <5> QED BY <1>11, <3>2
      <4> QED BY <4>1
    <3>4. it[t] \in Y
          BY <1>4, <1>10, <2>2, <3>2, <3>3
    <3> QED BY <3>4
  <2> QED BY <2>1, <2>2
<1> HIDE DEF T
<1>12. \A t \in SUBSET D : t \in T
  <2>1. IsFiniteSet(D) /\ \A t \in SUBSET D : (\A u \in SUBSET t : u # t => u \in T) => t \in T
        BY <1>1, <1>11
  <2> QED BY <2>1, SubsetInduction
<1>13. it[D] \in Y
       BY <1>12 DEF T
<1> QED BY <1>9, <1>13 DEF Y

LEMMA WindowsAreRight ==
    ASSUME NEW range, range.from \in Int, range.to \in Int, NEW busy, Timed(busy),
           NEW goals, GoalsTimed(goals), NEW buffer \in Nat, NEW member,
           NEW windows, windows = FindMicroWindows(member, goals, busy, range, buffer)
    PROVE  /\ WindowsAreUsable(goals, busy, range, buffer, windows)
           /\ windows \in Seq(WindowSet(goals))
<1> DEFINE raw == ComputeGaps(busy, range, buffer)
           gaps == PreferAdjacent(raw)
           chosen == SuggestAll(goals, member, gaps)
           edge == AddMinutes(0, buffer)
<1>1. windows = ByStart(chosen, DOMAIN chosen)
      BY DEF FindMicroWindows
<1> HIDE DEF raw
<1>2. GapsKeepClear(raw, busy, range, edge) /\ edge \in Nat
      BY GapsFound DEF raw
<1>e. ASSUME NEW t \in Int
      PROVE  AddMinutes(t, -buffer) = t - edge /\ AddMinutes(t, buffer) = t + edge
  <2>1. buffer \in Int
        OBVIOUS
  <2> QED BY <2>1, MinutesAdded
<1> HIDE DEF edge
<1>3. PICK o : Arranges(gaps, o, raw, DOMAIN raw)
      BY <1>2, PreferenceKeepsAll DEF GapsKeepClear
<1> HIDE DEF gaps
<1>4. /\ Timed(gaps)
      /\ \A k \in DOMAIN gaps : \E i \in DOMAIN raw : gaps[k] = raw[i]
  <2> DEFINE n == Cardinality(DOMAIN raw)
  <2>1. /\ n \in Nat /\ gaps = [k \in 1 .. n |-> raw[o[k]]]
        /\ \A k \in 1 .. n : o[k] \in DOMAIN raw
        BY <1>3 DEF Arranges
  <2>2. \A i \in DOMAIN raw : raw[i].from \in Int /\ raw[i].to \in Int
        BY <1>2 DEF GapsKeepClear, Timed
  <2> HIDE DEF n
  <2>3. DOMAIN gaps = 1 .. n /\ Len(gaps) = n /\ \A k \in 1 .. n : gaps[k] = raw[o[k]]
        BY <2>1
  <2> QED BY <2>1, <2>2, <2>3 DEF Timed
<1>5. chosen \in Selections(gaps, goals)
      BY <1>4, SuggestionsChosen
<1> HIDE DEF chosen
<1>6. Chosen(chosen, gaps, goals)
      BY <1>5 DEF Selections
<1> DEFINE I == DOMAIN chosen
           m == Cardinality(I)
<1>7. PICK p : Arranges(windows, p, chosen, I)
  <2>1. /\ IsFiniteSet(I) /\ I \subseteq Int
        /\ \A i \in I : chosen[i].from \in Int
    <3>1. Len(chosen) \in Nat /\ I = 1 .. Len(chosen)
          BY <1>6 DEF Chosen
    <3>2. IsFiniteSet(I)
          BY <3>1, Prefixes1N
    <3> QED BY <1>6, <3>1, <3>2 DEF Chosen, InSomeGap
  <2> HIDE DEF I
  <2>2. \E p : /\ Arranges(ByStart(chosen, I), p, chosen, I)
               /\ \A j, k \in 1 .. Cardinality(I) : j < k => StartsFirst(chosen, p[j], p[k])
        BY <2>1, ByStartFacts
  <2> QED BY <1>1, <2>2 DEF I
<1>8. /\ DOMAIN windows = 1 .. m
      /\ \A k \in 1 .. m : p[k] \in I /\ windows[k] = chosen[p[k]]
      /\ \A j, k \in 1 .. m : p[j] = p[k] => j = k
      BY <1>7 DEF Arranges
<1>11. windows \in Seq(WindowSet(goals))
  <2>1. m \in Nat /\ windows = [k \in 1 .. m |-> chosen[p[k]]]
        BY <1>7 DEF Arranges
  <2>2. \A k \in I : chosen[k] \in WindowSet(goals)
        BY <1>5 DEF Selections
  <2> DEFINE W == WindowSet(goals)
  <2>3. \A k \in 1 .. m : chosen[p[k]] \in W
        BY <1>8, <2>2
  <2> HIDE DEF W, I, m
  <2>4. windows \in Seq(W)
        BY <2>1, <2>3
  <2> QED BY <2>4 DEF W
<1> HIDE DEF m
<1>9. ASSUME NEW k \in DOMAIN windows
      PROVE  /\ range.from <= windows[k].from /\ windows[k].to <= range.to
             /\ \E g \in ToSet(goals) : g.id = windows[k].goal
                                        /\ windows[k].to = AddMinutes(windows[k].from, g.minutes)
             /\ \A b \in ToSet(busy) : b.to > range.from /\ b.from < range.to =>
                   ~WindowsOverlap(windows[k].from, windows[k].to, AddMinutes(b.from, -buffer), AddMinutes(b.to, buffer))
  <2> DEFINE w == windows[k]
  <2>1. InSomeGap(w, gaps, goals)
        BY <1>6, <1>8 DEF Chosen
  <2>2. PICK i \in DOMAIN raw : w.from = raw[i].from /\ w.to <= raw[i].to
        BY <1>4, <2>1 DEF InSomeGap
  <2>3. w.from \in Int /\ w.to \in Int /\ raw[i].from \in Int /\ raw[i].to \in Int
        BY <1>2, <2>1 DEF InSomeGap, GapsKeepClear, Timed
  <2>4. /\ range.from <= raw[i].from /\ raw[i].to <= range.to
        /\ \A b \in ToSet(busy) : Touches(b, range) =>
              b.to + edge <= raw[i].from \/ raw[i].to <= b.from - edge
        BY <1>2 DEF GapsKeepClear
  <2>5. \E g \in ToSet(goals) : g.id = w.goal /\ w.to = AddMinutes(w.from, g.minutes)
        BY <2>1 DEF InSomeGap, ToSet
  <2>6. ASSUME NEW b \in ToSet(busy), b.to > range.from, b.from < range.to
        PROVE  ~WindowsOverlap(w.from, w.to, AddMinutes(b.from, -buffer), AddMinutes(b.to, buffer))
    <3>1. b.from \in Int /\ b.to \in Int
          BY DEF Timed, ToSet
    <3>2. b.to + edge <= raw[i].from \/ raw[i].to <= b.from - edge
          BY <2>4, <2>6 DEF Touches
    <3> DEFINE x == w.from
               y == w.to
               z == raw[i].to
               c == b.from - edge
               d == b.to + edge
    <3>3. x \in Int /\ y \in Int /\ z \in Int /\ c \in Int /\ d \in Int /\ y <= z /\ (d <= x \/ z <= c)
          BY <1>2, <2>2, <2>3, <3>1, <3>2
    <3> HIDE DEF x, y, z, c, d
    <3>4. ~WindowsOverlap(x, y, c, d)
          BY <3>3 DEF WindowsOverlap
    <3> QED BY <1>e, <3>1, <3>4 DEF x, y, c, d
  <2>7. range.from <= w.from /\ w.to <= range.to
        BY <2>2, <2>3, <2>4
  <2> QED BY <2>5, <2>6, <2>7
<1>10. ASSUME NEW i \in DOMAIN windows, NEW j \in DOMAIN windows, i # j
       PROVE  ~WindowsOverlap(windows[i].from, windows[i].to, windows[j].from, windows[j].to)
       BY <1>6, <1>8, <1>10 DEF Chosen, Apart
<1>12. WindowsAreUsable(goals, busy, range, buffer, windows)
       BY <1>9, <1>10 DEF WindowsAreUsable, ToSet
<1> QED BY <1>11, <1>12

\* A goal of fewer than 2000 windows reads as full only when it is met.
LEMMA FullExactly ==
    ASSUME NEW n \in Nat, NEW d \in Nat, d > 0, d < 2000
    PROVE  Clamp(Tenths(n, d), 0, 1000) = 1000 <=> n >= d
<1> DEFINE q == (2000 * n + d) \div (2 * d)
           lo == 0
           hi == 1000
<1>1. q \in Nat /\ 2 * d * q <= 2000 * n + d /\ 2000 * n + d < 2 * d * q + 2 * d
      OBVIOUS
<1>2. q = Tenths(n, d)
      BY DEF Tenths
<1> HIDE DEF q
<1>3. q >= 1000 <=> n >= d
  <2>1. ASSUME n >= d PROVE q >= 1000
    <3>1. 2000 * d + d < 2 * d * q + 2 * d
          BY <1>1, <2>1
    <3>2. ASSUME q <= 999 PROVE FALSE
      <4>1. d * q <= d * 999
            BY <1>1, <3>2
      <4> QED BY <1>1, <3>1, <4>1
    <3> QED BY <1>1, <3>2
  <2>2. ASSUME q >= 1000 PROVE n >= d
    <3>1. d * q >= d * 1000
          BY <1>1, <2>2
    <3>2. 2000 * d <= 2000 * n + d
          BY <1>1, <3>1
    <3> QED BY <3>2
  <2> QED BY <2>1, <2>2
<1>4. lo \in Int /\ hi \in Int /\ lo <= hi /\ q \in Int /\ q >= lo
      BY <1>1
<1> HIDE DEF lo, hi
<1>5. Max({lo, q}) = q
  <2>1. Max({lo, q}) = IF lo >= q THEN lo ELSE q
        BY <1>4, MaxOfTwo
  <2> QED BY <1>4, <2>1
<1>6. Clamp(q, lo, hi) = IF hi <= q THEN hi ELSE q
  <2>1. Min({hi, q}) = IF hi <= q THEN hi ELSE q
        BY <1>4, MinOfTwo
  <2> QED BY <1>5, <2>1 DEF Clamp
<1>7. Clamp(q, lo, hi) = hi <=> q >= hi
      BY <1>4, <1>6
<1> QED BY <1>2, <1>3, <1>7 DEF lo, hi

=============================================================================
