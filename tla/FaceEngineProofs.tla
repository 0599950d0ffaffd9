--------------------------- MODULE FaceEngineProofs ---------------------------
(***************************************************************************)
(* What the engine's operations do to the voices in flight, for the proofs *)
(* about the modules that play through it.                                 *)
(***************************************************************************)
EXTENDS FaceEngine, FiniteSetTheorems, WellFoundedInduction, TLAPS

-----------------------------------------------------------------------------
(* Numbers and folds: induction over the naturals as facts about sets, and *)
(* what a fold over a sequence computes, step by step.                      *)

\* A set of natural numbers has a least one.
LEMMA LeastNatural ==
    ASSUME NEW T, T \subseteq Nat, T # {}
    PROVE  \E x \in T : \A y \in T : x <= y
<1> DEFINE R == {ss \in Nat \X Nat : ss[1] < ss[2]}
<1>1. IsWellFoundedOn(R, Nat)
  BY NatLessThanWellFounded DEF OpToRel
<1>2. \E x \in T : \A y \in T : ~(<<y, x>> \in R)
  <2> HIDE DEF R
  <2> QED BY <1>1, WFMin
<1>3. PICK x \in T : \A y \in T : ~(<<y, x>> \in R)
  BY <1>2
<1>4. \A y \in T : ~(y < x)
  BY <1>3
<1>5. \A y \in T : x <= y
  BY <1>4
<1> QED BY <1>5

\* A set that holds 0, and with a number the next, holds them all.
LEMMA NatInd ==
    ASSUME NEW S, 0 \in S, \A n \in Nat : n \in S => n + 1 \in S
    PROVE  Nat \subseteq S
<1> SUFFICES ASSUME Nat \ S # {} PROVE FALSE
  OBVIOUS
<1>1. PICK x \in Nat \ S : \A y \in Nat \ S : x <= y
  BY LeastNatural
<1>2. x - 1 \in Nat /\ x - 1 \in S
  BY <1>1
<1> QED BY <1>1, <1>2

\* The greatest of some numbers up to n, n among them.
LEMMA MaxOfUpTo ==
    ASSUME NEW n \in Nat, NEW t \in SUBSET (1..n), n \in t
    PROVE  Max(t) = n
<1>1. \E x \in t : \A y \in t : x >= y
  OBVIOUS
<1>2. Max(t) \in t /\ \A y \in t : Max(t) >= y
  <2> DEFINE Q(x) == x \in t /\ \A y \in t : x >= y
  <2>1. \E x : Q(x)
    BY <1>1
  <2>2. Q(CHOOSE x : Q(x))
    BY <2>1
  <2>3. Max(t) = CHOOSE x : Q(x)
    BY DEF Max
  <2> QED BY <2>2, <2>3
<1>3. Max(t) \in 1..n /\ Max(t) >= n
  BY <1>2
<1> QED BY <1>3

\* g takes each set of numbers up to N apart from its greatest down, with F.
Descends(g, V, N, base, F) ==
    /\ g \in [SUBSET (1..N) -> V]
    /\ \A t \in SUBSET (1..N) :
          g[t] = IF t = {} THEN base ELSE F[<<g[t \ {Max(t)}], Max(t)>>]

\* Such a recursion has a solution: what the CHOOSE of a fold picks.
LEMMA RecursionExists ==
    ASSUME NEW V, NEW N \in Nat, NEW base \in V, NEW F \in [V \X (1..N) -> V]
    PROVE  \E g : Descends(g, V, N, base, F)
<1> DEFINE P(n, g) == \A t \in SUBSET (1..n) :
             g[t] = IF t = {} THEN base ELSE F[<<g[t \ {Max(t)}], Max(t)>>]
           E(n) == \E g \in [SUBSET (1..n) -> V] : P(n, g)
           S == {n \in Nat : n <= N => E(n)}
<1>1. E(0)
  <2> DEFINE g == [t \in SUBSET (1..0) |-> base]
  <2>1. g \in [SUBSET (1..0) -> V]
    OBVIOUS
  <2>2. P(0, g)
    OBVIOUS
  <2> QED BY <2>1, <2>2
<1>2. ASSUME NEW n \in Nat, E(n), n + 1 <= N PROVE E(n + 1)
  <2>1. PICK g \in [SUBSET (1..n) -> V] : P(n, g)
    BY <1>2
  <2> DEFINE h == [t \in SUBSET (1..(n + 1)) |->
                     IF n + 1 \in t THEN F[<<g[t \ {n + 1}], n + 1>>] ELSE g[t]]
  <2>2. ASSUME NEW t \in SUBSET (1..(n + 1)), n + 1 \notin t PROVE t \in SUBSET (1..n)
    BY <2>2
  <2>3. ASSUME NEW t \in SUBSET (1..(n + 1)) PROVE t \ {n + 1} \in SUBSET (1..n)
    OBVIOUS
  <2>4. h \in [SUBSET (1..(n + 1)) -> V]
    <3>1. ASSUME NEW t \in SUBSET (1..(n + 1)) PROVE h[t] \in V
      <4>1. CASE n + 1 \in t
        <5>1. g[t \ {n + 1}] \in V
          BY <2>3
        <5>2. n + 1 \in 1..N
          BY <1>2
        <5> QED BY <4>1, <5>1, <5>2
      <4>2. CASE n + 1 \notin t
        BY <2>2, <4>2
      <4> QED BY <4>1, <4>2
    <3> QED BY <3>1
  <2>5. ASSUME NEW t \in SUBSET (1..(n + 1))
        PROVE  h[t] = IF t = {} THEN base ELSE F[<<h[t \ {Max(t)}], Max(t)>>]
    <3>1. CASE n + 1 \in t
      <4>1. Max(t) = n + 1
        BY <3>1, MaxOfUpTo
      <4>2. h[t \ {n + 1}] = g[t \ {n + 1}]
        <5>1. t \ {n + 1} \in SUBSET (1..(n + 1))
          OBVIOUS
        <5> QED BY <5>1
      <4>3. t # {} /\ h[t] = F[<<g[t \ {n + 1}], n + 1>>]
        BY <3>1
      <4> HIDE DEF h
      <4> QED BY <4>1, <4>2, <4>3
    <3>2. CASE n + 1 \notin t
      <4>1. h[t] = g[t] /\ t \in SUBSET (1..n)
        BY <3>2, <2>2
      <4>2. /\ t \ {Max(t)} \in SUBSET (1..(n + 1)) /\ n + 1 \notin t \ {Max(t)}
        BY <3>2
      <4>3. h[t \ {Max(t)}] = g[t \ {Max(t)}]
        BY <4>2
      <4>4. g[t] = IF t = {} THEN base ELSE F[<<g[t \ {Max(t)}], Max(t)>>]
        BY <2>1, <4>1
      <4> HIDE DEF h
      <4> QED BY <4>1, <4>3, <4>4
    <3> QED BY <3>1, <3>2
  <2> HIDE DEF h
  <2>6. P(n + 1, h)
    BY <2>5
  <2> QED BY <2>4, <2>6
<1> HIDE DEF E
<1>3. 0 \in S
  BY <1>1
<1>4. \A n \in Nat : n \in S => n + 1 \in S
  BY <1>2
<1>5. N \in S
  <2> HIDE DEF S
  <2> QED BY <1>3, <1>4, NatInd
<1>6. E(N)
  BY <1>5
<1> QED BY <1>6 DEF E, Descends

\* Numbers up to n have a greatest.
LEMMA MaxIsMember ==
    ASSUME NEW n \in Nat, NEW t \in SUBSET (1..n), t # {}
    PROVE  Max(t) \in t
<1> DEFINE T == {n - x : x \in t}
<1>0. T # {} /\ T \subseteq Nat
  <2>1. \A x \in t : n - x \in Nat
    OBVIOUS
  <2>2. T \subseteq Nat
    BY <2>1
  <2>3. PICK x \in t : TRUE
    OBVIOUS
  <2>4. n - x \in T
    OBVIOUS
  <2> QED BY <2>2, <2>4
<1>a. \E d \in T : \A e \in T : d <= e
  <2> HIDE DEF T
  <2> QED BY <1>0, LeastNatural
<1>1. PICK d \in T : \A e \in T : d <= e
  <2> HIDE DEF T
  <2> QED BY <1>a
<1>2. PICK x \in t : d = n - x
  BY <1>1
<1>3. \A y \in t : n - x <= n - y
  BY <1>1, <1>2
<1>4. \A y \in t : x >= y
  BY <1>3
<1> DEFINE Q(z) == z \in t /\ \A y \in t : z >= y
<1>5. \E z : Q(z)
  BY <1>4
<1>6. Q(CHOOSE z : Q(z))
  BY <1>5
<1>7. Max(t) = CHOOSE z : Q(z)
  BY DEF Max
<1> QED BY <1>6, <1>7

\* The first k numbers, apart from the greatest down.
LEMMA UpTo ==
    ASSUME NEW n \in Nat, NEW k \in 1..n
    PROVE  /\ 1..k \in SUBSET (1..n) /\ 1..k # {}
           /\ Max(1..k) = k /\ (1..k) \ {k} = 1..(k - 1)
<1>1. k \in Nat /\ 1..k \in SUBSET (1..k) /\ k \in 1..k
  OBVIOUS
<1>2. Max(1..k) = k
  BY <1>1, MaxOfUpTo
<1>3. 1..k \in SUBSET (1..n) /\ 1..k # {} /\ (1..k) \ {k} = 1..(k - 1)
  OBVIOUS
<1> QED BY <1>2, <1>3

\* What holds at the start and is kept by each step holds all along.
LEMMA AllAlong ==
    ASSUME NEW n \in Nat, NEW v, NEW V, v[0] \in V,
           \A k \in 1..n : v[k - 1] \in V => v[k] \in V
    PROVE  \A k \in 0..n : v[k] \in V
<1> DEFINE S == {k \in Nat : k <= n => v[k] \in V}
<1>1. 0 \in S
  OBVIOUS
<1>2. \A k \in Nat : k \in S => k + 1 \in S
  <2> SUFFICES ASSUME NEW k \in Nat, k <= n => v[k] \in V, k + 1 <= n PROVE v[k + 1] \in V
    OBVIOUS
  <2>1. k + 1 \in 1..n /\ (k + 1) - 1 = k
    OBVIOUS
  <2> QED BY <2>1
<1>3. Nat \subseteq S
  <2> HIDE DEF S
  <2> QED BY <1>1, <1>2, NatInd
<1> QED BY <1>3

-----------------------------------------------------------------------------
(* The cues of a track, set in turn.                                       *)

LEMMA SetByTextIsAsked ==
    ASSUME NEW now \in Asked, NEW cue \in Cue PROVE SetByText(now, cue) \in Asked
BY DEF SetByText, Asked, Neutral, Cue

\* The cues from one to another, as a sequence.
LEMMA CuesBetween ==
    ASSUME NEW tr \in Seq(Cue), NEW from \in Nat, NEW to \in Nat, from <= to,
           to <= Len(tr) \/ to = from
    PROVE  /\ SubSeq(tr, from + 1, to) \in Seq(Cue)
           /\ Len(SubSeq(tr, from + 1, to)) = to - from
           /\ \A k \in 1..(to - from) : SubSeq(tr, from + 1, to)[k] = tr[from + k]
<1>1. CASE to = from
  BY <1>1
<1>2. CASE to <= Len(tr)
  BY <1>2
<1> QED BY <1>1, <1>2

\* FoldLeft over cues sets one after the other.
LEMMA FoldsInTurn ==
    ASSUME NEW now \in Asked, NEW s \in Seq(Cue)
    PROVE  \E v \in [0..Len(s) -> Asked] :
              /\ v[0] = now
              /\ \A k \in 1..Len(s) : v[k] = SetByText(v[k - 1], s[k])
              /\ FoldLeft(SetByText, now, s) = v[Len(s)]
<1> DEFINE n == Len(s)
           C(g) == g = [t \in SUBSET (DOMAIN s) |->
                          IF t = {} THEN now ELSE SetByText(g[t \ {Max(t)}], s[Max(t)])]
           F == [p \in Asked \X (1..n) |-> SetByText(p[1], s[p[2]])]
           G == CHOOSE g : C(g)
           v == [k \in 0..n |-> G[1..k]]
<1>1. n \in Nat /\ DOMAIN s = 1..n /\ \A k \in 1..n : s[k] \in Cue
  OBVIOUS
<1>2. F \in [Asked \X (1..n) -> Asked]
  BY <1>1, SetByTextIsAsked
<1>3. \E g : C(g)
  <2>0. \E g : Descends(g, Asked, n, now, F)
    <3> HIDE DEF F, n
    <3> QED BY <1>1, <1>2, RecursionExists
  <2> HIDE DEF F, n
  <2>1. PICK g : Descends(g, Asked, n, now, F)
    BY <2>0
  <2>a. /\ g \in [SUBSET (1..n) -> Asked]
        /\ \A t \in SUBSET (1..n) :
             g[t] = IF t = {} THEN now ELSE F[<<g[t \ {Max(t)}], Max(t)>>]
    BY <2>1 DEF Descends
  <2>2. ASSUME NEW t \in SUBSET (1..n), t # {}
        PROVE  g[t] = SetByText(g[t \ {Max(t)}], s[Max(t)])
    <3>1. Max(t) \in 1..n /\ t \ {Max(t)} \in SUBSET (1..n)
      BY <1>1, <2>2, MaxIsMember
    <3>2. g[t \ {Max(t)}] \in Asked
      BY <2>a, <3>1
    <3>3. F[<<g[t \ {Max(t)}], Max(t)>>] = SetByText(g[t \ {Max(t)}], s[Max(t)])
      <4> DEFINE a == g[t \ {Max(t)}]
                 m == Max(t)
      <4>1. a \in Asked /\ m \in 1..n
        BY <3>1, <3>2
      <4> HIDE DEF a, m
      <4>2. F[<<a, m>>] = SetByText(a, s[m])
        BY <4>1 DEF F
      <4> QED BY <4>2 DEF a, m
    <3> QED BY <2>a, <2>2, <3>3
  <2>3. g = [t \in SUBSET (1..n) |->
                IF t = {} THEN now ELSE SetByText(g[t \ {Max(t)}], s[Max(t)])]
    <3>1. g = [t \in SUBSET (1..n) |-> g[t]]
      BY <2>a
    <3>2. \A t \in SUBSET (1..n) :
            g[t] = IF t = {} THEN now ELSE SetByText(g[t \ {Max(t)}], s[Max(t)])
      BY <2>a, <2>2
    <3> QED BY <3>1, <3>2
  <2> QED BY <1>1, <2>3
<1>4. C(G)
  BY <1>3
<1>5. FoldLeft(SetByText, now, s) = G[DOMAIN s]
  BY DEF FoldLeft, MapThenFoldSet
<1> HIDE DEF G, n
<1>6. v[0] = now
  <2>1. 1..0 = {} /\ {} \in SUBSET (DOMAIN s)
    OBVIOUS
  <2> QED BY <1>1, <1>4, <2>1
<1>7. \A k \in 1..n : v[k] = SetByText(v[k - 1], s[k])
  <2> TAKE k \in 1..n
  <2>1. /\ 1..k \in SUBSET (DOMAIN s) /\ 1..k # {}
        /\ Max(1..k) = k /\ (1..k) \ {k} = 1..(k - 1)
    BY <1>1, UpTo
  <2>2. G[1..k] = SetByText(G[1..(k - 1)], s[k])
    BY <1>4, <2>1
  <2>3. v[k] = G[1..k] /\ v[k - 1] = G[1..(k - 1)]
    BY <1>1
  <2> QED BY <2>2, <2>3
<1>8. v[n] = G[DOMAIN s]
  BY <1>1
<1> HIDE DEF v
<1>9. \A k \in 0..n : v[k] \in Asked
  <2>1. \A k \in 1..n : v[k - 1] \in Asked => v[k] \in Asked
    BY <1>1, <1>7, SetByTextIsAsked
  <2> QED BY <1>1, <1>6, <2>1, AllAlong
<1>10. v \in [0..n -> Asked]
  BY <1>9 DEF v
<1> QED BY <1>5, <1>6, <1>7, <1>8, <1>10 DEF n

\* v holds what is on after each of the cues of tr from `from` to `to`.
CueRun(v, now, tr, from, to) ==
    /\ v \in [0..(to - from) -> Asked]
    /\ v[0] = now
    /\ \A k \in 1..(to - from) : v[k] = SetByText(v[k - 1], tr[from + k])
    /\ AfterCues(now, tr, from, to) = v[to - from]

LEMMA CuesInTurn ==
    ASSUME NEW now \in Asked, NEW tr \in Seq(Cue), NEW from \in Nat, NEW to \in Nat,
           from <= to, to <= Len(tr) \/ to = from
    PROVE  \E v : CueRun(v, now, tr, from, to)
<1> DEFINE s == SubSeq(tr, from + 1, to)
<1>1. /\ s \in Seq(Cue) /\ Len(s) = to - from
      /\ \A k \in 1..(to - from) : s[k] = tr[from + k]
  BY CuesBetween
<1>2. AfterCues(now, tr, from, to) = FoldLeft(SetByText, now, s)
  BY DEF AfterCues
<1> HIDE DEF s
<1>3. \E v \in [0..Len(s) -> Asked] :
              /\ v[0] = now
              /\ \A k \in 1..Len(s) : v[k] = SetByText(v[k - 1], s[k])
              /\ FoldLeft(SetByText, now, s) = v[Len(s)]
  BY <1>1, FoldsInTurn
<1> DEFINE n == to - from
<1>4. Len(s) = n /\ n \in Nat
  BY <1>1
<1> HIDE DEF n
<1>5. PICK v \in [0..n -> Asked] :
              /\ v[0] = now
              /\ \A k \in 1..n : v[k] = SetByText(v[k - 1], s[k])
              /\ FoldLeft(SetByText, now, s) = v[n]
  BY <1>3, <1>4
<1>6. \A k \in 1..n : v[k] = SetByText(v[k - 1], tr[from + k])
  BY <1>1, <1>5 DEF n
<1>7. AfterCues(now, tr, from, to) = v[n]
  BY <1>2, <1>5
<1> QED BY <1>5, <1>6, <1>7 DEF n, CueRun

\* Setting cues leaves an expression that was asked for; one of a text only
\* when a cue named it or it was on, and not when the last cue is a release;
\* and what the page asked for stays unless a cue names another.
LEMMA AfterCuesIs ==
    ASSUME NEW now \in Asked, NEW tr \in Seq(Cue), NEW from \in Nat, NEW to \in Nat,
           from <= to, to <= Len(tr) \/ to = from
    PROVE  /\ AfterCues(now, tr, from, to) \in Asked
           /\ to = from => AfterCues(now, tr, from, to) = now
           /\ from < to /\ tr[to].name = "neutral" => AfterCues(now, tr, from, to).source # "text"
           /\ (\A i \in (from + 1)..to : tr[i].name = "neutral") /\ now.source # "text"
                => AfterCues(now, tr, from, to) = now
<1>0. PICK v : CueRun(v, now, tr, from, to)
  BY CuesInTurn
<1>1. PICK n \in Nat : n = to - from
  OBVIOUS
<1>2. /\ v \in [0..n -> Asked]
      /\ v[0] = now
      /\ \A k \in 1..n : v[k] = SetByText(v[k - 1], tr[from + k])
      /\ AfterCues(now, tr, from, to) = v[n]
  BY <1>0, <1>1 DEF CueRun
<1>3. n \in 0..n /\ v[n] \in Asked
  BY <1>1, <1>2
<1>4. ASSUME from < to, tr[to].name = "neutral" PROVE v[n].source # "text"
  <2>1. n \in 1..n /\ n - 1 \in 0..n /\ from + n = to
    BY <1>1, <1>4
  <2>2. v[n] = SetByText(v[n - 1], tr[to])
    BY <1>2, <2>1
  <2> QED BY <1>4, <2>2 DEF SetByText, Neutral
<1>5. ASSUME \A i \in (from + 1)..to : tr[i].name = "neutral", now.source # "text"
      PROVE  v[n] = now
  <2>1. \A k \in 1..n : v[k - 1] \in {now} => v[k] \in {now}
    <3> SUFFICES ASSUME NEW k \in 1..n, v[k - 1] = now PROVE v[k] = now
      OBVIOUS
    <3>1. from + k \in (from + 1)..to
      <4>1. k \in Nat /\ 1 <= k /\ k <= n
        BY <1>1
      <4> QED BY <1>1, <4>1
    <3>2. v[k] = SetByText(now, tr[from + k]) /\ tr[from + k].name = "neutral"
      BY <1>2, <1>5, <3>1
    <3> QED BY <1>5, <3>2 DEF SetByText
  <2>2. \A k \in 0..n : v[k] \in {now}
    <3>1. v[0] \in {now}
      BY <1>2
    <3> QED BY <1>1, <2>1, <3>1, AllAlong
  <2> QED BY <1>3, <2>2
<1>6. to = from => v[n] = now
  BY <1>1, <1>2
<1> HIDE DEF AfterCues
<1> QED BY <1>2, <1>3, <1>4, <1>5, <1>6

-----------------------------------------------------------------------------
(* Walking a track, and seeking in it.                                     *)

\* How many numbers there are from one to another.
LEMMA BetweenMany ==
    ASSUME NEW a \in Nat, NEW b \in Nat, a <= b
    PROVE  Cardinality((a + 1)..b) = b - a
<1>1. Cardinality((a + 1)..b) = IF a + 1 > b THEN 0 ELSE b - (a + 1) + 1
  BY FS_Interval
<1> QED BY <1>1

LEMMA CueIs ==
    ASSUME NEW tr \in Seq(Cue), NEW i \in 1..Len(tr)
    PROVE  tr[i] \in Cue /\ tr[i].t \in Nat
<1>1. tr[i] \in Cue
  OBVIOUS
<1> QED BY <1>1 DEF Cue

\* A walk takes the cues due, one after the other, and stops before the first
\* that is not.
LEMMA WalkedIs ==
    ASSUME NEW tr \in Seq(Cue), NEW from \in Nat, NEW t \in Nat
    PROVE  LET m == WalkedBy(tr, from, t)
           IN /\ m \in Nat /\ from <= m /\ (m <= Len(tr) \/ m = from)
              /\ m < Len(tr) => tr[m + 1].t > t
<1> DEFINE n == Len(tr)
           S == {i \in (from + 1)..n : \A j \in (from + 1)..i : tr[j].t <= t}
           late == {i \in (from + 1)..n : tr[i].t > t}
<1>0. n \in Nat /\ WalkedBy(tr, from, t) = from + Cardinality(S)
  BY DEF WalkedBy
<1>1. \A i \in (from + 1)..n : i \in 1..n /\ tr[i].t \in Nat
  BY CueIs
<1>2. CASE n <= from
  <2>1. S = {}
    BY <1>0, <1>2
  <2>2. Cardinality(S) = 0
    BY <2>1, FS_EmptySet
  <2> HIDE DEF S, n
  <2> QED BY <1>0, <1>2, <2>2 DEF n
<1>3. CASE from < n /\ late = {}
  <2>1. \A i \in (from + 1)..n : tr[i].t <= t
    BY <1>1, <1>3
  <2>2. S = (from + 1)..n
    <3>1. \A i \in (from + 1)..n : \A j \in (from + 1)..i : j \in (from + 1)..n
      BY <1>0
    <3> QED BY <2>1, <3>1
  <2>3. Cardinality(S) = n - from
    <3> HIDE DEF S, n, late
    <3> QED BY <1>0, <1>3, <2>2, BetweenMany
  <2> HIDE DEF S, n
  <2> QED BY <1>0, <1>3, <2>3 DEF n
<1>4. CASE from < n /\ late # {}
  <2>0. late \subseteq Nat
    BY <1>0
  <2>1. \E x \in late : \A y \in late : x <= y
    <3> HIDE DEF late
    <3> QED BY <1>4, <2>0, LeastNatural
  <2>2. PICK x \in late : \A y \in late : x <= y
    BY <2>1
  <2>3. x \in (from + 1)..n /\ tr[x].t > t /\ x - 1 \in Nat /\ from <= x - 1 /\ x - 1 < n
    BY <1>0
  <2>4. \A j \in (from + 1)..(x - 1) : tr[j].t <= t
    <3> SUFFICES ASSUME NEW j \in (from + 1)..(x - 1), ~(tr[j].t <= t) PROVE FALSE
      OBVIOUS
    <3>1. j \in (from + 1)..n /\ j < x
      BY <1>0, <2>3
    <3>2. j \in late
      BY <1>1, <3>1
    <3> QED BY <2>2, <2>3, <3>1, <3>2
  <2>5. S = (from + 1)..(x - 1)
    <3>1. ASSUME NEW i \in S PROVE i \in (from + 1)..(x - 1)
      <4>1. i \in (from + 1)..n /\ \A j \in (from + 1)..i : tr[j].t <= t
        OBVIOUS
      <4>2. ~(x <= i)
        <5> SUFFICES ASSUME x <= i PROVE FALSE
          OBVIOUS
        <5>1. x \in (from + 1)..i
          BY <1>0, <2>3, <4>1
        <5> QED BY <1>1, <2>3, <4>1, <5>1
      <4> QED BY <1>0, <2>3, <4>1, <4>2
    <3>2. ASSUME NEW i \in (from + 1)..(x - 1) PROVE i \in S
      <4>1. i \in (from + 1)..n /\ \A j \in (from + 1)..i : j \in (from + 1)..(x - 1)
        BY <1>0, <2>3
      <4> QED BY <2>4, <4>1
    <3> HIDE DEF S
    <3> QED BY <3>1, <3>2
  <2>6. Cardinality(S) = (x - 1) - from
    BY <2>3, <2>5, BetweenMany
  <2>7. WalkedBy(tr, from, t) = x - 1
    <3> HIDE DEF S
    <3> QED BY <1>0, <2>3, <2>6
  <2>8. (x - 1) + 1 = x
    BY <2>3
  <2> QED BY <2>3, <2>7, <2>8
<1> QED BY <1>0, <1>2, <1>3, <1>4

\* A walk to the end of a recording takes every cue that is left.
LEMMA WalkedToEnd ==
    ASSUME NEW tr \in Seq(Cue), NEW from \in 0..Len(tr), NEW t \in Nat,
           \A i \in 1..Len(tr) : tr[i].t <= t
    PROVE  WalkedBy(tr, from, t) = Len(tr)
<1> DEFINE m == WalkedBy(tr, from, t)
<1>0. Len(tr) \in Nat /\ from \in Nat /\ from <= Len(tr)
  OBVIOUS
<1>1. m \in Nat /\ m <= Len(tr) /\ (m < Len(tr) => tr[m + 1].t > t)
  BY <1>0, WalkedIs
<1> HIDE DEF m
<1>2. ~(m < Len(tr))
  <2> SUFFICES ASSUME m < Len(tr) PROVE FALSE
    OBVIOUS
  <2>1. m + 1 \in 1..Len(tr)
    BY <1>0, <1>1
  <2> QED BY <1>1, <2>1, CueIs
<1> QED BY <1>0, <1>1, <1>2 DEF m

\* Seeking stops before the first cue later than the time.
LEMMA SoughtIs ==
    ASSUME NEW tr \in Seq(Cue), NEW t \in Nat
    PROVE  /\ SoughtTo(tr, t) \in 0..Len(tr)
           /\ (\E i \in 1..Len(tr) : tr[i].t > t) => SoughtTo(tr, t) < Len(tr)
<1> DEFINE later == {i \in 1..Len(tr) : tr[i].t > t}
           Q(i) == i \in later /\ \A j \in later : i <= j
<1>1. CASE later = {}
  BY <1>1 DEF SoughtTo
<1>2. CASE later # {}
  <2>1. \E x \in later : \A y \in later : x <= y
    <3>1. later \subseteq Nat
      OBVIOUS
    <3> HIDE DEF later
    <3> QED BY <1>2, <3>1, LeastNatural
  <2>2. \E x : Q(x)
    BY <2>1
  <2>3. Q(CHOOSE x : Q(x))
    BY <2>2
  <2>4. SoughtTo(tr, t) = (CHOOSE x : Q(x)) - 1
    BY <1>2 DEF SoughtTo
  <2>5. (CHOOSE x : Q(x)) \in 1..Len(tr)
    BY <2>3
  <2> HIDE DEF Q
  <2> QED BY <2>4, <2>5
<1> QED BY <1>1, <1>2

-----------------------------------------------------------------------------
(* The voices in flight.                                                   *)

\* What the engine holds is being played.
HeldPlays == currentAudio \in Elements => element[currentAudio] \in {"asked", "heard"}

Voices == element \in [Elements -> ElementStates] /\ OneVoice /\ HeldPlays

\* Elements over stay over, and those not begun stay so.
Begun(e) == element[e] # "none"
IsOver(e) == element[e] \in {"ended", "failed"}
SteadyBut(S) == \A e \in Elements \ S : (IsOver(e) => IsOver(e)') /\ (~Begun(e) => ~Begun(e)')
Steady == SteadyBut({})

LEMMA NoVoiceAtFirst == EngineInit => Voices
<1> SUFFICES ASSUME EngineInit PROVE Voices
  OBVIOUS
<1> QED BY EngineAssumption DEF EngineInit, Voices, OneVoice, HeldPlays, ElementStates

\* Silencing cuts the one voice there is, and touches no other element.
LEMMA SilencedIsQuiet ==
    ASSUME Voices
    PROVE  /\ Silenced \in [Elements -> ElementStates]
           /\ \A e \in Elements : /\ Silenced[e] \notin {"asked", "heard"}
                                  /\ Silenced[e] # element[e] =>
                                        element[e] \in {"asked", "heard"} /\ Silenced[e] = "cut"
<1>1. CASE currentAudio = None
  BY <1>1, EngineAssumption DEF Silenced, Voices, OneVoice
<1>2. CASE currentAudio # None
  <2>1. Silenced = [element EXCEPT ![currentAudio] = "cut"]
    BY <1>2 DEF Silenced
  <2> QED BY <2>1 DEF Voices, OneVoice, HeldPlays, ElementStates
<1> QED BY <1>1, <1>2

LEMMA StoppingIsSteady ==
    ASSUME Voices, StopAudio
    PROVE  /\ Voices' /\ Steady /\ currentAudio' = None
           /\ \A e \in Elements : element'[e] \notin {"asked", "heard"}
<1>1. element' = Silenced /\ currentAudio' = None
  BY DEF StopAudio
<1>2. /\ element' \in [Elements -> ElementStates]
      /\ \A e \in Elements : /\ element'[e] \notin {"asked", "heard"}
                             /\ element'[e] # element[e] =>
                                   element[e] \in {"asked", "heard"} /\ element'[e] = "cut"
  BY <1>1, SilencedIsQuiet
<1>3. Steady
  BY <1>2 DEF Steady, SteadyBut, IsOver, Begun
<1>4. OneVoice' /\ HeldPlays'
  BY <1>1, <1>2, EngineAssumption DEF OneVoice, HeldPlays
<1> QED BY <1>1, <1>2, <1>3, <1>4 DEF Voices

LEMMA PlayingIsSteady ==
    ASSUME Voices, NEW e, NEW tr, NEW on, PlayShowing(e, tr, on)
    PROVE  /\ Voices' /\ SteadyBut({e}) /\ currentAudio' = e /\ onAudioEnd' = e
           /\ e \in Elements => element'[e] = "asked"
<1>1. element' = [Silenced EXCEPT ![e] = "asked"] /\ currentAudio' = e /\ onAudioEnd' = e
  BY DEF PlayShowing
<1>2. /\ Silenced \in [Elements -> ElementStates]
      /\ \A x \in Elements : /\ Silenced[x] \notin {"asked", "heard"}
                             /\ Silenced[x] # element[x] =>
                                   element[x] \in {"asked", "heard"} /\ Silenced[x] = "cut"
  BY SilencedIsQuiet
<1>3. /\ element' \in [Elements -> ElementStates]
      /\ \A x \in Elements : /\ x # e => element'[x] = Silenced[x]
                             /\ x = e => element'[x] = "asked"
  BY <1>1, <1>2 DEF ElementStates
<1>4. SteadyBut({e})
  BY <1>2, <1>3 DEF SteadyBut, IsOver, Begun
<1>5. OneVoice' /\ HeldPlays'
  BY <1>1, <1>2, <1>3 DEF OneVoice, HeldPlays
<1> QED BY <1>1, <1>3, <1>4, <1>5 DEF Voices

LEMMA EndingIsSteady ==
    ASSUME Voices, NEW e \in Elements, NEW how \in {"ended", "failed"},
           MayTell(e, how), OnEnded(e, how)
    PROVE  /\ Voices' /\ Steady /\ element' = [element EXCEPT ![e] = how]
           /\ element[e] \in {"asked", "heard", "cut"} /\ IsOver(e)'
           /\ currentAudio' = (IF e = currentAudio THEN None ELSE currentAudio)
           /\ onAudioEnd' = (IF e = currentAudio THEN None ELSE onAudioEnd)
<1>1. /\ element[e] \in {"asked", "heard", "cut"} /\ element' = [element EXCEPT ![e] = how]
      /\ currentAudio' = (IF e = currentAudio THEN None ELSE currentAudio)
      /\ onAudioEnd' = (IF e = currentAudio THEN None ELSE onAudioEnd)
  BY DEF MayTell, OnEnded, IsCurrent, FinishSpeech
<1>2. /\ element' \in [Elements -> ElementStates] /\ element'[e] = how
      /\ \A x \in Elements \ {e} : element'[x] = element[x]
  BY <1>1 DEF Voices, ElementStates
<1>3. Steady
  BY <1>1, <1>2 DEF Steady, SteadyBut, IsOver, Begun
<1>4. OneVoice' /\ HeldPlays'
  BY <1>1, <1>2, EngineAssumption DEF Voices, OneVoice, HeldPlays
<1> QED BY <1>1, <1>2, <1>3, <1>4 DEF Voices, IsOver

\* What the browser and the page do begins and ends no voice.
LEMMA MovingIsSteady ==
    ASSUME Voices, EngineMoves \/ FrameClock
    PROVE  /\ Voices' /\ Steady /\ UNCHANGED <<currentAudio, onAudioEnd, speaking>>
           /\ \A e \in Elements : element'[e] \in {"asked", "heard"} <=>
                                     element[e] \in {"asked", "heard"}
<1>1. UNCHANGED <<currentAudio, onAudioEnd, speaking>>
  BY DEF EngineMoves, FrameClock, Frame, Heard, Advance, TimePasses, Express, voiceVars, faceVars
<1>2. /\ element' \in [Elements -> ElementStates]
      /\ \A x \in Elements : \/ element'[x] = element[x]
                             \/ element[x] = "asked" /\ element'[x] = "heard"
  <2>1. CASE \E e \in Elements : Heard(e)
    BY <2>1 DEF Heard, Voices, ElementStates
  <2>2. CASE element' = element
    BY <2>2 DEF Voices
  <2> QED BY <2>1, <2>2 DEF EngineMoves, FrameClock, Frame, Advance, TimePasses, Express, voiceVars
<1>3. Steady
  BY <1>2 DEF Steady, SteadyBut, IsOver, Begun
<1>4. OneVoice' /\ HeldPlays'
  BY <1>1, <1>2 DEF Voices, OneVoice, HeldPlays
<1> QED BY <1>1, <1>2, <1>3, <1>4 DEF Voices

-----------------------------------------------------------------------------
(* What its callers may do to an engine.                                   *)

\* What the page, a queue, a browser's voice or a stream ask of it, and the
\* events of its elements: the moves of the browser and of the page besides.
OpensAt(tr, t) ==
    /\ speaking' = TRUE
    /\ UNCHANGED voiceVars \/ StopAudio
    /\ cueTime' = t
    /\ track' = tr
    /\ nextCue' = SoughtTo(tr, t)
    /\ UNCHANGED asked

EngineCall ==
    \/ UNCHANGED engineVars
    \/ StopSpeech
    \/ \E e \in Elements, tr \in Seq(Cue), on \in {asked, ReleasedText} : PlayShowing(e, tr, on)
    \/ \E tr \in Seq(Cue) : PlayCues(tr)
    \/ \E e \in Elements, how \in {"ended", "failed"} : OnEnded(e, how)
    \/ \E t \in Nat : SyncCueTime(t) /\ UNCHANGED voiceVars
    \/ \E tr \in Seq(Cue), t \in Nat : OpensAt(tr, t)

VoiceTyped ==
    /\ element \in [Elements -> ElementStates]
    /\ currentAudio \in Elements \cup {None}
    /\ onAudioEnd \in Elements \cup {None}

FaceTyped ==
    /\ speaking \in BOOLEAN
    /\ cueTime \in Nat
    /\ track \in Seq(Cue)
    /\ nextCue \in Nat
    /\ asked \in Asked

LEMMA EngineTypes == EngineTypeOK <=> VoiceTyped /\ FaceTyped
BY DEF EngineTypeOK, VoiceTyped, FaceTyped

LEMMA StopAudioTyped ==
    ASSUME VoiceTyped, StopAudio
    PROVE  VoiceTyped'
BY DEF VoiceTyped, StopAudio, Silenced, ElementStates

LEMMA SoughtTyped ==
    ASSUME NEW tr \in Seq(Cue), NEW t \in Nat
    PROVE  SoughtTo(tr, t) \in Nat
<1>1. SoughtTo(tr, t) \in 0..Len(tr)
  BY SoughtIs
<1> QED BY <1>1

\* The walk from where the track was walked.
LEMMA WalkTyped ==
    ASSUME FaceTyped, NEW t \in Nat, Walk(t)
    PROVE  /\ nextCue' \in Nat /\ nextCue <= nextCue' /\ asked' \in Asked
           /\ nextCue' <= Len(track) \/ nextCue' = nextCue
           /\ nextCue' = WalkedBy(track, nextCue, t)
           /\ nextCue' = nextCue => asked' = asked
           /\ nextCue < nextCue' /\ track[nextCue'].name = "neutral" => asked'.source # "text"
           /\ (\A i \in (nextCue + 1)..nextCue' : track[i].name = "neutral") /\ asked.source # "text"
                => asked' = asked
<1>1. track \in Seq(Cue) /\ nextCue \in Nat /\ asked \in Asked
  BY DEF FaceTyped
<1> DEFINE to == WalkedBy(track, nextCue, t)
<1>2. to \in Nat /\ nextCue <= to /\ (to <= Len(track) \/ to = nextCue)
  BY <1>1, WalkedIs
<1>3. nextCue' = to /\ asked' = AfterCues(asked, track, nextCue, to)
  BY DEF Walk
<1> HIDE DEF to
<1>4. /\ AfterCues(asked, track, nextCue, to) \in Asked
      /\ to = nextCue => AfterCues(asked, track, nextCue, to) = asked
      /\ nextCue < to /\ track[to].name = "neutral"
            => AfterCues(asked, track, nextCue, to).source # "text"
      /\ (\A i \in (nextCue + 1)..to : track[i].name = "neutral") /\ asked.source # "text"
            => AfterCues(asked, track, nextCue, to) = asked
  BY <1>1, <1>2, AfterCuesIs
<1>5. nextCue' = WalkedBy(track, nextCue, t)
  BY <1>3 DEF to
<1> QED BY <1>2, <1>3, <1>4, <1>5

LEMMA EngineTypedAtFirst == ASSUME EngineInit PROVE EngineTypeOK
<1>1. Neutral \in Asked /\ <<>> \in Seq(Cue)
  BY DEF Asked
<1>2. element \in [Elements -> ElementStates]
  BY DEF EngineInit, ElementStates
<1> QED BY <1>1, <1>2 DEF EngineInit, EngineTypeOK

LEMMA EngineMovesTyped ==
    ASSUME EngineTypeOK, EngineMoves \/ FrameClock
    PROVE  EngineTypeOK'
<1>0. VoiceTyped /\ FaceTyped
  BY EngineTypes
<1>1. CASE Frame
  <2>1. Walk(cueTime) /\ UNCHANGED <<element, currentAudio, onAudioEnd, speaking, cueTime, track>>
    BY <1>1 DEF Frame, voiceVars
  <2>2. nextCue' \in Nat /\ asked' \in Asked
    BY <1>0, <2>1, WalkTyped DEF FaceTyped
  <2>3. FaceTyped'
    BY <1>0, <2>1, <2>2 DEF FaceTyped
  <2>4. VoiceTyped'
    BY <1>0, <2>1 DEF VoiceTyped
  <2> QED BY <2>3, <2>4 DEF EngineTypeOK, VoiceTyped, FaceTyped
<1>2. ASSUME NEW e \in Elements, Heard(e) PROVE EngineTypeOK'
  BY <1>2 DEF EngineTypeOK, Heard, faceVars, ElementStates
<1>3. CASE TimePasses
  BY <1>3 DEF EngineTypeOK, TimePasses, voiceVars
<1>4. ASSUME NEW name \in Names \cup {"neutral"}, Express(name) PROVE EngineTypeOK'
  <2>1. asked' \in Asked
    BY <1>4 DEF Express, Asked
  <2> QED BY <1>4, <2>1 DEF EngineTypeOK, Express, voiceVars
<1> QED BY <1>1, <1>2, <1>3, <1>4 DEF EngineMoves, FrameClock, Advance

LEMMA EngineCallTyped ==
    ASSUME EngineTypeOK, EngineCall
    PROVE  EngineTypeOK'
<1>0. VoiceTyped /\ FaceTyped
  BY EngineTypes
<1>a. ASSUME VoiceTyped', FaceTyped' PROVE EngineTypeOK'
  BY <1>a DEF EngineTypeOK, VoiceTyped, FaceTyped
<1>1. CASE UNCHANGED engineVars
  BY <1>1 DEF engineVars, EngineTypeOK
<1>2. CASE StopSpeech
  <2>1. VoiceTyped'
    BY <1>0, <1>2, StopAudioTyped DEF StopSpeech
  <2>2. asked' \in Asked
    BY <1>0, <1>2 DEF StopSpeech, ReleasedText, FaceTyped, Asked
  <2>3. FaceTyped'
    <3>1. track' = <<>> /\ <<>> \in Seq(Cue) /\ speaking' = FALSE /\ UNCHANGED <<cueTime, nextCue>>
      BY <1>2 DEF StopSpeech
    <3> QED BY <1>0, <2>2, <3>1 DEF FaceTyped
  <2> QED BY <1>a, <2>1, <2>3
<1>3. ASSUME NEW e \in Elements, NEW tr \in Seq(Cue), NEW on \in {asked, ReleasedText},
             PlayShowing(e, tr, on)
      PROVE  EngineTypeOK'
  <2>1. VoiceTyped'
    BY <1>0, <1>3 DEF PlayShowing, VoiceTyped, Silenced, ElementStates
  <2>2. on \in Asked
    BY <1>0 DEF ReleasedText, FaceTyped, Asked
  <2>3. FaceTyped'
    BY <1>0, <1>3, <2>2, SoughtTyped DEF PlayShowing, Begin, FaceTyped
  <2> QED BY <1>a, <2>1, <2>3
<1>4. ASSUME NEW tr \in Seq(Cue), PlayCues(tr) PROVE EngineTypeOK'
  <2>1. VoiceTyped'
    BY <1>0, <1>4, StopAudioTyped DEF PlayCues
  <2>2. FaceTyped'
    BY <1>0, <1>4, SoughtTyped DEF PlayCues, Begin, FaceTyped
  <2> QED BY <1>a, <2>1, <2>2
<1>5. ASSUME NEW e \in Elements, NEW how \in {"ended", "failed"}, OnEnded(e, how)
      PROVE  EngineTypeOK'
  <2>1. VoiceTyped'
    BY <1>0, <1>5 DEF OnEnded, FinishSpeech, VoiceTyped, ElementStates
  <2>2. CASE IsCurrent(e)
    <3>1. Walk(Duration) /\ speaking' = FALSE /\ UNCHANGED <<cueTime, track>>
      BY <1>5, <2>2 DEF OnEnded, FinishSpeech
    <3>2. Duration \in Nat
      BY EngineAssumption
    <3>3. nextCue' \in Nat /\ asked' \in Asked
      BY <1>0, <3>1, <3>2, WalkTyped
    <3>4. FaceTyped'
      BY <1>0, <3>1, <3>3 DEF FaceTyped
    <3> QED BY <1>a, <2>1, <3>4
  <2>3. CASE ~IsCurrent(e)
    <3>1. FaceTyped'
      BY <1>0, <1>5, <2>3 DEF OnEnded, FaceTyped, faceVars
    <3> QED BY <1>a, <2>1, <3>1
  <2> QED BY <2>2, <2>3
<1>6. ASSUME NEW t \in Nat, SyncCueTime(t), UNCHANGED voiceVars PROVE EngineTypeOK'
  <2>1. VoiceTyped'
    BY <1>0, <1>6 DEF VoiceTyped, voiceVars
  <2>2. SoughtTo(track, t) \in Nat
    BY <1>0, SoughtTyped DEF FaceTyped
  <2>3. FaceTyped'
    BY <1>0, <1>6, <2>2 DEF SyncCueTime, Seek, FaceTyped
  <2> QED BY <1>a, <2>1, <2>3
<1>7. ASSUME NEW tr \in Seq(Cue), NEW t \in Nat, OpensAt(tr, t) PROVE EngineTypeOK'
  <2>1. VoiceTyped'
    BY <1>0, <1>7, StopAudioTyped DEF OpensAt, VoiceTyped, voiceVars
  <2>2. FaceTyped'
    BY <1>0, <1>7, SoughtTyped DEF OpensAt, FaceTyped
  <2> QED BY <1>a, <2>1, <2>2
<1> QED BY <1>1, <1>2, <1>3, <1>4, <1>5, <1>6, <1>7 DEF EngineCall

\* A call takes what the page expressed from the face only by a cue that names
\* an expression.
LEMMA CallsLeaveThePage ==
    ASSUME EngineTypeOK, EngineCall \/ Frame \/ (\E e \in Elements : Heard(e) \/ Advance(e)) \/ FrameClock,
           asked.source = "api", asked' = Neutral
    PROVE  \E i \in (nextCue + 1)..nextCue' : track[i].name # "neutral"
<1>0. FaceTyped /\ asked' # asked
  BY EngineTypes DEF Neutral
<1>1. ASSUME NEW t \in Nat, Walk(t)
      PROVE  \E i \in (nextCue + 1)..nextCue' : track[i].name # "neutral"
  BY <1>0, <1>1, WalkTyped
<1>2. CASE Frame
  <2>1. cueTime \in Nat /\ Walk(cueTime)
    BY <1>0, <1>2 DEF FaceTyped, Frame
  <2> QED BY <1>1, <2>1
<1>3. ASSUME NEW e \in Elements, NEW how \in {"ended", "failed"}, OnEnded(e, how)
      PROVE  \E i \in (nextCue + 1)..nextCue' : track[i].name # "neutral"
  <2>1. IsCurrent(e)
    BY <1>0, <1>3 DEF OnEnded, faceVars
  <2>2. Walk(Duration) /\ Duration \in Nat
    BY <1>3, <2>1, EngineAssumption DEF OnEnded, FinishSpeech
  <2> QED BY <1>1, <2>2
<1>4. ~StopSpeech
  BY <1>0 DEF StopSpeech, ReleasedText
<1> QED BY <1>0, <1>2, <1>3, <1>4
     DEF EngineCall, PlayShowing, PlayCues, Begin, ReleasedText, SyncCueTime, OpensAt, Heard, Advance, TimePasses,
         FrameClock, engineVars, faceVars

=============================================================================
