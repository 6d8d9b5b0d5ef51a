------------------------ MODULE PositionMirror_proofs ------------------------
(***************************************************************************)
(* What is proved of PositionMirror, for any strikes, expiries, lots,      *)
(* events and troubles: a freeze stands until its diff is resolved, a heal *)
(* keeps what the broker confirms, the mirror booked in date order is what *)
(* the replay of the log gives, and a log that holds what happened replays *)
(* to what the broker holds while a closed position holds nothing.         *)
(*                                                                         *)
(* The replays fold over the log in date order and a close folds over the  *)
(* legs: the first part gives both their recursion, one entry at a time.   *)
(* BookOK and Frozen are the types of what every step writes and where a   *)
(* freeze comes from.  For the mirror, Along says which writes of a trade  *)
(* are still to come and that the log before them is mirrored (Follows);   *)
(* with it goes Covered, that the broker never bought back what was not    *)
(* sold, because a buy-back of a leg the mirror does not hold would take   *)
(* another leg of the strike (Advance).                                    *)
(*                                                                         *)
(* For the truth of the log, Account says what the broker holds is what    *)
(* its history adds up to, that the lots cover what is due on every day,   *)
(* and when each event was; Kept, where every entry of the log and every   *)
(* entry still to be written comes from.  Facts puts both together for a   *)
(* true log.  A replay in date order never goes below nothing on any part  *)
(* of the log that is closed downwards (LotsFit, CallsFit), so it is the   *)
(* sum of what the entries add and take (LotsSum, CallsSum), whatever the  *)
(* order of one moment.                                                    *)
(***************************************************************************)
EXTENDS PositionMirror, FiniteSetTheorems, SequenceTheorems, WellFoundedInduction, TLAPS

-----------------------------------------------------------------------------
(* Replays and removals are folds.  This is what they are of a log l and of *)
(* a sequence of legs, and the one recursion behind both: k says which, and *)
(* a removal takes the first w.n legs in w.legs.                            *)

After(l, j, k) == l[j].day < l[k].day \/ (l[j].day = l[k].day /\ j < k)
LastOf(l, ks) == CHOOSE k \in ks : \A j \in ks \ {k} : After(l, j, k)
Standing(l) == {k \in DOMAIN l : ~l[k].void}
Lots(l) ==
  MapThenFoldSet(LAMBDA e, acc : ReplayLot(acc, e), 0, LAMBDA k : l[k], LAMBDA ks : LastOf(l, ks),
                 Standing(l))
Calls(l) ==
  MapThenFoldSet(LAMBDA e, acc : ReplayCall(acc, e), << >>, LAMBDA k : l[k], LAMBDA ks : LastOf(l, ks),
                 Standing(l))

LEMMA ReplayIs ==
  /\ replay_shares_from_log = Lots(log) /\ replay_short_calls = Calls(log)
  /\ replay_shares_from_log' = Lots(log') /\ replay_short_calls' = Calls(log')
BY DEF replay_shares_from_log, replay_short_calls, InDateOrder, Lots, Calls, Latest, LastOf, After,
       _history_order_key, derived_executions, Standing, MapThenFoldSet

Taking(acc, leg, w) ==
  IF acc.remaining > 0 /\ leg \in w.legs THEN [acc EXCEPT !.remaining = @ - 1]
                                          ELSE [acc EXCEPT !.kept = Append(@, leg)]
Top(k, l, ks) == IF k = "legs" THEN CHOOSE x \in ks : \A y \in ks : x >= y ELSE LastOf(l, ks)
Base(k, w) == IF k = "legs" THEN [kept |-> << >>, remaining |-> w.n] ELSE IF k = "lots" THEN 0 ELSE << >>
Step(k, w, acc, x) ==
  IF k = "legs" THEN Taking(acc, x, w) ELSE IF k = "lots" THEN ReplayLot(acc, x) ELSE ReplayCall(acc, x)

Undone(g, k, w, l, ks) ==
  IF ks = {} THEN Base(k, w) ELSE Step(k, w, g[ks \ {Top(k, l, ks)}], l[Top(k, l, ks)])
Folds(g, k, w, l, S) == g = [ks \in SUBSET S |-> Undone(g, k, w, l, ks)]

-----------------------------------------------------------------------------

\* A set of naturals that is not empty has a least member.
LEMMA Smallest == ASSUME NEW T \in SUBSET Nat, T # {} PROVE \E n \in T : \A m \in T : n <= m
<1> DEFINE R == OpToRel(<, Nat)
<1>1. IsWellFoundedOn(R, Nat)
  BY NatLessThanWellFounded
<1> HIDE DEF R
<1>2. PICK n \in T : \A m \in T : ~(<<m, n>> \in R)
  BY <1>1, WFMin
<1>3. \A m \in T : ~(m < n)
  BY <1>2 DEF R, OpToRel
<1> QED
  BY <1>2, <1>3

\* What holds of 0 and goes on from each number to the next holds up to n.
LEMMA UpTo ==
  ASSUME NEW n \in Nat, NEW Bad \in SUBSET (0..n), 0 \notin Bad,
         \A m \in 0..n - 1 : m \notin Bad => m + 1 \notin Bad
  PROVE  Bad = {}
<1> SUFFICES ASSUME Bad # {} PROVE FALSE
  OBVIOUS
<1>1. PICK k \in Bad : \A m \in Bad : k <= m
  <2>1. Bad \in SUBSET Nat
    OBVIOUS
  <2> QED
    BY <2>1, Smallest
<1>2. k - 1 \in 0..n - 1 /\ k - 1 \notin Bad /\ (k - 1) + 1 = k
  BY <1>1
<1> QED
  BY <1>1, <1>2

\* A log, or a sequence of legs, that can be ordered.
Ordered(k, l, n) == n \in Nat /\ (k # "legs" => \A i \in 1..n : l[i].day \in Nat)
Precedes(k, l, i, j) == IF k = "legs" THEN i < j ELSE After(l, i, j)

LEMMA LastExists ==
  ASSUME NEW k, NEW l, NEW n, Ordered(k, l, n), NEW S \in SUBSET (1..n), S # {}
  PROVE  \E x \in S : \A y \in S \ {x} : Precedes(k, l, y, x)
<1> DEFINE Bad == {m \in 0..n : \E T \in SUBSET (1..m) :
                     T # {} /\ ~\E x \in T : \A y \in T \ {x} : Precedes(k, l, y, x)}
<1>1. 0 \notin Bad
  <2>1. 1..0 = {}
    OBVIOUS
  <2> QED
    BY <2>1
<1>2. ASSUME NEW m \in 0..n - 1, m \notin Bad PROVE m + 1 \notin Bad
  <2> SUFFICES ASSUME NEW T \in SUBSET (1..m + 1), T # {}
               PROVE  \E x \in T : \A y \in T \ {x} : Precedes(k, l, y, x)
    OBVIOUS
  <2>0. m \in Nat /\ m \in 0..n /\ n \in Nat /\ m + 1 <= n
    BY DEF Ordered
  <2>1. \A U \in SUBSET (1..m) : U # {} => \E x \in U : \A y \in U \ {x} : Precedes(k, l, y, x)
    BY <1>2, <2>0
  <2> DEFINE U == T \ {m + 1}
  <2>2. U \in SUBSET (1..m)
    <3>1. \A x \in U : x \in Nat /\ 1 <= x /\ x <= m + 1 /\ x # m + 1
      BY <2>0
    <3>2. \A x \in U : x \in 1..m
      BY <2>0, <3>1
    <3> QED
      BY <3>2
  <2>3. CASE m + 1 \notin T
    BY <2>1, <2>2, <2>3
  <2>4. CASE U = {}
    BY <2>4
  <2>5. CASE m + 1 \in T /\ U # {}
    <3>1. PICK x \in U : \A y \in U \ {x} : Precedes(k, l, y, x)
      BY <2>1, <2>2, <2>5
    <3>2. \A y \in U : y \in Nat /\ y < m + 1 /\ (k # "legs" => l[y].day \in Nat /\ l[m + 1].day \in Nat)
      <4>1. \A y \in U : y \in 1..n /\ y \in Nat /\ y < m + 1
        BY <2>0, <2>2
      <4>2. m + 1 \in 1..n
        BY <2>0
      <4> QED
        BY <4>1, <4>2 DEF Ordered
    <3>3. CASE Precedes(k, l, m + 1, x)
      BY <2>5, <3>1, <3>3
    <3>4. CASE ~Precedes(k, l, m + 1, x)
      <4>1. ASSUME NEW y \in U PROVE Precedes(k, l, y, m + 1)
        <5>1. y = x \/ Precedes(k, l, y, x)
          BY <3>1
        <5>2. x \in Nat /\ y \in Nat /\ x < m + 1 /\ y < m + 1
          BY <3>2
        <5>3. CASE k = "legs"
          BY <5>2, <5>3 DEF Precedes
        <5>4. CASE k # "legs"
          <6> DEFINE a == l[x].day  b == l[y].day  c == l[m + 1].day
          <6>1. a \in Nat /\ b \in Nat /\ c \in Nat
            BY <3>2, <5>4
          <6>2. ~(c < a \/ (c = a /\ m + 1 < x))
            BY <3>4, <5>4 DEF Precedes, After
          <6>3. y = x \/ b < a \/ (b = a /\ y < x)
            BY <5>1, <5>4 DEF Precedes, After
          <6>4. y = x => b = a
            OBVIOUS
          <6> HIDE DEF a, b, c
          <6>5. b < c \/ (b = c /\ y < m + 1)
            BY <5>2, <6>1, <6>2, <6>3, <6>4
          <6> QED
            BY <5>4, <6>5 DEF Precedes, After, b, c
        <5> QED
          BY <5>3, <5>4
      <4> QED
        BY <2>5, <4>1
    <3> QED
      BY <3>3, <3>4
  <2> QED
    BY <2>3, <2>4, <2>5
<1>3. Bad \in SUBSET (0..n) /\ n \in Nat
  BY DEF Ordered
<1> HIDE DEF Bad
<1>4. Bad = {}
  BY <1>1, <1>2, <1>3, UpTo
<1> QED
  BY <1>3, <1>4 DEF Bad

LEMMA TopIs ==
  ASSUME NEW k, NEW l, NEW n, Ordered(k, l, n), NEW S \in SUBSET (1..n), S # {}
  PROVE  Top(k, l, S) \in S /\ \A y \in S \ {Top(k, l, S)} : Precedes(k, l, y, Top(k, l, S))
<1>1. PICK x \in S : \A y \in S \ {x} : Precedes(k, l, y, x)
  BY LastExists
<1>2. \A y \in S : y \in Nat
  BY DEF Ordered
<1>3. CASE k = "legs"
  <2>1. \A y \in S : x >= y
    BY <1>1, <1>2, <1>3 DEF Precedes
  <2>2. Top(k, l, S) \in S /\ \A y \in S : Top(k, l, S) >= y
    BY <1>3, <2>1 DEF Top
  <2>3. \A t \in S : (\A y \in S : t >= y) => \A y \in S \ {t} : y < t
    BY <1>2
  <2> QED
    BY <1>3, <2>2, <2>3 DEF Precedes
<1>4. CASE k # "legs"
  BY <1>1, <1>4 DEF Top, LastOf, Precedes
<1> QED
  BY <1>3, <1>4

\* Taking the last one away leaves a set with one member less.
LEMMA Fewer ==
  ASSUME NEW k, NEW l, NEW n, Ordered(k, l, n), NEW S \in SUBSET (1..n), S # {}
  PROVE  /\ S \ {Top(k, l, S)} \in SUBSET (1..n) /\ IsFiniteSet(S)
         /\ Cardinality(S) \in Nat /\ Cardinality(S) >= 1
         /\ Cardinality(S \ {Top(k, l, S)}) = Cardinality(S) - 1
<1>1. IsFiniteSet(1..n)
  BY FS_Interval DEF Ordered
<1>2. IsFiniteSet(S) /\ Cardinality(S) \in Nat
  BY <1>1, FS_Subset, FS_CardinalityType
<1>3. Top(k, l, S) \in S
  BY TopIs
<1>4. Cardinality(S \ {Top(k, l, S)}) = Cardinality(S) - 1
  BY <1>2, <1>3, FS_RemoveElement
<1>5. Cardinality(S) # 0
  BY <1>2, FS_EmptySet
<1>6. Cardinality(S) >= 1
  BY <1>2, <1>5
<1> QED
  BY <1>2, <1>4, <1>6

\* The function that a fold defines exists.
LEMMA FoldExists ==
  ASSUME NEW k, NEW w, NEW l, NEW n, Ordered(k, l, n), NEW S \in SUBSET (1..n)
  PROVE  \E g : Folds(g, k, w, l, S)
<1> DEFINE c == Cardinality(S)
           Small(m) == {ks \in SUBSET S : Cardinality(ks) <= m}
           Partly(g, m) == g = [ks \in Small(m) |-> Undone(g, k, w, l, ks)]
           Bad == {m \in 0..c : ~\E g : Partly(g, m)}
<1>0. /\ IsFiniteSet(S) /\ c \in Nat
      /\ \A ks \in SUBSET S : IsFiniteSet(ks) /\ Cardinality(ks) \in Nat /\ Cardinality(ks) <= c
  <2>1. IsFiniteSet(1..n)
    BY FS_Interval DEF Ordered
  <2>2. IsFiniteSet(S)
    BY <2>1, FS_Subset
  <2> QED
    BY <2>2, FS_Subset, FS_CardinalityType
<1>1. 0 \notin Bad
  <2> DEFINE g == [ks \in Small(0) |-> Base(k, w)]
  <2>1. ASSUME NEW ks \in Small(0) PROVE ks = {}
    BY <1>0, FS_EmptySet
  <2>2. Partly(g, 0)
    BY <2>1 DEF Undone
  <2> QED
    BY <2>2
<1>2. ASSUME NEW m \in 0..c - 1, m \notin Bad PROVE m + 1 \notin Bad
  <2>0. m \in 0..c /\ m \in Nat
    BY <1>0
  <2>1. PICK g : Partly(g, m)
    BY <1>2, <2>0
  <2> DEFINE h == [ks \in Small(m + 1) |-> Undone(g, k, w, l, ks)]
  <2>2. \A ks \in Small(m) : ks \in Small(m + 1) /\ h[ks] = g[ks]
    <3>1. \A ks \in Small(m) : ks \in Small(m + 1)
      BY <1>0, <2>0
    <3>2. \A ks \in Small(m) : g[ks] = Undone(g, k, w, l, ks)
      BY <2>1
    <3> HIDE DEF Small
    <3> QED
      BY <3>1, <3>2
  <2>3. ASSUME NEW ks \in Small(m + 1), ks # {} PROVE ks \ {Top(k, l, ks)} \in Small(m)
    <3>1. ks \in SUBSET (1..n)
      OBVIOUS
    <3>2. Cardinality(ks \ {Top(k, l, ks)}) = Cardinality(ks) - 1 /\ Cardinality(ks) \in Nat
      BY <2>3, <3>1, Fewer
    <3>3. Cardinality(ks) <= m + 1
      OBVIOUS
    <3>4. Cardinality(ks \ {Top(k, l, ks)}) <= m
      BY <2>0, <3>2, <3>3
    <3> QED
      BY <3>4
  <2>4. ASSUME NEW ks \in Small(m + 1) PROVE Undone(g, k, w, l, ks) = Undone(h, k, w, l, ks)
    <3>1. ks # {} => h[ks \ {Top(k, l, ks)}] = g[ks \ {Top(k, l, ks)}]
      BY <2>2, <2>3
    <3> HIDE DEF h, Small
    <3> QED
      BY <3>1 DEF Undone
  <2> HIDE DEF Small
  <2>5. Partly(h, m + 1)
    BY <2>4
  <2> QED
    BY <2>5
<1>3. Bad \in SUBSET (0..c)
  OBVIOUS
<1>4. Small(c) = SUBSET S
  BY <1>0
<1> HIDE DEF Bad, c
<1>5. Bad = {}
  BY <1>0, <1>1, <1>2, <1>3, UpTo
<1>6. c \in 0..c
  BY <1>0
<1>7. \E g : Partly(g, c)
  BY <1>5, <1>6 DEF Bad
<1> QED
  BY <1>4, <1>7 DEF Folds

LotsIter(l, S) == CHOOSE g : g = [ks \in SUBSET S |->
  IF ks = {} THEN 0 ELSE ReplayLot(g[ks \ {LastOf(l, ks)}], l[LastOf(l, ks)])]
CallsIter(l, S) == CHOOSE g : g = [ks \in SUBSET S |->
  IF ks = {} THEN << >> ELSE ReplayCall(g[ks \ {LastOf(l, ks)}], l[LastOf(l, ks)])]

LEMMA LotsAre ==
  ASSUME NEW l, NEW n, Ordered("lots", l, n), Standing(l) \in SUBSET (1..n)
  PROVE  \E g : Folds(g, "lots", 0, l, Standing(l)) /\ Lots(l) = g[Standing(l)]
<1>1. Lots(l) = LotsIter(l, Standing(l))[Standing(l)]
  BY DEF Lots, MapThenFoldSet, LotsIter
<1>2. \A g : Folds(g, "lots", 0, l, Standing(l)) <=>
         g = [ks \in SUBSET Standing(l) |->
                IF ks = {} THEN 0 ELSE ReplayLot(g[ks \ {LastOf(l, ks)}], l[LastOf(l, ks)])]
  BY DEF Folds, Undone, Base, Step, Top
<1>3. \E g : Folds(g, "lots", 0, l, Standing(l))
  BY FoldExists
<1>4. Folds(LotsIter(l, Standing(l)), "lots", 0, l, Standing(l))
  BY <1>2, <1>3 DEF LotsIter
<1> QED
  BY <1>1, <1>4

LEMMA CallsAre ==
  ASSUME NEW l, NEW n, Ordered("calls", l, n), Standing(l) \in SUBSET (1..n)
  PROVE  \E g : Folds(g, "calls", 0, l, Standing(l)) /\ Calls(l) = g[Standing(l)]
<1>1. Calls(l) = CallsIter(l, Standing(l))[Standing(l)]
  BY DEF Calls, MapThenFoldSet, CallsIter
<1>2. \A g : Folds(g, "calls", 0, l, Standing(l)) <=>
         g = [ks \in SUBSET Standing(l) |->
                IF ks = {} THEN << >> ELSE ReplayCall(g[ks \ {LastOf(l, ks)}], l[LastOf(l, ks)])]
  BY DEF Folds, Undone, Base, Step, Top
<1>3. \E g : Folds(g, "calls", 0, l, Standing(l))
  BY FoldExists
<1>4. Folds(CallsIter(l, Standing(l)), "calls", 0, l, Standing(l))
  BY <1>2, <1>3 DEF CallsIter
<1> QED
  BY <1>1, <1>4

-----------------------------------------------------------------------------
(* A log in the order of its days, and a sequence of legs, one by one.      *)

Runs(R, k, w, l, n) ==
  R[0] = Base(k, w) /\ \A m \in 0..n - 1 : R[m + 1] = Step(k, w, R[m], l[m + 1])
Straight(l) ==
  /\ Len(l) \in Nat /\ DOMAIN l = 1..Len(l)
  /\ \A i \in 1..Len(l) : ~l[i].void /\ l[i].day \in Nat
  /\ \A i, j \in 1..Len(l) : i < j => l[i].day < l[j].day

LEMMA TopLast ==
  ASSUME NEW k, NEW l, NEW n, Ordered(k, l, n),
         k = "legs" \/ \A i, j \in 1..n : i < j => l[i].day < l[j].day,
         NEW m \in 0..n - 1
  PROVE  Top(k, l, 1..m + 1) = m + 1
<1> DEFINE t == Top(k, l, 1..m + 1)
<1>0. n \in Nat /\ m \in Nat /\ m + 1 <= n /\ m + 1 \in 1..n
  BY DEF Ordered
<1>1. 1..m + 1 \in SUBSET (1..n) /\ m + 1 \in 1..m + 1
  BY <1>0
<1>2. t \in 1..m + 1 /\ \A y \in (1..m + 1) \ {t} : Precedes(k, l, y, t)
  BY <1>1, TopIs
<1> HIDE DEF t
<1> SUFFICES ASSUME t # m + 1 PROVE FALSE
  BY DEF t
<1>3. Precedes(k, l, m + 1, t) /\ t \in Nat /\ t < m + 1 /\ t \in 1..n
  BY <1>0, <1>1, <1>2
<1>4. CASE k = "legs"
  BY <1>0, <1>3, <1>4 DEF Precedes
<1>5. CASE k # "legs"
  <2>1. l[t].day < l[m + 1].day /\ l[t].day \in Nat /\ l[m + 1].day \in Nat
    BY <1>0, <1>3, <1>5 DEF Ordered
  <2>2. After(l, m + 1, t)
    BY <1>3, <1>5 DEF Precedes
  <2> QED
    BY <1>0, <1>3, <2>1, <2>2 DEF After
<1> QED
  BY <1>4, <1>5

LEMMA FoldRun ==
  ASSUME NEW k, NEW w, NEW l, NEW n, Ordered(k, l, n),
         k = "legs" \/ \A i, j \in 1..n : i < j => l[i].day < l[j].day,
         NEW g, Folds(g, k, w, l, 1..n)
  PROVE  \E R : Runs(R, k, w, l, n) /\ R[n] = g[1..n]
<1> DEFINE R == [m \in 0..n |-> g[1..m]]
<1>0. n \in Nat
  BY DEF Ordered
<1>1. R[0] = Base(k, w)
  <2>1. 1..0 = {} /\ 0 \in 0..n
    BY <1>0
  <2>2. {} \in SUBSET (1..n)
    OBVIOUS
  <2>3. g[{}] = Base(k, w)
    BY <2>2 DEF Folds, Undone
  <2> QED
    BY <2>1, <2>3
<1>2. ASSUME NEW m \in 0..n - 1 PROVE R[m + 1] = Step(k, w, R[m], l[m + 1])
  <2>1. m \in 0..n /\ m + 1 \in 0..n /\ m \in Nat
    BY <1>0
  <2>2. 1..m + 1 \in SUBSET (1..n) /\ 1..m + 1 # {} /\ (1..m + 1) \ {m + 1} = 1..m
    BY <1>0, <2>1
  <2>3. Top(k, l, 1..m + 1) = m + 1
    BY TopLast
  <2>4. g[1..m + 1] = Step(k, w, g[1..m], l[m + 1])
    BY <2>2, <2>3 DEF Folds, Undone
  <2> QED
    BY <2>1, <2>4
<1>3. R[n] = g[1..n]
  BY <1>0
<1> HIDE DEF R
<1> QED
  BY <1>1, <1>2, <1>3 DEF Runs

\* What was replayed before does not depend on what comes after.
LEMMA RunsAgree ==
  ASSUME NEW k, NEW w, NEW l, NEW n \in Nat, NEW R, Runs(R, k, w, l, n),
         NEW j, NEW p \in Nat, NEW Q, Runs(Q, k, w, j, p),
         n <= p, \A i \in 1..n : j[i] = l[i]
  PROVE  Q[n] = R[n]
<1> DEFINE Bad == {m \in 0..n : Q[m] # R[m]}
<1>1. 0 \notin Bad
  BY DEF Runs
<1>2. ASSUME NEW m \in 0..n - 1, m \notin Bad PROVE m + 1 \notin Bad
  <2>1. m \in 0..n /\ m \in 0..p - 1 /\ m + 1 \in 1..n
    OBVIOUS
  <2>2. Q[m] = R[m]
    BY <1>2, <2>1
  <2>3. Q[m + 1] = Step(k, w, Q[m], j[m + 1]) /\ R[m + 1] = Step(k, w, R[m], l[m + 1])
    BY <2>1 DEF Runs
  <2> QED
    BY <2>1, <2>2, <2>3
<1>3. Bad \in SUBSET (0..n)
  OBVIOUS
<1> HIDE DEF Bad
<1>4. Bad = {}
  BY <1>1, <1>2, <1>3, UpTo
<1>5. n \in 0..n
  OBVIOUS
<1> QED
  BY <1>4, <1>5 DEF Bad

LEMMA StraightRuns ==
  ASSUME NEW l, Straight(l)
  PROVE  /\ \E R : Runs(R, "lots", 0, l, Len(l)) /\ R[Len(l)] = Lots(l)
         /\ \E R : Runs(R, "calls", 0, l, Len(l)) /\ R[Len(l)] = Calls(l)
<1>1. Standing(l) = 1..Len(l)
  BY DEF Standing, Straight
<1>2. Ordered("lots", l, Len(l)) /\ Ordered("calls", l, Len(l))
  BY DEF Straight, Ordered
<1>3. \A i, j \in 1..Len(l) : i < j => l[i].day < l[j].day
  BY DEF Straight
<1>4. PICK g : Folds(g, "lots", 0, l, 1..Len(l)) /\ Lots(l) = g[1..Len(l)]
  BY <1>1, <1>2, LotsAre
<1>5. PICK h : Folds(h, "calls", 0, l, 1..Len(l)) /\ Calls(l) = h[1..Len(l)]
  BY <1>1, <1>2, CallsAre
<1>6. \E R : Runs(R, "lots", 0, l, Len(l)) /\ R[Len(l)] = g[1..Len(l)]
  BY <1>2, <1>3, <1>4, FoldRun
<1>7. \E R : Runs(R, "calls", 0, l, Len(l)) /\ R[Len(l)] = h[1..Len(l)]
  BY <1>2, <1>3, <1>5, FoldRun
<1> QED
  BY <1>4, <1>5, <1>6, <1>7

\* The replay of a log goes on from that of what was there before.
LEMMA ReplayOn ==
  ASSUME NEW l, Straight(l), NEW e, NEW j, Straight(j), Len(j) = Len(l) + 1,
         \A i \in 1..Len(l) : j[i] = l[i], j[Len(l) + 1] = e
  PROVE  Lots(j) = ReplayLot(Lots(l), e) /\ Calls(j) = ReplayCall(Calls(l), e)
<1> DEFINE n == Len(l)
<1>0. n \in Nat /\ n + 1 \in Nat /\ n \in 0..(n + 1) - 1 /\ n <= n + 1
  BY DEF Straight
<1>1. PICK R : Runs(R, "lots", 0, l, n) /\ R[n] = Lots(l)
  BY StraightRuns
<1>2. PICK Q : Runs(Q, "lots", 0, j, n + 1) /\ Q[n + 1] = Lots(j)
  BY StraightRuns
<1>3. Q[n] = R[n]
  BY <1>0, <1>1, <1>2, RunsAgree
<1>4. Q[n + 1] = ReplayLot(Q[n], e)
  BY <1>0, <1>2 DEF Runs, Step
<1>5. PICK T : Runs(T, "calls", 0, l, n) /\ T[n] = Calls(l)
  BY StraightRuns
<1>6. PICK U : Runs(U, "calls", 0, j, n + 1) /\ U[n + 1] = Calls(j)
  BY StraightRuns
<1>7. U[n] = T[n]
  BY <1>0, <1>5, <1>6, RunsAgree
<1>8. U[n + 1] = ReplayCall(U[n], e)
  BY <1>0, <1>6 DEF Runs, Step
<1> QED
  BY <1>1, <1>2, <1>3, <1>4, <1>5, <1>6, <1>7, <1>8

LEMMA ReplayNone == Lots(<< >>) = 0 /\ Calls(<< >>) = << >> /\ Straight(<< >>)
<1>1. Straight(<< >>)
  BY DEF Straight
<1>2. Len(<< >>) = 0
  OBVIOUS
<1>3. (\E R : R[0] = 0 /\ R[0] = Lots(<< >>)) /\ (\E R : R[0] = << >> /\ R[0] = Calls(<< >>))
  BY <1>1, <1>2, StraightRuns DEF Runs, Base
<1> QED
  BY <1>1, <1>3

-----------------------------------------------------------------------------
(* Taking legs out.                                                         *)

StrikeLegs(s) == {leg \in Legs : leg.strike = s}
PairLegs(c) == {leg \in Legs : Pairs(c, leg)}
TakeStrike(q, s, n) == Without(q, LAMBDA leg : leg.strike = s, n)
TakePair(q, c, n) == Without(q, LAMBDA leg : Pairs(c, leg), n)
Taken(legs, n) == [legs |-> legs, n |-> n]

StrikeUndone(g, q, s, n, ks) ==
  IF ks = {} THEN [kept |-> << >>, remaining |-> n]
  ELSE LET x == CHOOSE i \in ks : \A j \in ks : i >= j
           acc == g[ks \ {x}]
       IN  IF acc.remaining > 0 /\ q[x].strike = s THEN [acc EXCEPT !.remaining = @ - 1]
           ELSE [acc EXCEPT !.kept = Append(@, q[x])]
StrikeIter(q, s, n) == CHOOSE g : g = [ks \in SUBSET DOMAIN q |-> StrikeUndone(g, q, s, n, ks)]
PairUndone(g, q, c, n, ks) ==
  IF ks = {} THEN [kept |-> << >>, remaining |-> n]
  ELSE LET x == CHOOSE i \in ks : \A j \in ks : i >= j
           acc == g[ks \ {x}]
       IN  IF acc.remaining > 0 /\ Pairs(c, q[x]) THEN [acc EXCEPT !.remaining = @ - 1]
           ELSE [acc EXCEPT !.kept = Append(@, q[x])]
PairIter(q, c, n) == CHOOSE g : g = [ks \in SUBSET DOMAIN q |-> PairUndone(g, q, c, n, ks)]

LEMMA SeqFacts ==
  ASSUME NEW X, NEW q \in Seq(X)
  PROVE  Len(q) \in Nat /\ DOMAIN q = 1..Len(q) /\ \A i \in 1..Len(q) : q[i] \in X
OBVIOUS

LEMMA TakeStrikeRun ==
  ASSUME NEW q \in Seq(Legs), NEW s, NEW n
  PROVE  \E R : Runs(R, "legs", Taken(StrikeLegs(s), n), q, Len(q)) /\ TakeStrike(q, s, n) = R[Len(q)].kept
<1> DEFINE D == 1..Len(q)
           w == Taken(StrikeLegs(s), n)
<1>0. Ordered("legs", q, Len(q)) /\ DOMAIN q = D /\ \A i \in D : q[i] \in Legs
  BY SeqFacts DEF Ordered
<1>1. TakeStrike(q, s, n) = StrikeIter(q, s, n)[DOMAIN q].kept
  BY DEF TakeStrike, Without, FoldLeft, MapThenFoldSet, Max, StrikeIter, StrikeUndone
<1>2. ASSUME NEW ks \in SUBSET D, ks # {} PROVE Top("legs", q, ks) \in D
  BY <1>0, <1>2, TopIs
<1>3. ASSUME NEW g, NEW ks \in SUBSET D
      PROVE  Undone(g, "legs", w, q, ks) = StrikeUndone(g, q, s, n, ks)
  <2>1. w.legs = StrikeLegs(s) /\ w.n = n
    BY DEF Taken
  <2>2. ks # {} => q[Top("legs", q, ks)] \in Legs
    BY <1>0, <1>2
  <2>3. ks # {} => (q[Top("legs", q, ks)] \in StrikeLegs(s) <=> q[Top("legs", q, ks)].strike = s)
    BY <2>2 DEF StrikeLegs
  <2>4. Top("legs", q, ks) = CHOOSE i \in ks : \A j \in ks : i >= j
    BY DEF Top
  <2> HIDE DEF w
  <2> QED
    BY <2>1, <2>3, <2>4 DEF Undone, Base, Step, Taking, StrikeUndone
<1>4. \E g : Folds(g, "legs", w, q, D)
  BY <1>0, FoldExists
<1>5. Folds(StrikeIter(q, s, n), "legs", w, q, D)
  <2> HIDE DEF w
  <2>1. \A g : Folds(g, "legs", w, q, D) <=>
          g = [ks \in SUBSET D |-> StrikeUndone(g, q, s, n, ks)]
    BY <1>3 DEF Folds
  <2> QED
    BY <1>0, <1>4, <2>1 DEF StrikeIter
<1>6. \E R : Runs(R, "legs", w, q, Len(q)) /\ R[Len(q)] = StrikeIter(q, s, n)[1..Len(q)]
  <2> HIDE DEF w
  <2> QED
    BY <1>0, <1>5, FoldRun
<1> QED
  BY <1>0, <1>1, <1>6

LEMMA TakePairRun ==
  ASSUME NEW q \in Seq(Legs), NEW c, NEW n
  PROVE  \E R : Runs(R, "legs", Taken(PairLegs(c), n), q, Len(q)) /\ TakePair(q, c, n) = R[Len(q)].kept
<1> DEFINE D == 1..Len(q)
           w == Taken(PairLegs(c), n)
<1>0. Ordered("legs", q, Len(q)) /\ DOMAIN q = D /\ \A i \in D : q[i] \in Legs
  BY SeqFacts DEF Ordered
<1>1. TakePair(q, c, n) = PairIter(q, c, n)[DOMAIN q].kept
  BY DEF TakePair, Without, FoldLeft, MapThenFoldSet, Max, PairIter, PairUndone
<1>2. ASSUME NEW ks \in SUBSET D, ks # {} PROVE Top("legs", q, ks) \in D
  BY <1>0, <1>2, TopIs
<1>3. ASSUME NEW g, NEW ks \in SUBSET D
      PROVE  Undone(g, "legs", w, q, ks) = PairUndone(g, q, c, n, ks)
  <2>1. w.legs = PairLegs(c) /\ w.n = n
    BY DEF Taken
  <2>2. ks # {} => q[Top("legs", q, ks)] \in Legs
    BY <1>0, <1>2
  <2>3. ks # {} => (q[Top("legs", q, ks)] \in PairLegs(c) <=> Pairs(c, q[Top("legs", q, ks)]))
    BY <2>2 DEF PairLegs
  <2>4. Top("legs", q, ks) = CHOOSE i \in ks : \A j \in ks : i >= j
    BY DEF Top
  <2> HIDE DEF w
  <2> QED
    BY <2>1, <2>3, <2>4 DEF Undone, Base, Step, Taking, PairUndone
<1>4. \E g : Folds(g, "legs", w, q, D)
  BY <1>0, FoldExists
<1>5. Folds(PairIter(q, c, n), "legs", w, q, D)
  <2> HIDE DEF w
  <2>1. \A g : Folds(g, "legs", w, q, D) <=>
          g = [ks \in SUBSET D |-> PairUndone(g, q, c, n, ks)]
    BY <1>3 DEF Folds
  <2> QED
    BY <1>0, <1>4, <2>1 DEF PairIter
<1>6. \E R : Runs(R, "legs", w, q, Len(q)) /\ R[Len(q)] = PairIter(q, c, n)[1..Len(q)]
  <2> HIDE DEF w
  <2> QED
    BY <1>0, <1>5, FoldRun
<1> QED
  BY <1>0, <1>1, <1>6

-----------------------------------------------------------------------------
(* How many legs there are of a kind.                                       *)

Tally(q, C) == Cardinality({i \in DOMAIN q : q[i] \in C})
TallyTo(q, C, m) == Cardinality({i \in 1..m : q[i] \in C})

One(x, C) == IF x \in C THEN 1 ELSE 0

LEMMA TallyNext ==
  ASSUME NEW q, NEW C, NEW m \in Nat
  PROVE  /\ TallyTo(q, C, m) \in Nat /\ TallyTo(q, C, 0) = 0
         /\ TallyTo(q, C, m + 1) = TallyTo(q, C, m) + One(q[m + 1], C)
<1> DEFINE S == {i \in 1..m : q[i] \in C}
           B == {i \in 1..m + 1 : q[i] \in C}
<1>1. IsFiniteSet(1..m)
  BY FS_Interval
<1>2. IsFiniteSet(S)
  BY <1>1, FS_Subset
<1>3. Cardinality(S) \in Nat
  BY <1>2, FS_CardinalityType
<1>4. m + 1 \notin S /\ B = IF q[m + 1] \in C THEN S \cup {m + 1} ELSE S
  OBVIOUS
<1>5. Cardinality(S \cup {m + 1}) = Cardinality(S) + 1
  BY <1>2, <1>4, FS_AddElement
<1>6. {i \in 1..0 : q[i] \in C} = {}
  OBVIOUS
<1>7. TallyTo(q, C, 0) = 0
  BY <1>6, FS_EmptySet DEF TallyTo
<1>8. TallyTo(q, C, m) = Cardinality(S) /\ TallyTo(q, C, m + 1) = Cardinality(B)
  BY DEF TallyTo
<1> HIDE DEF S, B
<1> QED
  BY <1>3, <1>4, <1>5, <1>7, <1>8 DEF One

LEMMA TallyIs ==
  ASSUME NEW X, NEW q \in Seq(X), NEW C
  PROVE  Tally(q, C) = TallyTo(q, C, Len(q)) /\ Tally(q, C) \in Nat
<1>1. DOMAIN q = 1..Len(q) /\ Len(q) \in Nat
  BY SeqFacts
<1>2. TallyTo(q, C, Len(q)) \in Nat
  BY <1>1, TallyNext
<1>3. Tally(q, C) = TallyTo(q, C, Len(q))
  BY <1>1 DEF Tally, TallyTo
<1> QED
  BY <1>2, <1>3

LEMMA TallyNone == \A C : Tally(<< >>, C) = 0
<1>1. \A C : {i \in DOMAIN << >> : << >>[i] \in C} = {}
  OBVIOUS
<1> QED
  BY <1>1, FS_EmptySet DEF Tally

LEMMA TallyAppend ==
  ASSUME NEW X, NEW q \in Seq(X), NEW x \in X, NEW C
  PROVE  Tally(Append(q, x), C) = Tally(q, C) + One(x, C)
<1> DEFINE p == Append(q, x)
           n == Len(q)
<1>1. p \in Seq(X) /\ n \in Nat /\ Len(p) = n + 1 /\ p[n + 1] = x /\ \A i \in 1..n : p[i] = q[i]
  OBVIOUS
<1>2. {i \in 1..n : p[i] \in C} = {i \in 1..n : q[i] \in C}
  BY <1>1
<1> HIDE DEF p, n
<1>3. TallyTo(p, C, n + 1) = TallyTo(p, C, n) + One(x, C)
  <2>1. n \in Nat /\ p[n + 1] = x
    BY <1>1
  <2>2. ASSUME NEW y, NEW m \in Nat
        PROVE  TallyTo(y, C, m + 1) = TallyTo(y, C, m) + One(y[m + 1], C)
    BY TallyNext
  <2>3. TallyTo(p, C, n + 1) = TallyTo(p, C, n) + One(p[n + 1], C)
    BY <2>1, <2>2
  <2> QED
    BY <2>1, <2>3
<1>4. TallyTo(p, C, n) = TallyTo(q, C, n)
  BY <1>2 DEF TallyTo
<1>5. Tally(p, C) = TallyTo(p, C, n + 1) /\ Tally(q, C) = TallyTo(q, C, n)
  BY <1>1, TallyIs DEF n
<1> QED
  BY <1>3, <1>4, <1>5 DEF p

\* What is taken out leaves the rest what it was.
LEMMA KeptTyped ==
  ASSUME NEW X, NEW q \in Seq(X), NEW T, NEW n, NEW R, Runs(R, "legs", Taken(T, n), q, Len(q))
  PROVE  R[Len(q)].kept \in Seq(X)
<1> DEFINE N == Len(q)
           Bad == {m \in 0..N : ~(/\ R[m] = [kept |-> R[m].kept, remaining |-> R[m].remaining]
                                  /\ R[m].kept \in Seq(X))}
<1>0. N \in Nat /\ N \in 0..N /\ \A i \in 1..N : q[i] \in X
  BY SeqFacts
<1>1. R[0] = [kept |-> << >>, remaining |-> n]
  BY DEF Runs, Base, Taken
<1>2. \A m \in 0..N - 1 : R[m + 1] = Taking(R[m], q[m + 1], Taken(T, n))
  BY DEF Runs, Step
<1> HIDE DEF N
<1>3. 0 \notin Bad
  <2>1. R[0].kept = << >> /\ R[0].remaining = n
    BY <1>1
  <2>2. << >> \in Seq(X)
    OBVIOUS
  <2>3. R[0] = [kept |-> R[0].kept, remaining |-> R[0].remaining] /\ R[0].kept \in Seq(X)
    BY <1>1, <2>1, <2>2
  <2> QED
    BY <2>3
<1>4. ASSUME NEW m \in 0..N - 1, m \notin Bad PROVE m + 1 \notin Bad
  <2>1. m \in 0..N /\ m + 1 \in 0..N /\ m + 1 \in 1..N
    BY <1>0
  <2>2. /\ R[m] = [kept |-> R[m].kept, remaining |-> R[m].remaining] /\ R[m].kept \in Seq(X)
        /\ q[m + 1] \in X
    BY <1>0, <1>4, <2>1
  <2>3. R[m + 1] = Taking(R[m], q[m + 1], Taken(T, n))
    BY <1>2
  <2> DEFINE a == R[m]
             k == a.kept
             r == a.remaining
             x == q[m + 1]
  <2>4. Append(k, x) \in Seq(X)
    BY <2>2
  <2>5. \/ R[m + 1] = [kept |-> k, remaining |-> r - 1]
        \/ R[m + 1] = [kept |-> Append(k, x), remaining |-> r]
    <3>1. a = [kept |-> k, remaining |-> r]
      BY <2>2
    <3> HIDE DEF a, k, r, x
    <3>2. R[m + 1] = Taking(a, x, Taken(T, n))
      BY <2>3 DEF a, x
    <3> QED
      BY <3>1, <3>2 DEF Taking
  <2> HIDE DEF a, k, r, x
  <2>6. k \in Seq(X)
    BY <2>2 DEF a, k
  <2>7. \A y, z \in Seq(X) : \A u, v : v = [kept |-> y, remaining |-> u] \/ v = [kept |-> z, remaining |-> u - 1]
          => v = [kept |-> v.kept, remaining |-> v.remaining] /\ v.kept \in Seq(X)
    OBVIOUS
  <2>8. R[m + 1] = [kept |-> R[m + 1].kept, remaining |-> R[m + 1].remaining] /\ R[m + 1].kept \in Seq(X)
    BY <2>4, <2>5, <2>6, <2>7
  <2> QED
    BY <2>8
<1>5. Bad \in SUBSET (0..N)
  OBVIOUS
<1> HIDE DEF Bad
<1>6. Bad = {}
  BY <1>0, <1>3, <1>4, <1>5, UpTo
<1> QED
  BY <1>0, <1>6 DEF Bad, N

\* One leg of T is taken out, if there is one.
LEMMA OneTaken ==
  ASSUME NEW q \in Seq(Legs), NEW T, NEW C, NEW R, Runs(R, "legs", Taken(T, 1), q, Len(q))
  PROVE  /\ C \cap T = {} => Tally(R[Len(q)].kept, C) = Tally(q, C)
         /\ T \subseteq C => Tally(R[Len(q)].kept, C) =
                               IF Tally(q, T) = 0 THEN Tally(q, C) ELSE Tally(q, C) - 1
<1> DEFINE N == Len(q)
           Good(m) == LET a == R[m] IN
             /\ a = [kept |-> a.kept, remaining |-> a.remaining] /\ a.kept \in Seq(Legs)
             /\ a.remaining = (IF TallyTo(q, T, m) = 0 THEN 1 ELSE 0)
             /\ C \cap T = {} => Tally(a.kept, C) = TallyTo(q, C, m)
             /\ T \subseteq C => Tally(a.kept, C) = TallyTo(q, C, m) - (1 - a.remaining)
           Bad == {m \in 0..N : ~Good(m)}
<1>0. N \in Nat /\ N \in 0..N /\ \A i \in 1..N : q[i] \in Legs
  BY SeqFacts
<1>1. R[0] = [kept |-> << >>, remaining |-> 1]
  BY DEF Runs, Base, Taken
<1>2. \A m \in 0..N - 1 : R[m + 1] = Taking(R[m], q[m + 1], Taken(T, 1))
  BY DEF Runs, Step
<1> HIDE DEF N
<1>3. 0 \notin Bad
  <2>1. TallyTo(q, T, 0) = 0 /\ TallyTo(q, C, 0) = 0 /\ Tally(<< >>, C) = 0
    BY TallyNext, TallyNone
  <2>2. Good(0)
    BY <1>1, <2>1
  <2> QED
    BY <2>2
<1>4. ASSUME NEW m \in 0..N - 1, m \notin Bad PROVE m + 1 \notin Bad
  <2>1. m \in 0..N /\ m + 1 \in 0..N /\ m + 1 \in 1..N /\ m \in Nat
    BY <1>0
  <2> DEFINE a == R[m]
             k == a.kept
             r == a.remaining
             x == q[m + 1]
             b == R[m + 1]
  <2>2. Good(m)
    BY <1>4, <2>1
  <2>3. /\ a = [kept |-> k, remaining |-> r] /\ k \in Seq(Legs) /\ x \in Legs
        /\ r = (IF TallyTo(q, T, m) = 0 THEN 1 ELSE 0)
        /\ C \cap T = {} => Tally(k, C) = TallyTo(q, C, m)
        /\ T \subseteq C => Tally(k, C) = TallyTo(q, C, m) - (1 - r)
    BY <1>0, <2>1, <2>2
  <2>4. b = Taking(a, x, Taken(T, 1))
    BY <1>2
  <2>5. /\ TallyTo(q, T, m) \in Nat /\ TallyTo(q, C, m) \in Nat
        /\ TallyTo(q, T, m + 1) = TallyTo(q, T, m) + One(x, T)
        /\ TallyTo(q, C, m + 1) = TallyTo(q, C, m) + One(x, C)
    <3>1. \A D : /\ TallyTo(q, D, m) \in Nat
                 /\ TallyTo(q, D, m + 1) = TallyTo(q, D, m) + One(q[m + 1], D)
      BY <2>1, TallyNext
    <3> QED
      BY <3>1
  <2> HIDE DEF a, k, r, x, b
  <2>6. /\ Append(k, x) \in Seq(Legs)
        /\ Tally(Append(k, x), C) = Tally(k, C) + One(x, C)
        /\ Tally(k, C) \in Nat
    BY <2>3, TallyAppend, TallyIs
  <2>9. One(x, C) = (IF x \in C THEN 1 ELSE 0) /\ One(x, T) = IF x \in T THEN 1 ELSE 0
    BY DEF One
  <2>7. CASE r = 1 /\ x \in T
    <3>1. b = [kept |-> k, remaining |-> 0]
      BY <2>3, <2>4, <2>7 DEF Taking, Taken
    <3>2. b.kept = k /\ b.remaining = 0
      BY <3>1
    <3>3. TallyTo(q, T, m) = 0 /\ TallyTo(q, T, m + 1) = 1
      BY <2>3, <2>5, <2>7, <2>9
    <3>4. C \cap T = {} => Tally(k, C) = TallyTo(q, C, m + 1)
      BY <2>3, <2>5, <2>7, <2>9
    <3>5. T \subseteq C => Tally(k, C) = TallyTo(q, C, m + 1) - (1 - 0)
      <4>1. T \subseteq C => x \in C
        BY <2>7
      <4> QED
        BY <2>3, <2>5, <2>7, <2>9, <4>1
    <3>6. Good(m + 1)
      BY <2>3, <3>1, <3>2, <3>3, <3>4, <3>5 DEF b
    <3> QED
      BY <3>6
  <2>8. CASE ~(r = 1 /\ x \in T)
    <3>0. r \in {0, 1} /\ ~(r > 0 /\ x \in T)
      BY <2>3, <2>8
    <3>1. b = [kept |-> Append(k, x), remaining |-> r]
      BY <2>3, <2>4, <3>0 DEF Taking, Taken
    <3>2. b.kept = Append(k, x) /\ b.remaining = r
      BY <3>1
    <3>3. r = (IF TallyTo(q, T, m + 1) = 0 THEN 1 ELSE 0)
      BY <2>3, <2>5, <2>8, <2>9
    <3>4. C \cap T = {} => Tally(Append(k, x), C) = TallyTo(q, C, m + 1)
      BY <2>3, <2>5, <2>6
    <3>5. T \subseteq C => Tally(Append(k, x), C) = TallyTo(q, C, m + 1) - (1 - r)
      <4>1. r \in {0, 1}
        BY <2>3
      <4> QED
        BY <2>3, <2>5, <2>6, <2>9, <4>1
    <3>6. Good(m + 1)
      BY <2>6, <3>1, <3>2, <3>3, <3>4, <3>5 DEF b
    <3> QED
      BY <3>6
  <2> QED
    BY <2>7, <2>8
<1>5. Bad \in SUBSET (0..N)
  OBVIOUS
<1> HIDE DEF Bad
<1>6. Bad = {}
  BY <1>0, <1>3, <1>4, <1>5, UpTo
<1>7. Good(N)
  BY <1>0, <1>6 DEF Bad
<1>8. Tally(q, C) = TallyTo(q, C, N) /\ Tally(q, T) = TallyTo(q, T, N) /\ Tally(q, C) \in Nat
  BY TallyIs DEF N
<1> QED
  BY <1>7, <1>8 DEF N

-----------------------------------------------------------------------------
(* Sequences of whatever elements.                                          *)

IsSeq(l) == \E X : l \in Seq(X)

LEMMA AnySeq ==
  ASSUME NEW l, IsSeq(l)
  PROVE  Len(l) \in Nat /\ DOMAIN l = 1..Len(l)
BY SeqFacts DEF IsSeq

LEMMA AnyAppend ==
  ASSUME NEW l, IsSeq(l), NEW x
  PROVE  /\ IsSeq(Append(l, x)) /\ Len(Append(l, x)) = Len(l) + 1
         /\ \A i \in 1..Len(l) : Append(l, x)[i] = l[i]
         /\ Append(l, x)[Len(l) + 1] = x
<1>1. PICK X : l \in Seq(X)
  BY DEF IsSeq
<1> DEFINE Y == X \union {x}
<1>2. x \in Y /\ l \in Seq(Y)
  BY <1>1
<1> HIDE DEF Y
<1>3. Append(l, x) \in Seq(Y)
  BY <1>2
<1>4. Len(Append(l, x)) = Len(l) + 1 /\ \A i \in 1..Len(l) : Append(l, x)[i] = l[i]
  BY <1>2
<1>5. Append(l, x)[Len(l) + 1] = x
  BY <1>2
<1> QED
  BY <1>3, <1>4, <1>5 DEF IsSeq

LEMMA AnyTail ==
  ASSUME NEW l, IsSeq(l), l # << >>
  PROVE  /\ IsSeq(Tail(l)) /\ Len(Tail(l)) = Len(l) - 1 /\ Len(l) >= 1 /\ Head(l) = l[1]
         /\ \A i \in 1..Len(l) - 1 : Tail(l)[i] = l[i + 1]
<1>1. PICK X : l \in Seq(X)
  BY DEF IsSeq
<1>2. Tail(l) \in Seq(X) /\ Len(Tail(l)) = Len(l) - 1 /\ Len(l) >= 1 /\ Head(l) = l[1]
  BY <1>1
<1>3. \A i \in 1..Len(l) - 1 : Tail(l)[i] = l[i + 1]
  BY <1>1
<1> QED
  BY <1>2, <1>3 DEF IsSeq

LEMMA AnyWritten ==
  ASSUME NEW l, IsSeq(l), NEW k \in DOMAIN l, NEW x
  PROVE  /\ IsSeq([l EXCEPT ![k] = x]) /\ Len([l EXCEPT ![k] = x]) = Len(l)
         /\ \A i \in 1..Len(l) : [l EXCEPT ![k] = x][i] = IF i = k THEN x ELSE l[i]
<1>1. PICK X : l \in Seq(X)
  BY DEF IsSeq
<1> DEFINE Y == X \union {x}
<1>2. x \in Y /\ l \in Seq(Y)
  BY <1>1
<1> HIDE DEF Y
<1>3. [l EXCEPT ![k] = x] \in Seq(Y) /\ Len([l EXCEPT ![k] = x]) = Len(l)
  BY <1>2
<1>4. \A i \in 1..Len(l) : [l EXCEPT ![k] = x][i] = IF i = k THEN x ELSE l[i]
  BY <1>2
<1> QED
  BY <1>3, <1>4 DEF IsSeq

LEMMA Short ==
  ASSUME NEW a, NEW b
  PROVE  /\ IsSeq(<< >>) /\ Len(<< >>) = 0
         /\ IsSeq(<<a>>) /\ Len(<<a>>) = 1 /\ <<a>>[1] = a
         /\ IsSeq(<<a, b>>) /\ Len(<<a, b>>) = 2 /\ <<a, b>>[1] = a /\ <<a, b>>[2] = b
<1>1. << >> \in Seq({a, b}) /\ <<a>> \in Seq({a, b}) /\ <<a, b>> \in Seq({a, b})
  OBVIOUS
<1> QED
  BY <1>1 DEF IsSeq

-----------------------------------------------------------------------------
(* A position and what a write leaves of it.                                *)

Made(status, shares, calls, puts, review) ==
  [status |-> status, shares |-> shares, calls |-> calls, puts |-> puts, review |-> review]
Whole(p) == p = Made(p.status, p.shares, p.calls, p.puts, p.review)

LEMMA MadeIs ==
  ASSUME NEW a, NEW b, NEW c, NEW d, NEW r
  PROVE  LET p == Made(a, b, c, d, r) IN
         Whole(p) /\ p.status = a /\ p.shares = b /\ p.calls = c /\ p.puts = d /\ p.review = r
BY DEF Made, Whole

LEMMA Rewritten ==
  ASSUME NEW p, Whole(p)
  PROVE  \A x : /\ [p EXCEPT !.status = x] = Made(x, p.shares, p.calls, p.puts, p.review)
                /\ [p EXCEPT !.shares = x] = Made(p.status, x, p.calls, p.puts, p.review)
                /\ [p EXCEPT !.calls = x] = Made(p.status, p.shares, x, p.puts, p.review)
                /\ [p EXCEPT !.puts = x] = Made(p.status, p.shares, p.calls, x, p.review)
                /\ [p EXCEPT !.review = x] = Made(p.status, p.shares, p.calls, p.puts, x)
<1> DEFINE a == p.status  b == p.shares  c == p.calls  d == p.puts  r == p.review
<1>1. p = [status |-> a, shares |-> b, calls |-> c, puts |-> d, review |-> r]
  BY DEF Whole, Made
<1> HIDE DEF a, b, c, d, r
<1>2. \A x : /\ [p EXCEPT !.status = x] = Made(x, b, c, d, r)
             /\ [p EXCEPT !.shares = x] = Made(a, x, c, d, r)
             /\ [p EXCEPT !.calls = x] = Made(a, b, x, d, r)
             /\ [p EXCEPT !.puts = x] = Made(a, b, c, x, r)
             /\ [p EXCEPT !.review = x] = Made(a, b, c, d, x)
  BY <1>1 DEF Made
<1> QED
  BY <1>2 DEF a, b, c, d, r

WithStatus(p, x) == [p EXCEPT !.status = x]
WithShares(p, x) == [p EXCEPT !.shares = x]
WithCalls(p, x) == [p EXCEPT !.calls = x]
WithPuts(p, x) == [p EXCEPT !.puts = x]
WithReview(p, x) == [p EXCEPT !.review = x]

LEMMA Fields ==
  ASSUME NEW p, Whole(p), NEW x
  PROVE  /\ LET q == WithStatus(p, x) IN Whole(q) /\ q.status = x /\ q.shares = p.shares /\ q.calls = p.calls /\ q.puts = p.puts /\ q.review = p.review
         /\ LET q == WithShares(p, x) IN Whole(q) /\ q.status = p.status /\ q.shares = x /\ q.calls = p.calls /\ q.puts = p.puts /\ q.review = p.review
         /\ LET q == WithCalls(p, x) IN Whole(q) /\ q.status = p.status /\ q.shares = p.shares /\ q.calls = x /\ q.puts = p.puts /\ q.review = p.review
         /\ LET q == WithPuts(p, x) IN Whole(q) /\ q.status = p.status /\ q.shares = p.shares /\ q.calls = p.calls /\ q.puts = x /\ q.review = p.review
         /\ LET q == WithReview(p, x) IN Whole(q) /\ q.status = p.status /\ q.shares = p.shares /\ q.calls = p.calls /\ q.puts = p.puts /\ q.review = x
<1>1. LET q == WithStatus(p, x) IN Whole(q) /\ q.status = x /\ q.shares = p.shares /\ q.calls = p.calls /\ q.puts = p.puts /\ q.review = p.review
  <2>1. WithStatus(p, x) = Made(x, p.shares, p.calls, p.puts, p.review)
    BY Rewritten DEF WithStatus
  <2> QED
    BY <2>1, MadeIs
<1>2. LET q == WithShares(p, x) IN Whole(q) /\ q.status = p.status /\ q.shares = x /\ q.calls = p.calls /\ q.puts = p.puts /\ q.review = p.review
  <2>1. WithShares(p, x) = Made(p.status, x, p.calls, p.puts, p.review)
    BY Rewritten DEF WithShares
  <2> QED
    BY <2>1, MadeIs
<1>3. LET q == WithCalls(p, x) IN Whole(q) /\ q.status = p.status /\ q.shares = p.shares /\ q.calls = x /\ q.puts = p.puts /\ q.review = p.review
  <2>1. WithCalls(p, x) = Made(p.status, p.shares, x, p.puts, p.review)
    BY Rewritten DEF WithCalls
  <2> QED
    BY <2>1, MadeIs
<1>4. LET q == WithPuts(p, x) IN Whole(q) /\ q.status = p.status /\ q.shares = p.shares /\ q.calls = p.calls /\ q.puts = x /\ q.review = p.review
  <2>1. WithPuts(p, x) = Made(p.status, p.shares, p.calls, x, p.review)
    BY Rewritten DEF WithPuts
  <2> QED
    BY <2>1, MadeIs
<1>5. LET q == WithReview(p, x) IN Whole(q) /\ q.status = p.status /\ q.shares = p.shares /\ q.calls = p.calls /\ q.puts = p.puts /\ q.review = x
  <2>1. WithReview(p, x) = Made(p.status, p.shares, p.calls, p.puts, x)
    BY Rewritten DEF WithReview
  <2> QED
    BY <2>1, MadeIs
<1> QED
  BY <1>1, <1>2, <1>3, <1>4, <1>5

\* The status is another, nothing else.
Restated(q, p) ==
  /\ Whole(q) /\ q.shares = p.shares /\ q.calls = p.calls /\ q.puts = p.puts /\ q.review = p.review
  /\ q.status \in {p.status, "active", "closed"}

LEMMA Restates ==
  ASSUME NEW p, Whole(p)
  PROVE  /\ Restated(CloseIfNoCalls(p), p) /\ Restated(_close_if_empty(p), p) /\ Restated(Reopened(p), p)
         /\ Restated(Rederived(p), p) /\ Restated(_ensure_position(p), p)
         /\ _ensure_position(p).status # None /\ Rederived(p).status # None
<1>1. \A x : [p EXCEPT !.status = x] = Made(x, p.shares, p.calls, p.puts, p.review)
  BY Rewritten
<1>2. \A x \in {p.status, "active", "closed"} :
         Restated([p EXCEPT !.status = x], p) /\ [p EXCEPT !.status = x].status = x
  BY <1>1, MadeIs DEF Restated
<1>3. Restated(p, p)
  BY DEF Restated
<1>4. Restated(CloseIfNoCalls(p), p) /\ Restated(_close_if_empty(p), p) /\ Restated(Reopened(p), p)
  BY <1>2, <1>3 DEF CloseIfNoCalls, _close_if_empty, Reopened
<1>5. Restated(Rederived(p), p) /\ Rederived(p).status # None
  <2>1. Rederived(p) \in {[p EXCEPT !.status = "closed"], [p EXCEPT !.status = "active"]}
    BY DEF Rederived
  <2> QED
    BY <1>2, <2>1 DEF None
<1>6. Restated(_ensure_position(p), p) /\ _ensure_position(p).status # None
  BY <1>2, <1>3 DEF _ensure_position, None
<1> QED
  BY <1>4, <1>5, <1>6

LEMMA Reevaluated ==
  ASSUME NEW p, Whole(p), NEW rep, NEW res
  PROVE  LET q == reevaluate_freezes(p, rep, res) IN
         /\ Whole(q) /\ q.status = p.status /\ q.shares = p.shares /\ q.calls = p.calls /\ q.puts = p.puts
         /\ p.status = None => q.review = p.review
         /\ p.status = "closed" => q.review = {}
         /\ p.status \notin {None, "closed"} =>
              q.review = {id \in Ids(rep.diffs) : ~Benign(id) /\ id \notin res}
<1>1. \A x : LET q == WithReview(p, x) IN
        /\ Whole(q) /\ q.status = p.status /\ q.shares = p.shares /\ q.calls = p.calls /\ q.puts = p.puts
        /\ q.review = x
  BY Fields
<1>2. CASE p.status = None
  BY <1>2 DEF reevaluate_freezes, None
<1>3. CASE p.status = "closed"
  <2>1. reevaluate_freezes(p, rep, res) = WithReview(p, {})
    BY <1>3 DEF reevaluate_freezes, None, WithReview
  <2> QED
    BY <1>1, <1>3, <2>1 DEF None
<1>4. CASE p.status \notin {None, "closed"}
  <2> DEFINE x == {id \in Ids(rep.diffs) : ~Benign(id) /\ id \notin res}
  <2>1. reevaluate_freezes(p, rep, res) = WithReview(p, x)
    BY <1>4 DEF reevaluate_freezes, WithReview
  <2> HIDE DEF x
  <2>2. LET q == reevaluate_freezes(p, rep, res) IN
        /\ Whole(q) /\ q.status = p.status /\ q.shares = p.shares /\ q.calls = p.calls /\ q.puts = p.puts
        /\ q.review = x
    BY <1>1, <2>1
  <2> QED
    BY <1>4, <2>2 DEF x
<1> QED
  BY <1>2, <1>3, <1>4

-----------------------------------------------------------------------------
(* The mirror's update and the replay's step.                               *)

Acts == Trades \union {"close_shares_assigned", "adjustment"}
Entry(e) ==
  /\ e = [day |-> e.day, act |-> e.act, c |-> e.c, n |-> e.n, why |-> e.why, void |-> e.void]
  /\ e.day \in Nat /\ e.act \in Acts \union {"position_rebuild"}
  /\ e.act = "sell_short" => e.c \in Contracts

LEMMA Sub == ASSUME NEW X, NEW Y, X \subseteq Y, NEW q \in Seq(X) PROVE q \in Seq(Y)
OBVIOUS

LEMMA TakeTyped ==
  ASSUME NEW X \in SUBSET Legs, NEW q \in Seq(X)
  PROVE  /\ \A s, n : TakeStrike(q, s, n) \in Seq(X)
         /\ \A c, n : TakePair(q, c, n) \in Seq(X)
<1>1. q \in Seq(Legs)
  BY Sub
<1>2. ASSUME NEW s, NEW n PROVE TakeStrike(q, s, n) \in Seq(X)
  BY <1>1, TakeStrikeRun, KeptTyped
<1>3. ASSUME NEW c, NEW n PROVE TakePair(q, c, n) \in Seq(X)
  BY <1>1, TakePairRun, KeptTyped
<1> QED
  BY <1>2, <1>3

LEMMA Closed ==
  ASSUME NEW p, Whole(p), p.calls \in Seq(Legs), NEW s, NEW n
  PROVE  LET q == CloseLegs(p, s, n) IN
         /\ Whole(q) /\ q.status = p.status /\ q.shares = p.shares /\ q.review = p.review
         /\ q.calls = TakeStrike(p.calls, s, n) /\ q.calls \in Seq(Legs)
<1>1. CloseLegs(p, s, n) = WithCalls(p, TakeStrike(p.calls, s, n))
  BY DEF CloseLegs, TakeStrike, WithCalls
<1>2. TakeStrike(p.calls, s, n) \in Seq(Legs)
  BY TakeTyped
<1> QED
  BY <1>1, <1>2, Fields

Updated(q, p) ==
  Whole(q) /\ q.calls \in Seq(Legs) /\ q.review = p.review /\ q.status \in {p.status, "active", "closed"}

LEMMA Updates ==
  ASSUME NEW p, Whole(p), p.calls \in Seq(Legs), NEW e, Entry(e), e.act \in Acts
  PROVE  Updated(position_update(p, e), p)
<1>0. \A q, r : Restated(q, r) /\ Whole(r) /\ r.calls \in Seq(Legs) /\ r.review = p.review /\ r.status = p.status
               => Updated(q, p)
  BY DEF Restated, Updated
<1>1. \A x : LET q == WithShares(p, x) IN
        /\ Whole(q) /\ q.calls \in Seq(Legs) /\ q.review = p.review /\ q.status = p.status
  BY Fields
<1>2. \A x : LET q == WithPuts(p, x) IN
        /\ Whole(q) /\ q.calls \in Seq(Legs) /\ q.review = p.review /\ q.status = p.status
  BY Fields
<1>3. CASE e.act = "buy_shares"
  <2>1. position_update(p, e) = Reopened(WithShares(p, p.shares + e.n))
    BY <1>3 DEF position_update, _buy_shares, ShareSales, WithShares
  <2> QED
    BY <1>0, <1>1, <2>1, Restates
<1>4. CASE e.act \in ShareSales
  <2>1. position_update(p, e) = CloseIfNoCalls(WithShares(p, IF e.n < p.shares THEN p.shares - e.n ELSE 0))
    BY <1>4 DEF position_update, _reduce_shares, ShareSales, WithShares
  <2> QED
    BY <1>0, <1>1, <2>1, Restates
<1>5. CASE e.act = "sell_short"
  <2>1. position_update(p, e) = Reopened(WithCalls(p, Append(p.calls, e.c)))
    BY <1>5 DEF position_update, _sell_short, ShareSales, WithCalls
  <2>2. Append(p.calls, e.c) \in Seq(Legs)
    <3>1. e.c \in Legs
      BY <1>5 DEF Entry, Legs
    <3> QED
      BY <3>1
  <2> DEFINE x == Append(p.calls, e.c)
  <2> HIDE DEF x
  <2>3. LET q == WithCalls(p, x) IN
        Whole(q) /\ q.calls = x /\ q.review = p.review /\ q.status = p.status
    BY Fields
  <2>4. x \in Seq(Legs) /\ position_update(p, e) = Reopened(WithCalls(p, x))
    BY <2>1, <2>2 DEF x
  <2> QED
    BY <1>0, <2>3, <2>4, Restates
<1>6. CASE e.act = "close_short"
  <2>1. position_update(p, e) = CloseLegs(p, e.c.strike, e.n)
    BY <1>6 DEF position_update, _close_short, ShareSales
  <2> QED
    BY <2>1, Closed DEF Updated
<1>7. CASE e.act \in {"put_opened", "put_closed", "put_assigned"}
  <2> DEFINE r == WithPuts(p, p.puts - 1)
             t == WithShares(r, p.shares + 1)
  <2>1. \/ position_update(p, e) = WithPuts(p, p.puts + 1)
        \/ position_update(p, e) = _close_if_empty(r)
        \/ position_update(p, e) = Reopened([p EXCEPT !.puts = p.puts - 1, !.shares = p.shares + 1])
    BY <1>7 DEF position_update, _put_opened, _put_closed, _put_assigned, ShareSales, WithPuts
  <2>2. [p EXCEPT !.puts = p.puts - 1, !.shares = p.shares + 1] = t
    BY DEF Whole, Made, WithPuts, WithShares
  <2>3. Whole(r) /\ r.calls \in Seq(Legs) /\ r.review = p.review /\ r.status = p.status
    BY <1>2
  <2> HIDE DEF r, t
  <2>4. Whole(t) /\ t.calls \in Seq(Legs) /\ t.review = p.review /\ t.status = p.status
    BY <2>3, Fields DEF t
  <2>5. CASE position_update(p, e) = WithPuts(p, p.puts + 1)
    BY <1>2, <2>5 DEF Updated
  <2>6. CASE position_update(p, e) = _close_if_empty(r)
    BY <1>0, <2>3, <2>6, Restates
  <2>7. CASE position_update(p, e) = Reopened(t)
    BY <1>0, <2>4, <2>7, Restates
  <2> QED
    BY <2>1, <2>2, <2>5, <2>6, <2>7
<1>8. CASE e.act = "adjustment"
  <2>1. position_update(p, e) = _apply_adjustment(p, e)
    BY <1>8 DEF position_update, ShareSales
  <2>2. CASE e.c = Equity
    <3>1. _apply_adjustment(p, e) = CloseIfNoCalls(WithShares(p, p.shares + e.n))
      BY <2>2 DEF _apply_adjustment, WithShares
    <3> QED
      BY <1>0, <1>1, <2>1, <3>1, Restates
  <2>3. CASE e.c # Equity
    <3>1. _apply_adjustment(p, e) = CloseLegs(p, e.c.strike, 1)
      BY <2>3 DEF _apply_adjustment
    <3> QED
      BY <2>1, <3>1, Closed DEF Updated
  <2> QED
    BY <2>2, <2>3
<1> QED
  BY <1>3, <1>4, <1>5, <1>6, <1>7, <1>8 DEF Acts, Trades, ShareSales

-----------------------------------------------------------------------------
(* The account.                                                             *)

Events ==
  {h \in [act : Trades \union {"called_away", "expired"}, c : Inst] :
     h.act \in {"sell_short", "close_short"} => h.c \in Contracts}
Event(act, c) == [act |-> act, c |-> c]
Sold(c) == [act |-> "sell_short", c |-> c]
Back(c) == [act |-> "close_short", c |-> c]

LEMMA Instruments ==
  /\ Equity \in Inst /\ Put \in Inst /\ PutAsCall \in Inst /\ Contracts \subseteq Inst
  /\ Equity # PutAsCall /\ Put # PutAsCall
  /\ \A c \in Contracts : c # Equity /\ c # Put /\ c # PutAsCall
<1>1. Equity # PutAsCall /\ Put # PutAsCall
  BY DEF Equity, Put, PutAsCall
<1>2. ASSUME NEW c \in Contracts PROVE c.strike # 0
  BY MirrorAssumption DEF Contracts
<1>3. Equity.strike = 0 /\ Put.strike = 0 /\ PutAsCall.strike = 0
  BY DEF Equity, Put, PutAsCall
<1>4. \A c \in Contracts : c # Equity /\ c # Put /\ c # PutAsCall
  BY <1>2, <1>3
<1> QED
  BY <1>1, <1>4 DEF Inst

LEMMA OfIs ==
  ASSUME NEW i \in Inst
  PROVE  /\ Of(i, 1) \in [Inst -> Int] /\ \A j \in Inst : Of(i, 1)[j] = IF j = i THEN 1 ELSE 0
         /\ Of(i, -1) \in [Inst -> Int] /\ \A j \in Inst : Of(i, -1)[j] = IF j = i THEN -1 ELSE 0
BY DEF Of, Nothing

\* What a step of the broker can do to the account and to its history.
Traded(h) ==
  /\ h \in Events /\ history' = Append(history, h)
  /\ broker' \in [Inst -> Int] /\ broker'[PutAsCall] = broker[PutAsCall]
  /\ \A c \in Contracts :
       /\ broker'[c] <= broker[c] + One(h, {Sold(c)}) - One(h, {Back(c)})
       /\ h = Back(c) => broker[c] > 0

LEMMA Trading ==
  ASSUME BrokerStep, broker \in [Inst -> Int], history \in Seq(Events), expday \in [Expiries -> Nat]
  PROVE  /\ UNCHANGED <<book, job, fetched, bounds>>
         /\ expday' \in [Expiries -> Nat]
         /\ UNCHANGED <<history, broker>> \/ \E h : Traded(h)
<1> DEFINE Fine(act, c, change) ==
      /\ Event(act, c) \in Events /\ change \in [Inst -> Int] /\ change[PutAsCall] = 0
      /\ \A d \in Contracts :
           /\ change[d] <= One(Event(act, c), {Sold(d)}) - One(Event(act, c), {Back(d)})
           /\ Event(act, c) = Back(d) => broker[d] > 0
<1>0. \A act, c : act \in Trades \union {"called_away", "expired"} /\ c \in Inst
                  /\ (act \in {"sell_short", "close_short"} => c \in Contracts)
                  => Event(act, c) \in Events
  BY DEF Events, Event
<1>1. \A act, c, d :
        /\ act = "sell_short" /\ c = d => One(Event(act, c), {Sold(d)}) = 1
        /\ act # "sell_short" \/ c # d => One(Event(act, c), {Sold(d)}) = 0
        /\ act = "close_short" /\ c = d => One(Event(act, c), {Back(d)}) = 1
        /\ act # "close_short" \/ c # d => One(Event(act, c), {Back(d)}) = 0
  BY DEF One, Sold, Back, Event
<1>2. \A act, c, d : Event(act, c) = Back(d) => act = "close_short" /\ c = d
  BY DEF Back, Event
<1>3. ASSUME NEW act, NEW c, NEW change, Happens(act, c, change), Fine(act, c, change)
      PROVE  /\ UNCHANGED <<book, job, fetched, bounds>> /\ expday' \in [Expiries -> Nat]
             /\ \E h : Traded(h)
  <2> DEFINE h == Event(act, c)
  <2>1. /\ UNCHANGED <<expday, book, job, fetched, bounds>> /\ history' = Append(history, h)
        /\ broker' = [i \in Inst |-> broker[i] + change[i]]
    BY <1>3 DEF Happens, Event
  <2>2. broker' \in [Inst -> Int] /\ \A i \in Inst : broker'[i] = broker[i] + change[i]
    <3>1. \A i \in Inst : broker[i] + change[i] \in Int
      BY <1>3
    <3> QED
      BY <2>1, <3>1
  <2>3. broker'[PutAsCall] = broker[PutAsCall]
    BY <1>3, <2>2, Instruments
  <2>4. ASSUME NEW d \in Contracts
        PROVE  /\ broker'[d] <= broker[d] + One(h, {Sold(d)}) - One(h, {Back(d)})
               /\ h = Back(d) => broker[d] > 0
    <3>1. d \in Inst /\ broker[d] \in Int /\ change[d] \in Int /\ broker'[d] = broker[d] + change[d]
      BY <1>3, <2>2, Instruments
    <3>2. change[d] <= One(h, {Sold(d)}) - One(h, {Back(d)}) /\ (h = Back(d) => broker[d] > 0)
      BY <1>3
    <3>3. One(h, {Sold(d)}) \in Int /\ One(h, {Back(d)}) \in Int
      BY DEF One
    <3> HIDE DEF h
    <3> QED
      BY <3>1, <3>2, <3>3
  <2>5. h \in Events
    BY <1>3
  <2> HIDE DEF h
  <2> QED
    BY <2>1, <2>2, <2>3, <2>4, <2>5 DEF Traded
<1>4. ASSUME NEW act \in Trades, act \notin {"sell_short", "close_short"}, NEW i \in {Equity, Put},
             NEW change \in [Inst -> Int], change[PutAsCall] = 0, \A d \in Contracts : change[d] = 0
      PROVE  Fine(act, i, change)
  <2>1. Event(act, i) \in Events
    BY <1>0, <1>4, Instruments
  <2>2. \A d : One(Event(act, i), {Sold(d)}) = 0 /\ One(Event(act, i), {Back(d)}) = 0
    BY <1>1, <1>4
  <2>3. \A d : Event(act, i) # Back(d)
    BY <1>2, <1>4
  <2>4. ASSUME NEW d \in Contracts
        PROVE  change[d] <= One(Event(act, i), {Sold(d)}) - One(Event(act, i), {Back(d)})
    <3>1. change[d] = 0
      BY <1>4
    <3>2. One(Event(act, i), {Sold(d)}) = 0 /\ One(Event(act, i), {Back(d)}) = 0
      BY <2>2
    <3> QED
      BY <3>1, <3>2
  <2>5. change \in [Inst -> Int] /\ change[PutAsCall] = 0
    BY <1>4
  <2> QED
    BY <2>1, <2>3, <2>4, <2>5
<1>12. ASSUME NEW act, NEW c, Event(act, c) \in Events, NEW change \in [Inst -> Int], change[PutAsCall] = 0,
              \A d \in Contracts : change[d] = IF d = c THEN (IF act = "sell_short" THEN 1 ELSE -1) ELSE 0,
              act = "close_short" => broker[c] > 0
       PROVE  Fine(act, c, change)
  <2>1. ASSUME NEW d \in Contracts
        PROVE  /\ change[d] <= One(Event(act, c), {Sold(d)}) - One(Event(act, c), {Back(d)})
               /\ Event(act, c) = Back(d) => broker[d] > 0
    <3>1. Event(act, c) = Back(d) => broker[d] > 0
      BY <1>2, <1>12
    <3>2. CASE act = "sell_short"
      <4>1. /\ c = d => One(Event(act, c), {Sold(d)}) = 1
            /\ c # d => One(Event(act, c), {Sold(d)}) = 0
            /\ One(Event(act, c), {Back(d)}) = 0
        BY <1>1, <3>2
      <4>2. change[d] = IF d = c THEN 1 ELSE 0
        BY <1>12, <3>2
      <4> QED
        BY <3>1, <4>1, <4>2
    <3>3. CASE act # "sell_short"
      <4>1. One(Event(act, c), {Sold(d)}) = 0 /\ One(Event(act, c), {Back(d)}) \in {0, 1}
            /\ (c # d => One(Event(act, c), {Back(d)}) = 0)
        BY <1>1, <3>3
      <4>2. change[d] = IF d = c THEN -1 ELSE 0
        BY <1>12, <3>3
      <4> QED
        BY <3>1, <4>1, <4>2
    <3> QED
      BY <3>2, <3>3
  <2> QED
    BY <1>12, <2>1
<1>5. ASSUME NEW i \in {Equity, Put}, NEW n \in {1, -1}
      PROVE  /\ Of(i, n) \in [Inst -> Int] /\ Of(i, n)[PutAsCall] = 0
             /\ \A d \in Contracts : Of(i, n)[d] = 0
  <2>1. i \in Inst /\ PutAsCall \in Inst /\ PutAsCall # i /\ \A d \in Contracts : d \in Inst /\ d # i
    BY Instruments
  <2>2. /\ Of(i, 1) \in [Inst -> Int] /\ \A j \in Inst : Of(i, 1)[j] = IF j = i THEN 1 ELSE 0
        /\ Of(i, -1) \in [Inst -> Int] /\ \A j \in Inst : Of(i, -1)[j] = IF j = i THEN -1 ELSE 0
    BY <2>1, OfIs
  <2> QED
    BY <2>1, <2>2
<1> HIDE DEF Fine
<1>6. CASE BuyLot \/ SellLot
  <2>1. \E n \in {1, -1} : Happens("buy_shares", Equity, Of(Equity, n)) \/ Happens("sell_shares", Equity, Of(Equity, n))
    BY <1>6 DEF BuyLot, SellLot
  <2>2. PICK n \in {1, -1} : Happens("buy_shares", Equity, Of(Equity, n)) \/ Happens("sell_shares", Equity, Of(Equity, n))
    BY <2>1
  <2>3. Fine("buy_shares", Equity, Of(Equity, n)) /\ Fine("sell_shares", Equity, Of(Equity, n))
    BY <1>4, <1>5 DEF Trades
  <2> QED
    BY <1>3, <2>2, <2>3
<1>7. CASE OpenPut \/ ClosePut
  <2>1. \E n \in {1, -1} : Happens("put_opened", Put, Of(Put, n)) \/ Happens("put_closed", Put, Of(Put, n))
    BY <1>7 DEF OpenPut, ClosePut
  <2>2. PICK n \in {1, -1} : Happens("put_opened", Put, Of(Put, n)) \/ Happens("put_closed", Put, Of(Put, n))
    BY <2>1
  <2>3. Fine("put_opened", Put, Of(Put, n)) /\ Fine("put_closed", Put, Of(Put, n))
    BY <1>4, <1>5 DEF Trades
  <2> QED
    BY <1>3, <2>2, <2>3
<1>8. CASE AssignPut
  <2> DEFINE change == [Of(Put, -1) EXCEPT ![Equity] = 1]
  <2>1. change \in [Inst -> Int] /\ change[PutAsCall] = 0 /\ \A d \in Contracts : change[d] = 0
    BY <1>5, Instruments
  <2>2. Happens("put_assigned", Put, change)
    BY <1>8 DEF AssignPut
  <2> HIDE DEF change
  <2> QED
    BY <1>3, <1>4, <2>1, <2>2 DEF Trades
<1>9. ASSUME NEW c \in Contracts, SellCall(c) \/ BuyCallBack(c)
      PROVE  /\ UNCHANGED <<book, job, fetched, bounds>> /\ expday' \in [Expiries -> Nat]
             /\ \E h : Traded(h)
  <2>1. c \in Inst
    BY Instruments
  <2>2. CASE SellCall(c)
    <3>1. Happens("sell_short", c, Of(c, 1))
      BY <2>2 DEF SellCall
    <3>2. Event("sell_short", c) \in Events
      BY <1>0, <2>1 DEF Trades
    <3>3. Of(c, 1) \in [Inst -> Int] /\ Of(c, 1)[PutAsCall] = 0
          /\ \A d \in Contracts : Of(c, 1)[d] = IF d = c THEN 1 ELSE 0
      BY <2>1, OfIs, Instruments
    <3>4. Fine("sell_short", c, Of(c, 1))
      BY <1>12, <3>2, <3>3
    <3> QED
      BY <1>3, <3>1, <3>4
  <2>3. CASE BuyCallBack(c)
    <3>1. Happens("close_short", c, Of(c, -1)) /\ broker[c] > 0
      BY <2>3 DEF BuyCallBack
    <3>2. Event("close_short", c) \in Events
      BY <1>0, <2>1 DEF Trades
    <3>3. Of(c, -1) \in [Inst -> Int] /\ Of(c, -1)[PutAsCall] = 0
          /\ \A d \in Contracts : Of(c, -1)[d] = IF d = c THEN -1 ELSE 0
      BY <2>1, OfIs, Instruments
    <3>4. Fine("close_short", c, Of(c, -1))
      BY <1>12, <3>1, <3>2, <3>3
    <3> QED
      BY <1>3, <3>1, <3>4
  <2> QED
    BY <1>9, <2>2, <2>3
<1>10. ASSUME NEW c \in Contracts, Settle(c)
       PROVE  /\ UNCHANGED <<book, job, fetched, bounds>> /\ expday' \in [Expiries -> Nat]
              /\ \E h : Traded(h)
  <2>1. c \in Inst
    BY Instruments
  <2> DEFINE away == [Of(c, -1) EXCEPT ![Equity] = -1]
  <2>2. Of(c, -1) \in [Inst -> Int] /\ Of(c, -1)[PutAsCall] = 0
        /\ \A d \in Contracts : Of(c, -1)[d] = IF d = c THEN -1 ELSE 0
    BY <2>1, OfIs, Instruments
  <2>3. away \in [Inst -> Int] /\ away[PutAsCall] = 0
        /\ \A d \in Contracts : away[d] = IF d = c THEN -1 ELSE 0
    BY <2>2, Instruments
  <2>4. Happens("called_away", c, away) \/ Happens("expired", c, Of(c, -1))
    BY <1>10 DEF Settle
  <2> HIDE DEF away
  <2>5. Event("called_away", c) \in Events /\ Event("expired", c) \in Events
    BY <1>0, <2>1
  <2>6. Fine("called_away", c, away)
    BY <1>12, <2>3, <2>5
  <2>7. Fine("expired", c, Of(c, -1))
    <3> DEFINE change == Of(c, -1)
    <3>1. change \in [Inst -> Int] /\ change[PutAsCall] = 0
          /\ \A d \in Contracts : change[d] = IF d = c THEN -1 ELSE 0
      BY <2>2
    <3> HIDE DEF change
    <3>2. Fine("expired", c, change)
      BY <1>12, <2>5, <3>1
    <3> QED
      BY <3>2 DEF change
  <2> QED
    BY <1>3, <2>4, <2>6, <2>7
<1>11. ASSUME NEW e \in Expiries, Expire(e)
       PROVE  /\ UNCHANGED <<book, job, fetched, bounds>> /\ expday' \in [Expiries -> Nat]
              /\ UNCHANGED <<history, broker>>
  <2>1. 2 * Len(history) + 1 \in Nat
    BY SeqFacts
  <2> QED
    BY <1>11, <2>1 DEF Expire
<1> QED
  BY <1>6, <1>7, <1>8, <1>9, <1>10, <1>11 DEF BrokerStep

-----------------------------------------------------------------------------
(* The writes to come.                                                      *)

ToDo(s) ==
  /\ s.do \in {"append", "apply"} => Entry(s.e)
  /\ s.do = "apply" => s.e.act \in Acts
  /\ s.do = "legs" => s.legs \in Seq(Legs)
JobOK(j) == IsSeq(j) /\ \A k \in 1..Len(j) : ToDo(j[k])
LogOK(l) == IsSeq(l) /\ \A k \in 1..Len(l) : Entry(l[k])

LEMMA ExecutionIs ==
  ASSUME NEW day \in Nat, NEW act \in Acts \union {"position_rebuild"}, NEW c, NEW n, NEW why,
         act = "sell_short" => c \in Contracts
  PROVE  /\ Entry(Execution(day, act, c, n, why)) /\ Execution(day, act, c, n, why).act = act
         /\ Execution(day, act, c, n, why).day = day /\ Execution(day, act, c, n, why).c = c
         /\ Execution(day, act, c, n, why).n = n /\ ~Execution(day, act, c, n, why).void
BY DEF Entry, Execution

LEMMA Steps ==
  /\ \A e : Entry(e) => ToDo(AppendStep(e))
  /\ \A e, t, i, s : Entry(e) /\ e.act \in Acts => ToDo(ApplyStep(e, t, i, s))
  /\ ToDo([do |-> "heal"])
  /\ \A i : ToDo([do |-> "mark", ids |-> i])
  /\ \A q, i : q \in Seq(Legs) => ToDo([do |-> "legs", legs |-> q, ids |-> i])
<1>1. \A e : Entry(e) => ToDo(AppendStep(e))
  BY DEF ToDo, AppendStep
<1>2. \A e, t, i, s : Entry(e) /\ e.act \in Acts => ToDo(ApplyStep(e, t, i, s))
  BY DEF ToDo, ApplyStep
<1>3. ToDo([do |-> "heal"])
  BY DEF ToDo
<1>4. \A i : ToDo([do |-> "mark", ids |-> i])
  BY DEF ToDo
<1>5. \A q, i : q \in Seq(Legs) => ToDo([do |-> "legs", legs |-> q, ids |-> i])
  BY DEF ToDo
<1> QED
  BY <1>1, <1>2, <1>3, <1>4, <1>5

LEMMA Jobs ==
  /\ JobOK(<< >>) /\ JobOK(HealStep)
  /\ \A a, b : ToDo(a) /\ ToDo(b) => JobOK(<<a>>) /\ JobOK(<<a, b>>)
  /\ \A e, t : Entry(e) /\ e.act \in Acts => JobOK(Booking(e, t))
<1>1. JobOK(<< >>)
  <2>1. 1..0 = {}
    OBVIOUS
  <2>2. IsSeq(<< >>) /\ Len(<< >>) = 0
    BY Short
  <2> QED
    BY <2>1, <2>2 DEF JobOK
<1>2. ASSUME NEW a, NEW b, ToDo(a), ToDo(b) PROVE JobOK(<<a>>) /\ JobOK(<<a, b>>)
  <2>1. \A k \in 1..1 : k = 1
    OBVIOUS
  <2>2. \A k \in 1..2 : k = 1 \/ k = 2
    OBVIOUS
  <2>3. \A k \in 1..Len(<<a>>) : ToDo(<<a>>[k])
    BY <1>2, <2>1, Short
  <2>4. \A k \in 1..Len(<<a, b>>) : ToDo(<<a, b>>[k])
    BY <1>2, <2>2, Short
  <2> QED
    BY <2>3, <2>4, Short DEF JobOK
<1>3. JobOK(HealStep)
  BY <1>2, Steps DEF HealStep
<1>4. \A e, t : Entry(e) /\ e.act \in Acts => JobOK(Booking(e, t))
  BY <1>2, Steps DEF Booking
<1> QED
  BY <1>1, <1>2, <1>3, <1>4

LEMMA Joined == ASSUME NEW l, NEW m, JobOK(l), JobOK(m) PROVE JobOK(l \o m)
<1>0. IsSeq(l) /\ IsSeq(m) /\ (\A k \in 1..Len(l) : ToDo(l[k])) /\ (\A k \in 1..Len(m) : ToDo(m[k]))
  BY DEF JobOK
<1>1. PICK X : l \in Seq(X)
  BY <1>0 DEF IsSeq
<1>2. PICK Y : m \in Seq(Y)
  BY <1>0 DEF IsSeq
<1> DEFINE Z == X \union Y
<1>3. l \in Seq(Z) /\ m \in Seq(Z)
  BY <1>1, <1>2
<1> HIDE DEF Z
<1>4. l \o m \in Seq(Z) /\ Len(l \o m) = Len(l) + Len(m) /\ Len(l) \in Nat /\ Len(m) \in Nat
  BY <1>3
<1>5. ASSUME NEW i \in 1..Len(l \o m) PROVE ToDo((l \o m)[i])
  <2>1. CASE i <= Len(l)
    <3>1. i \in 1..Len(l) /\ (l \o m)[i] = l[i]
      BY <1>3, <1>4, <2>1
    <3> QED
      BY <1>0, <3>1
  <2>2. CASE ~(i <= Len(l))
    <3>1. i - Len(l) \in 1..Len(m) /\ (l \o m)[i] = m[i - Len(l)]
      BY <1>3, <1>4, <2>2
    <3> QED
      BY <1>0, <3>1
  <2> QED
    BY <2>1, <2>2
<1> QED
  BY <1>4, <1>5 DEF IsSeq, JobOK

LEMMA NextStep ==
  ASSUME NEW j, JobOK(j), j # << >>
  PROVE  ToDo(Head(j)) /\ JobOK(Tail(j))
<1>1. /\ IsSeq(Tail(j)) /\ Len(Tail(j)) = Len(j) - 1 /\ Len(j) >= 1 /\ Head(j) = j[1]
      /\ \A i \in 1..Len(j) - 1 : Tail(j)[i] = j[i + 1]
  BY AnyTail DEF JobOK
<1>2. Len(j) \in Nat
  BY AnySeq DEF JobOK
<1>3. \A i \in 1..Len(j) - 1 : i + 1 \in 1..Len(j)
  BY <1>2
<1>4. 1 \in 1..Len(j)
  BY <1>1, <1>2
<1> QED
  BY <1>1, <1>3, <1>4 DEF JobOK

LEMMA LogGrows == ASSUME NEW l, LogOK(l), NEW e, Entry(e) PROVE LogOK(Append(l, e))
<1>1. /\ IsSeq(Append(l, e)) /\ Len(Append(l, e)) = Len(l) + 1
      /\ \A i \in 1..Len(l) : Append(l, e)[i] = l[i]
      /\ Append(l, e)[Len(l) + 1] = e
  BY AnyAppend DEF LogOK
<1>2. Len(l) \in Nat
  BY AnySeq DEF LogOK
<1>3. \A i \in 1..Len(l) + 1 : i \in 1..Len(l) \/ i = Len(l) + 1
  BY <1>2
<1> QED
  BY <1>1, <1>3 DEF LogOK

LEMMA LogMarked ==
  ASSUME NEW l, LogOK(l), NEW k \in DOMAIN l, NEW v PROVE LogOK([l EXCEPT ![k].void = v])
<1> DEFINE x == [l[k] EXCEPT !.void = v]
<1>1. k \in 1..Len(l) /\ Entry(l[k])
  BY AnySeq DEF LogOK
<1>2. Entry(x)
  <2> DEFINE e == l[k]
  <2>1. Entry(e)
    BY <1>1
  <2>2. x = [e EXCEPT !.void = v]
    OBVIOUS
  <2> HIDE DEF e, x
  <2> DEFINE d == e.day  a == e.act  c == e.c  n == e.n  y == e.why
  <2>3. e = [day |-> d, act |-> a, c |-> c, n |-> n, why |-> y, void |-> e.void]
    BY <2>1 DEF Entry
  <2>4. d \in Nat /\ a \in Acts \union {"position_rebuild"} /\ (a = "sell_short" => c \in Contracts)
    BY <2>1 DEF Entry
  <2> HIDE DEF d, a, c, n, y
  <2>5. x = [day |-> d, act |-> a, c |-> c, n |-> n, why |-> y, void |-> v]
    BY <2>2, <2>3
  <2> QED
    BY <2>4, <2>5 DEF Entry
<1>3. [l EXCEPT ![k].void = v] = [l EXCEPT ![k] = x]
  OBVIOUS
<1> HIDE DEF x
<1>4. /\ IsSeq([l EXCEPT ![k] = x]) /\ Len([l EXCEPT ![k] = x]) = Len(l)
      /\ \A i \in 1..Len(l) : [l EXCEPT ![k] = x][i] = IF i = k THEN x ELSE l[i]
  BY AnyWritten DEF LogOK
<1> QED
  BY <1>2, <1>3, <1>4 DEF LogOK

\* The legs of a replay are contracts, whatever the log.
LEMMA CallsTyped == ASSUME NEW l, LogOK(l) PROVE Calls(l) \in Seq(Contracts)
<1> DEFINE n == Len(l)
           S == Standing(l)
<1>1. n \in Nat /\ DOMAIN l = 1..n /\ \A i \in 1..n : Entry(l[i])
  BY AnySeq DEF LogOK
<1>2. S \in SUBSET (1..n) /\ Ordered("calls", l, n)
  BY <1>1 DEF Standing, Ordered, Entry
<1>3. PICK g : Folds(g, "calls", 0, l, S) /\ Calls(l) = g[S]
  BY <1>2, CallsAre
<1> DEFINE c == Cardinality(S)
           Bad == {m \in 0..c : ~\A ks \in SUBSET S : Cardinality(ks) = m => g[ks] \in Seq(Contracts)}
<1> HIDE DEF S, n
<1>4. IsFiniteSet(S) /\ c \in Nat /\ c = Cardinality(S) /\ \A ks \in SUBSET S : ks \in SUBSET (1..n) /\ IsFiniteSet(ks)
  <2>1. IsFiniteSet(1..n)
    BY <1>1, FS_Interval DEF n
  <2>2. IsFiniteSet(S)
    BY <1>2, <2>1, FS_Subset
  <2> QED
    BY <1>2, <2>2, FS_Subset, FS_CardinalityType
<1> HIDE DEF c
<1>5. 0 \notin Bad
  <2>1. ASSUME NEW ks \in SUBSET S, Cardinality(ks) = 0 PROVE g[ks] = << >>
    <3>1. ks = {}
      BY <1>4, <2>1, FS_EmptySet
    <3> QED
      BY <1>3, <3>1 DEF Folds, Undone, Base
  <2>2. << >> \in Seq(Contracts)
    OBVIOUS
  <2> QED
    BY <2>1, <2>2
<1>6. ASSUME NEW m \in 0..c - 1, m \notin Bad PROVE m + 1 \notin Bad
  <2>1. ASSUME NEW ks \in SUBSET S, Cardinality(ks) = m + 1 PROVE g[ks] \in Seq(Contracts)
    <3> DEFINE t == Top("calls", l, ks)
               q == g[ks \ {t}]
               e == l[t]
    <3>1. m \in Nat /\ m \in 0..c
      BY <1>4
    <3>2. ks # {}
      <4>1. Cardinality({}) = 0
        BY FS_EmptySet
      <4> QED
        BY <2>1, <3>1, <4>1
    <3>3. ks \in SUBSET (1..n)
      BY <1>4
    <3>4. t \in ks /\ Cardinality(ks \ {t}) = Cardinality(ks) - 1
      BY <1>2, <3>2, <3>3, TopIs, Fewer
    <3>5. ks \ {t} \in SUBSET S /\ Cardinality(ks \ {t}) = m
      BY <2>1, <3>1, <3>4
    <3>6. q \in Seq(Contracts)
      BY <1>6, <3>1, <3>5
    <3>7. Entry(e)
      BY <1>1, <3>3, <3>4 DEF n
    <3>8. g[ks] = ReplayCall(q, e)
      BY <1>3, <3>2 DEF Folds, Undone, Step
    <3> HIDE DEF t, q, e
    <3>9. Contracts \in SUBSET Legs
      BY DEF Legs
    <3>10. CASE e.act = "sell_short"
      BY <3>6, <3>7, <3>8, <3>10 DEF ReplayCall, Entry
    <3>11. CASE e.act = "close_short"
      <4>1. g[ks] = TakePair(q, e.c, e.n)
        BY <3>8, <3>11 DEF ReplayCall, TakePair
      <4> QED
        BY <3>6, <3>9, <4>1, TakeTyped
    <3>12. CASE e.act \notin {"sell_short", "close_short"}
      BY <3>6, <3>8, <3>12 DEF ReplayCall
    <3> QED
      BY <3>10, <3>11, <3>12
  <2> QED
    BY <2>1
<1>7. Bad \in SUBSET (0..c)
  OBVIOUS
<1>8. c \in 0..c
  BY <1>4
<1> HIDE DEF Bad
<1>9. Bad = {}
  BY <1>4, <1>5, <1>6, <1>7, UpTo
<1>10. \A ks \in SUBSET S : Cardinality(ks) = c => g[ks] \in Seq(Contracts)
  BY <1>8, <1>9 DEF Bad
<1> QED
  BY <1>3, <1>4, <1>10

-----------------------------------------------------------------------------
(* What holds of the writes, the log and the position in every state.       *)

Grave(diffs) == {id \in Ids(diffs) : ~Benign(id)}
BookOK ==
  /\ history \in Seq(Events)
  /\ broker \in [Inst -> Int] /\ broker[PutAsCall] = 0
  /\ expday \in [Expiries -> Nat]
  /\ LogOK(log) /\ JobOK(job)
  /\ Whole(pos) /\ pos.calls \in Seq(Legs)
Frozen ==
  /\ pos.status = None => pos.review = {}
  /\ report.ok => pos.review \subseteq Grave(report.diffs)

LEMMA BookInit == Init => BookOK /\ Frozen
<1> SUFFICES ASSUME Init PROVE BookOK /\ Frozen
  OBVIOUS
<1>1. history \in Seq(Events) /\ expday \in [Expiries -> Nat]
  BY DEF Init
<1>2. broker \in [Inst -> Int] /\ broker[PutAsCall] = 0
  BY Instruments DEF Init, Nothing
<1>3. LogOK(log) /\ JobOK(job)
  <2>1. log = << >> /\ job = << >>
    BY DEF Init
  <2>2. 1..0 = {}
    OBVIOUS
  <2>3. IsSeq(<< >>) /\ Len(<< >>) = 0
    BY Short
  <2> QED
    BY <2>1, <2>2, <2>3, Jobs DEF LogOK
<1>4. pos = Made(None, 0, << >>, 0, {})
  BY DEF Init, Made
<1>5. Whole(pos) /\ pos.calls = << >> /\ pos.review = {}
  BY <1>4, MadeIs
<1>6. << >> \in Seq(Legs)
  OBVIOUS
<1> QED
  BY <1>1, <1>2, <1>3, <1>5, <1>6 DEF BookOK, Frozen

LEMMA DayOfIs == BookOK => \A x : DayOf(x) \in Nat
<1>1. 2 * MaxEvents + 2 \in Nat
  BY MirrorAssumption
<1> QED
  BY <1>1 DEF BookOK, DayOf


LEMMA ReevaluatedHere ==
  ASSUME BookOK, Frozen, NEW p, Whole(p), p.calls \in Seq(Legs), p.review = pos.review, NEW res,
         p.status = None => pos.status = None
  PROVE  LET q == reevaluate_freezes(p, report, res) IN
         /\ Whole(q) /\ q.calls = p.calls /\ q.status = p.status /\ q.shares = p.shares
         /\ q.status = None => q.review = {}
         /\ report.ok => q.review \subseteq Grave(report.diffs)
         /\ report.ok /\ q.status # "closed" => \A id \in pos.review : id \in q.review \/ id \in res
<1> DEFINE q == reevaluate_freezes(p, report, res)
<1>1. /\ Whole(q) /\ q.status = p.status /\ q.shares = p.shares /\ q.calls = p.calls /\ q.puts = p.puts
      /\ p.status = None => q.review = p.review
      /\ p.status = "closed" => q.review = {}
      /\ p.status \notin {None, "closed"} =>
           q.review = {id \in Ids(report.diffs) : ~Benign(id) /\ id \notin res}
  BY Reevaluated
<1> SUFFICES /\ Whole(q) /\ q.calls = p.calls /\ q.status = p.status /\ q.shares = p.shares
             /\ q.status = None => q.review = {}
             /\ report.ok => q.review \subseteq Grave(report.diffs)
             /\ report.ok /\ q.status # "closed" => \A id \in pos.review : id \in q.review \/ id \in res
  OBVIOUS
<1> HIDE DEF q
<1>2. p.status = None => p.review = {}
  BY DEF Frozen
<1>3. CASE p.status = None
  BY <1>1, <1>2, <1>3 DEF None
<1>4. CASE p.status = "closed"
  BY <1>1, <1>4 DEF None
<1>5. CASE p.status \notin {None, "closed"}
  <2>1. report.ok => \A id \in pos.review : id \in Ids(report.diffs) /\ ~Benign(id)
    BY DEF Frozen, Grave
  <2>2. q.review = {id \in Ids(report.diffs) : ~Benign(id) /\ id \notin res}
    BY <1>1, <1>5
  <2>3. q.review \subseteq Grave(report.diffs)
    BY <2>2 DEF Grave
  <2> QED
    BY <1>1, <1>5, <2>1, <2>2, <2>3
<1> QED
  BY <1>3, <1>4, <1>5

\* A write of the position under the report at hand.
Thawed ==
  report.ok /\ pos'.status # "closed" =>
    \A id \in pos.review : id \in pos'.review \/ id \in resolutions' \/ (report' # report /\ report'.ok)
Rewrite ==
  /\ Whole(pos') /\ pos'.calls \in Seq(Legs) /\ UNCHANGED report
  /\ pos'.status = None => pos'.review = {}
  /\ report.ok => pos'.review \subseteq Grave(report.diffs)
  /\ report.ok /\ pos'.status # "closed" => \A id \in pos.review : id \in pos'.review \/ id \in resolutions'

LEMMA Marked ==
  ASSUME BookOK, Frozen, NEW p, Whole(p), p.calls \in Seq(Legs), p.review = pos.review,
         p.status = None => pos.status = None, UNCHANGED report,
         pos' = p \/ pos' = reevaluate_freezes(p, report, resolutions')
  PROVE  Rewrite
<1>1. CASE pos' = p
  BY <1>1 DEF Frozen, Rewrite
<1>2. CASE pos' = reevaluate_freezes(p, report, resolutions')
  <2> DEFINE res == resolutions'
             q == reevaluate_freezes(p, report, res)
  <2>1. /\ Whole(q) /\ q.calls = p.calls /\ q.status = p.status
        /\ q.status = None => q.review = {}
        /\ report.ok => q.review \subseteq Grave(report.diffs)
        /\ report.ok /\ q.status # "closed" => \A id \in pos.review : id \in q.review \/ id \in res
    BY ReevaluatedHere
  <2>2. pos' = q /\ resolutions' = res
    BY <1>2
  <2> HIDE DEF q, res
  <2> QED
    BY <2>1, <2>2 DEF Rewrite
<1> QED
  BY <1>1, <1>2

\* The position as a job's step leaves it.
LEMMA AppliedIs ==
  ASSUME BookOK, Frozen, apply
  PROVE  Rewrite /\ JobOK(job')
<1> DEFINE s == Head(job)
<1>1. /\ job # << >> /\ s.do = "apply" /\ UNCHANGED report
      /\ \/ job' = << >> /\ UNCHANGED pos
         \/ pos' = Applied(s, resolutions') /\ job' = Tail(job)
  BY DEF apply
<1>2. ToDo(s) /\ JobOK(Tail(job))
  BY <1>1, NextStep DEF BookOK
<1>3. Entry(s.e) /\ s.e.act \in Acts
  BY <1>1, <1>2 DEF ToDo
<1> HIDE DEF s
<1> DEFINE start == _ensure_position(pos)
           p == position_update(start, s.e)
           q == IF s.tidy THEN _close_if_empty(p) ELSE p
<1>4. Restated(start, pos) /\ start.status # None
  BY Restates DEF BookOK
<1>5. Whole(start) /\ start.calls \in Seq(Legs) /\ start.review = pos.review /\ start.status # None
  BY <1>4 DEF Restated, BookOK
<1> HIDE DEF start
<1>6. Updated(p, start)
  BY <1>3, <1>5, Updates
<1>7. Whole(p) /\ p.calls \in Seq(Legs) /\ p.review = pos.review /\ p.status # None
  BY <1>5, <1>6 DEF Updated, None
<1> HIDE DEF p
<1>8. Restated(_close_if_empty(p), p)
  BY <1>7, Restates
<1>9. Whole(q) /\ q.calls \in Seq(Legs) /\ q.review = pos.review /\ q.status # None
  BY <1>7, <1>8 DEF Restated, None
<1>10. Applied(s, resolutions') = q \/ Applied(s, resolutions') = reevaluate_freezes(q, report, resolutions')
  BY DEF Applied, q, p, start
<1> HIDE DEF q
<1>11. CASE pos' = Applied(s, resolutions') /\ job' = Tail(job)
  BY <1>1, <1>2, <1>9, <1>10, <1>11, Marked
<1>12. CASE job' = << >> /\ UNCHANGED pos
  BY <1>1, <1>12, Marked, Jobs DEF BookOK
<1> QED
  BY <1>1, <1>11, <1>12

LEMMA MarkIs == ASSUME BookOK, Frozen, mark_diff_resolved PROVE Rewrite /\ JobOK(job')
<1>1. /\ job # << >> /\ job' = Tail(job) /\ UNCHANGED report
      /\ pos' = pos \/ pos' = reevaluate_freezes(pos, report, resolutions')
  BY DEF mark_diff_resolved
<1>2. JobOK(Tail(job))
  BY <1>1, NextStep DEF BookOK
<1>3. Rewrite
  BY <1>1, Marked DEF BookOK
<1> QED
  BY <1>1, <1>2, <1>3

\* What the replay gives in place of what the position had.
LEMMA RebuiltIs ==
  ASSUME BookOK, NEW p, Whole(p), p.calls \in Seq(Legs)
  PROVE  /\ LET q == RebuiltShares(p) IN
              /\ Whole(q) /\ q.shares = Lots(log) /\ q.calls = p.calls /\ q.review = p.review /\ q.status # None
         /\ LET q == RebuiltCalls(p) IN
              /\ Whole(q) /\ q.shares = p.shares /\ q.calls = Calls(log) /\ q.review = p.review /\ q.status # None
         /\ Calls(log) \in Seq(Contracts) /\ Calls(log) \in Seq(Legs)
<1>1. RebuiltShares(p) = Rederived(WithShares(p, Lots(log)))
  BY ReplayIs DEF RebuiltShares, WithShares
<1>2. RebuiltCalls(p) = Rederived(WithCalls(p, Calls(log)))
  BY ReplayIs DEF RebuiltCalls, WithCalls
<1>3. LET q == WithShares(p, Lots(log)) IN
        Whole(q) /\ q.shares = Lots(log) /\ q.calls = p.calls /\ q.review = p.review
  BY Fields
<1>4. LET q == WithCalls(p, Calls(log)) IN
        Whole(q) /\ q.shares = p.shares /\ q.calls = Calls(log) /\ q.review = p.review
  BY Fields
<1>5. Calls(log) \in Seq(Contracts)
  BY CallsTyped DEF BookOK
<1>6. Contracts \subseteq Legs
  BY DEF Legs
<1>7. Calls(log) \in Seq(Legs)
  BY <1>5, <1>6, Sub
<1>8. ASSUME NEW r, Whole(r)
      PROVE  LET q == Rederived(r) IN
             Whole(q) /\ q.shares = r.shares /\ q.calls = r.calls /\ q.review = r.review /\ q.status # None
  BY <1>8, Restates DEF Restated
<1> QED
  BY <1>1, <1>2, <1>3, <1>4, <1>5, <1>7, <1>8

LEMMA LegsSet == ASSUME BookOK, Frozen, set_legs PROVE Rewrite /\ JobOK(job')
<1> DEFINE s == Head(job)
           r == WithCalls(pos, s.legs)
           q == Rederived(r)
<1>1. /\ job # << >> /\ s.do = "legs" /\ job' = Tail(job) /\ UNCHANGED report
      /\ pos' = reevaluate_freezes(q, report, resolutions')
  BY DEF set_legs, WithCalls
<1>2. JobOK(Tail(job)) /\ ToDo(s)
  BY <1>1, NextStep DEF BookOK
<1>3. s.legs \in Seq(Legs)
  BY <1>1, <1>2 DEF ToDo
<1> HIDE DEF s
<1>4. Whole(r) /\ r.calls = s.legs /\ r.review = pos.review
  BY Fields DEF BookOK
<1> HIDE DEF r
<1>5. Whole(q) /\ q.calls = s.legs /\ q.review = pos.review /\ q.status # None
  BY <1>4, Restates DEF Restated
<1> HIDE DEF q
<1>6. Rewrite
  BY <1>1, <1>3, <1>5, Marked
<1> QED
  BY <1>1, <1>2, <1>6

\* The heal: a replay where the broker confirms it, or nothing.
Healed(q) ==
  /\ Whole(q) /\ q.calls \in Seq(Legs) /\ q.review = pos.review
  /\ q.status = None => pos.status = None
  /\ q.shares = (IF pos.status # None /\ SharesDrift /\ SharesConfirmed THEN Lots(log) ELSE pos.shares)
  /\ q.calls = (IF pos.status # None /\ CallsDrift /\ CallsConfirmed THEN Calls(log) ELSE pos.calls)

LEMMA HealIs ==
  ASSUME BookOK, heal
  PROVE  \E q : Healed(q) /\ (pos' = q \/ pos' = reevaluate_freezes(q, report, resolutions))
<1>1. CASE pos.status = None
  <2>1. pos' = pos
    BY <1>1 DEF heal
  <2>2. Healed(pos)
    BY <1>1 DEF Healed, BookOK
  <2> QED
    BY <2>1, <2>2
<1>2. CASE pos.status # None
  <2> DEFINE p == IF SharesDrift /\ SharesConfirmed THEN RebuiltShares(pos) ELSE pos
             q == IF CallsDrift /\ CallsConfirmed THEN RebuiltCalls(p) ELSE p
  <2>1. (pos' = pos /\ ~(SharesDrift /\ SharesConfirmed) /\ ~(CallsDrift /\ CallsConfirmed))
        \/ pos' = reevaluate_freezes(q, report, resolutions)
    BY <1>2 DEF heal
  <2>2. /\ Whole(p) /\ p.calls = pos.calls /\ p.review = pos.review /\ p.status # None
        /\ p.shares = (IF SharesDrift /\ SharesConfirmed THEN Lots(log) ELSE pos.shares)
    BY <1>2, RebuiltIs DEF BookOK
  <2>3. p.calls \in Seq(Legs) /\ pos.calls \in Seq(Legs)
    BY <2>2 DEF BookOK
  <2> HIDE DEF p
  <2>4. /\ Whole(q) /\ q.shares = p.shares /\ q.review = p.review /\ q.status # None
        /\ q.calls = (IF CallsDrift /\ CallsConfirmed THEN Calls(log) ELSE pos.calls)
        /\ q.calls \in Seq(Legs)
    BY <2>2, <2>3, RebuiltIs
  <2>5. Healed(q)
    BY <1>2, <2>2, <2>4 DEF Healed
  <2>6. ~(SharesDrift /\ SharesConfirmed) /\ ~(CallsDrift /\ CallsConfirmed) => q = pos
    BY DEF q, p
  <2> HIDE DEF q
  <2> QED
    BY <2>1, <2>5, <2>6
<1> QED
  BY <1>1, <1>2

LEMMA Started ==
  ASSUME BookOK, NEW steps, Start(steps), JobOK(steps)
  PROVE  UNCHANGED <<market, book, fetched>> /\ JobOK(job')
BY DEF Start

LEMMA CommitIs ==
  ASSUME BookOK, NEW i \in DOMAIN history, _commit(i) \/ adopt_broker_trade(i)
  PROVE  UNCHANGED <<market, book, fetched>> /\ JobOK(job')
<1>1. i \in 1..Len(history) /\ history[i] \in Events /\ i \in Nat
  BY SeqFacts DEF BookOK
<1>2. history[i].act \in Trades
  BY DEF _commit, adopt_broker_trade, Unbooked
<1>3. history[i].act \in Acts /\ (history[i].act = "sell_short" => history[i].c \in Contracts)
  BY <1>1, <1>2 DEF Events, Acts
<1>4. Entry(TradeExecution(i)) /\ TradeExecution(i).act \in Acts
  <2>1. 2 * i \in Nat
    BY <1>1
  <2> QED
    BY <1>3, <2>1, ExecutionIs DEF TradeExecution
<1>5. \A t : JobOK(Booking(TradeExecution(i), t))
  BY <1>4, Jobs
<1>6. CASE _commit(i)
  BY <1>5, <1>6, Started DEF _commit
<1>7. CASE adopt_broker_trade(i)
  <2>1. JobOK(Booking(TradeExecution(i), TRUE) \o HealStep)
    BY <1>5, Jobs, Joined
  <2> QED
    BY <1>7, <2>1, Started DEF adopt_broker_trade
<1> QED
  BY <1>6, <1>7

LEMMA AdjustmentIs ==
  ASSUME BookOK, NEW k, _adjustment(k)
  PROVE  UNCHANGED <<market, book, fetched>> /\ JobOK(job')
<1>1. PICK e, i : /\ Start(<<AppendStep(e), ApplyStep(e, FALSE, i, FALSE)>>)
                  /\ \E c, n : e = Execution(0, "adjustment", c, n, "adjustment")
  BY DEF _adjustment, Fix
<1>2. Entry(e) /\ e.act \in Acts
  <2>1. PICK c, n : e = Execution(0, "adjustment", c, n, "adjustment")
    BY <1>1
  <2>2. 0 \in Nat /\ "adjustment" \in Acts
    BY DEF Acts
  <2> QED
    BY <2>1, <2>2, ExecutionIs
<1>3. ToDo(AppendStep(e)) /\ ToDo(ApplyStep(e, FALSE, i, FALSE))
  BY <1>2, Steps
<1> QED
  BY <1>1, <1>3, Jobs, Started

LEMMA ExpiryIs ==
  ASSUME BookOK, NEW k, resolve_expiry(k)
  PROVE  UNCHANGED <<market, book, fetched>> /\ JobOK(job')
<1>1. PICK e, i : /\ Start(<<AppendStep(e), ApplyStep(e, FALSE, i, TRUE)>>)
                  /\ \E x, c, n : e = Execution(DayOf(x), "close_short", c, n, "expired_worthless")
  BY DEF resolve_expiry, Fix
<1>2. Entry(e) /\ e.act \in Acts
  BY <1>1, DayOfIs, ExecutionIs DEF Acts, Trades
<1>3. ToDo(AppendStep(e)) /\ ToDo(ApplyStep(e, FALSE, i, TRUE))
  BY <1>2, Steps
<1> QED
  BY <1>1, <1>3, Jobs, Started

LEMMA CalledAwayIs ==
  ASSUME BookOK, NEW k, NEW asked, record_called_away(k, asked)
  PROVE  UNCHANGED <<market, book, fetched>> /\ JobOK(job')
<1>1. PICK c, n, i : /\ job' = _commit_assignment(c, n) \o <<[do |-> "mark", ids |-> i]>> \o HealStep
                     /\ UNCHANGED <<market, book, fetched>>
  BY DEF record_called_away
<1> DEFINE close == Execution(DayOf(c.exp), "close_short", [strike |-> c.strike, exp |-> FirstExpiry(c.strike)],
                              n, "assigned")
           delivery == Execution(DayOf(c.exp), "close_shares_assigned", Equity, n, "assigned")
<1>2. DayOf(c.exp) \in Nat
  BY DayOfIs
<1>3. Entry(close) /\ close.act \in Acts
  BY <1>2, ExecutionIs DEF Acts, Trades
<1>4. Entry(delivery) /\ delivery.act \in Acts
  BY <1>2, ExecutionIs DEF Acts, Trades
<1>5. _commit_assignment(c, n) = Booking(close, FALSE) \o Booking(delivery, FALSE)
      \/ _commit_assignment(c, n) = << >> \o Booking(delivery, FALSE)
  BY DEF _commit_assignment
<1> HIDE DEF close, delivery
<1>6. JobOK(Booking(close, FALSE)) /\ JobOK(Booking(delivery, FALSE)) /\ JobOK(<< >>)
  BY <1>3, <1>4, Jobs
<1>7. JobOK(_commit_assignment(c, n))
  BY <1>5, <1>6, Joined
<1>8. JobOK(<<[do |-> "mark", ids |-> i]>>) /\ JobOK(HealStep)
  BY Steps, Jobs
<1>9. JobOK(_commit_assignment(c, n) \o <<[do |-> "mark", ids |-> i]>>)
  BY <1>7, <1>8, Joined
<1>10. JobOK(_commit_assignment(c, n) \o <<[do |-> "mark", ids |-> i]>> \o HealStep)
  BY <1>8, <1>9, Joined
<1> QED
  BY <1>1, <1>10

LEMMA LegsIs ==
  ASSUME BookOK, rebuild_position_from_broker
  PROVE  UNCHANGED <<market, book, fetched>> /\ JobOK(job')
<1> DEFINE i == {k \in DOMAIN report.diffs : Diff(k).inst # Equity}
<1>1. PICK legs \in BrokerLegs :
        Start(<<AppendStep(Execution(0, "position_rebuild", Equity, 0, "broker")),
                [do |-> "legs", legs |-> legs, ids |-> i]>>)
  BY DEF rebuild_position_from_broker, Fix
<1>2. legs \in Seq(Legs)
  <2>1. legs \in BoundedSeq(Legs, MaxLots + 1)
    BY DEF BrokerLegs, Legs
  <2>2. PICK m \in 0..MaxLots + 1 : legs \in [1..m -> Legs]
    BY <2>1 DEF BoundedSeq, SeqOf
  <2>3. m \in Nat
    BY MirrorAssumption
  <2> QED
    BY <2>2, <2>3
<1>3. ToDo([do |-> "legs", legs |-> legs, ids |-> i])
  BY <1>2, Steps
<1>4. Entry(Execution(0, "position_rebuild", Equity, 0, "broker"))
  BY ExecutionIs
<1>5. ToDo(AppendStep(Execution(0, "position_rebuild", Equity, 0, "broker")))
  BY <1>4, Steps
<1> QED
  BY <1>1, <1>3, <1>5, Jobs, Started

-----------------------------------------------------------------------------
(* Every step keeps the types, and thaws nothing that it may not.           *)

LEMMA BookNext ==
  ASSUME BookOK, Frozen, Next
  PROVE  BookOK' /\ Frozen' /\ Thawed
<1>0. pos.status = None => pos.review = {}
  BY DEF Frozen
<1>1. ASSUME UNCHANGED <<history, broker, expday, log, pos, report>>, JobOK(job')
      PROVE  BookOK' /\ Frozen' /\ Thawed
  <2>1. BookOK' /\ Frozen'
    BY <1>1 DEF BookOK, Frozen
  <2>2. Thawed
    BY <1>1 DEF Thawed
  <2> QED
    BY <2>1, <2>2
<1>2. ASSUME UNCHANGED <<history, broker, expday, log>>, JobOK(job'), Rewrite
      PROVE  BookOK' /\ Frozen' /\ Thawed
  <2>1. BookOK'
    BY <1>2 DEF BookOK, Rewrite
  <2>2. Frozen' /\ Thawed
    BY <1>2 DEF Frozen, Thawed, Rewrite
  <2> QED
    BY <2>1, <2>2
<1>3. JobOK(job)
  BY DEF BookOK
<1>4. CASE BrokerStep
  <2>1. /\ UNCHANGED <<book, job>> /\ expday' \in [Expiries -> Nat]
        /\ UNCHANGED <<history, broker>> \/ \E h : Traded(h)
    BY <1>4, Trading DEF BookOK
  <2>2. history' \in Seq(Events) /\ broker' \in [Inst -> Int] /\ broker'[PutAsCall] = 0
    <3>1. CASE UNCHANGED <<history, broker>>
      BY <3>1 DEF BookOK
    <3>2. ASSUME NEW h, Traded(h) PROVE history' \in Seq(Events) /\ broker' \in [Inst -> Int] /\ broker'[PutAsCall] = 0
      <4>1. h \in Events /\ history' = Append(history, h) /\ history \in Seq(Events)
        BY <3>2 DEF Traded, BookOK
      <4>2. Append(history, h) \in Seq(Events)
        BY <4>1
      <4> QED
        BY <3>2, <4>1, <4>2 DEF Traded, BookOK
    <3> QED
      BY <2>1, <3>1, <3>2
  <2>3. UNCHANGED <<log, pos, report, job>>
    BY <2>1 DEF book, recon
  <2>4. BookOK' /\ Frozen'
    BY <2>1, <2>2, <2>3 DEF BookOK, Frozen
  <2>5. Thawed
    BY <2>3 DEF Thawed
  <2> QED
    BY <2>4, <2>5
<1>5. CASE Fetch
  BY <1>1, <1>3, <1>5 DEF Fetch, market, book, recon
<1>6. CASE FetchFails
  <2>1. /\ UNCHANGED <<history, broker, expday, log, job, pos>> /\ report' = NoReport
    BY <1>6 DEF FetchFails, FailedRun, market
  <2>2. BookOK'
    BY <2>1 DEF BookOK
  <2>3. Frozen' /\ Thawed
    BY <1>0, <2>1 DEF Frozen, Thawed, NoReport
  <2> QED
    BY <2>2, <2>3
<1>7. CASE run_reconciliation
  <2> DEFINE rep == report'
  <2>1. /\ UNCHANGED <<history, broker, expday, log>> /\ rep.ok
        /\ pos' = reevaluate_freezes(pos, rep, resolutions)
        /\ resolutions' = resolutions
        /\ job' = job \/ job' = HealStep
    BY <1>7 DEF run_reconciliation, market, HealStep
  <2> DEFINE q == reevaluate_freezes(pos, rep, resolutions)
  <2>2. rep = report'
    OBVIOUS
  <2> HIDE DEF rep
  <2>3. /\ Whole(q) /\ q.status = pos.status /\ q.calls = pos.calls
        /\ pos.status = None => q.review = pos.review
        /\ pos.status = "closed" => q.review = {}
        /\ pos.status \notin {None, "closed"} =>
             q.review = {id \in Ids(rep.diffs) : ~Benign(id) /\ id \notin resolutions}
    BY Reevaluated DEF BookOK
  <2>4. JobOK(job')
    BY <1>3, <2>1, Jobs
  <2> HIDE DEF q
  <2>5. pos' = q
    BY <2>1 DEF q
  <2>6. BookOK'
    BY <2>1, <2>3, <2>4, <2>5 DEF BookOK
  <2>7. q.review \subseteq Grave(rep.diffs) /\ (q.status = None => q.review = {})
    BY <1>0, <2>3 DEF Grave, None
  <2>8. Frozen'
    BY <2>2, <2>5, <2>7 DEF Frozen
  <2>9. ASSUME report.ok, q.status # "closed", NEW id \in pos.review
        PROVE  id \in q.review \/ id \in resolutions \/ rep # report
    <3>1. pos.status # None /\ pos.status # "closed"
      BY <1>0, <2>3, <2>9
    <3>2. id \in Ids(report.diffs) /\ ~Benign(id)
      BY <2>9 DEF Frozen, Grave
    <3> QED
      BY <2>3, <3>1, <3>2
  <2>10. Thawed
    BY <2>1, <2>2, <2>5, <2>9 DEF Thawed
  <2> QED
    BY <2>6, <2>8, <2>10
<1>8. ASSUME NEW i \in DOMAIN history, _commit(i) \/ adopt_broker_trade(i)
      PROVE  BookOK' /\ Frozen' /\ Thawed
  BY <1>1, <1>8, CommitIs DEF market, book, recon
<1>9. CASE append_execution
  <2> DEFINE s == Head(job)
  <2>1. /\ job # << >> /\ s.do = "append" /\ log' = Append(log, s.e) /\ job' = Tail(job)
        /\ UNCHANGED <<history, broker, expday, pos, report>>
    BY <1>9 DEF append_execution, market
  <2>2. ToDo(s) /\ JobOK(Tail(job))
    BY <1>3, <2>1, NextStep
  <2> HIDE DEF s
  <2>3. Entry(s.e)
    BY <2>1, <2>2 DEF ToDo
  <2>4. LogOK(log')
    BY <2>1, <2>3, LogGrows DEF BookOK
  <2>5. BookOK' /\ Frozen'
    BY <2>1, <2>2, <2>4 DEF BookOK, Frozen
  <2>6. Thawed
    BY <2>1 DEF Thawed
  <2> QED
    BY <2>5, <2>6
<1>10. CASE apply
  <2>1. UNCHANGED <<history, broker, expday, log>>
    BY <1>10 DEF apply, market
  <2> QED
    BY <1>2, <1>10, <2>1, AppliedIs
<1>11. CASE mark_diff_resolved
  <2>1. UNCHANGED <<history, broker, expday, log>>
    BY <1>11 DEF mark_diff_resolved, market
  <2> QED
    BY <1>2, <1>11, <2>1, MarkIs
<1>12. CASE set_legs
  <2>1. UNCHANGED <<history, broker, expday, log>>
    BY <1>12 DEF set_legs, market
  <2> QED
    BY <1>2, <1>12, <2>1, LegsSet
<1>13. CASE heal
  <2>1. /\ UNCHANGED <<history, broker, expday, log, report, resolutions>>
        /\ job # << >> /\ job' = Tail(job)
    BY <1>13 DEF heal, market, recon
  <2>2. JobOK(job')
    BY <1>3, <2>1, NextStep
  <2>3. PICK q : Healed(q) /\ (pos' = q \/ pos' = reevaluate_freezes(q, report, resolutions))
    BY <1>13, HealIs
  <2>4. /\ Whole(q) /\ q.calls \in Seq(Legs) /\ q.review = pos.review
        /\ q.status = None => pos.status = None
        /\ pos' = q \/ pos' = reevaluate_freezes(q, report, resolutions')
    BY <2>1, <2>3 DEF Healed
  <2>5. Rewrite
    BY <2>1, <2>4, Marked
  <2> QED
    BY <1>2, <2>1, <2>2, <2>5
<1>14. CASE rebuild_from_log
  <2>1. /\ UNCHANGED <<history, broker, expday, log, report, resolutions, job>>
        /\ \/ pos' = reevaluate_freezes(RebuiltShares(pos), report, resolutions)
           \/ pos' = reevaluate_freezes(RebuiltCalls(pos), report, resolutions)
    BY <1>14 DEF rebuild_from_log, market, recon
  <2>2. ASSUME NEW q \in {RebuiltShares(pos), RebuiltCalls(pos)}
        PROVE  Whole(q) /\ q.calls \in Seq(Legs) /\ q.review = pos.review /\ q.status # None
    BY RebuiltIs DEF BookOK
  <2>3. Rewrite
    BY <2>1, <2>2, Marked
  <2> QED
    BY <1>2, <1>3, <2>1, <2>3
<1>15. CASE rebuild_position_from_broker
  BY <1>1, <1>15, LegsIs DEF market, book, recon
<1>16. ASSUME NEW k \in DOMAIN report.diffs, acknowledge_diff(k)
       PROVE  BookOK' /\ Frozen' /\ Thawed
  <2>1. /\ UNCHANGED <<history, broker, expday, log, report, job>>
        /\ pos' = reevaluate_freezes(pos, report, resolutions')
    BY <1>16 DEF acknowledge_diff, market
  <2>2. Rewrite
    BY <2>1, Marked DEF BookOK
  <2> QED
    BY <1>2, <1>3, <2>1, <2>2
<1>17. ASSUME NEW k \in DOMAIN report.diffs, _adjustment(k) \/ resolve_expiry(k)
       PROVE  BookOK' /\ Frozen' /\ Thawed
  BY <1>1, <1>17, AdjustmentIs, ExpiryIs DEF market, book, recon
<1>18. ASSUME NEW k \in DOMAIN report.diffs, NEW asked, record_called_away(k, asked)
       PROVE  BookOK' /\ Frozen' /\ Thawed
  BY <1>1, <1>18, CalledAwayIs DEF market, book, recon
<1>19. ASSUME NEW k \in DOMAIN log, NEW v \in BOOLEAN, SetVoid(k, v)
       PROVE  BookOK' /\ Frozen' /\ Thawed
  <2>1. /\ UNCHANGED <<history, broker, expday, pos, report>>
        /\ log' = [log EXCEPT ![k].void = v] /\ job' = HealStep
    BY <1>19 DEF SetVoid, market, recon
  <2>2. LogOK(log') /\ JobOK(job')
    BY <2>1, LogMarked, Jobs DEF BookOK
  <2>3. BookOK' /\ Frozen'
    BY <2>1, <2>2 DEF BookOK, Frozen
  <2>4. Thawed
    BY <2>1 DEF Thawed
  <2> QED
    BY <2>3, <2>4
<1>20. CASE Crash
  <2>1. UNCHANGED <<history, broker, expday, log, pos, report>> /\ job' = << >>
    BY <1>20 DEF Crash, market, book, recon
  <2> QED
    BY <1>1, <2>1, Jobs
<1> QED
  BY <1>4, <1>5, <1>6, <1>7, <1>8, <1>9, <1>10, <1>11, <1>12, <1>13, <1>14, <1>15, <1>16, <1>17, <1>18, <1>19, <1>20
     DEF Next, JobStep, Repair

LEMMA BookSame == ASSUME BookOK, Frozen, UNCHANGED vars PROVE BookOK' /\ Frozen' /\ Thawed
<1>1. UNCHANGED <<history, broker, expday, log, pos, report, job>>
  BY DEF vars
<1>2. BookOK' /\ Frozen'
  BY <1>1 DEF BookOK, Frozen
<1>3. Thawed
  BY <1>1 DEF Thawed
<1> QED
  BY <1>2, <1>3

LEMMA BookAlways == Spec => [](BookOK /\ Frozen)
<1>1. Init => BookOK /\ Frozen
  BY BookInit
<1>2. BookOK /\ Frozen /\ [Next]_vars => (BookOK /\ Frozen)'
  BY BookNext, BookSame
<1> QED
  BY <1>1, <1>2, PTL DEF Spec

(* A freeze stands until its diff is resolved, a successful run looks again *)
(* or the position closes (apply_report_to_state, reevaluate_freezes).      *)
THEOREM FrozenUntilResolvedAlways == Spec => FrozenUntilResolved
<1>1. BookOK /\ Frozen /\ [Next]_vars =>
        [report.ok /\ pos'.status # "closed" =>
           \A id \in pos.review :
             id \in pos'.review \/ id \in resolutions' \/ (report' # report /\ report'.ok)]_vars
  BY BookNext, BookSame DEF Thawed
<1> QED
  BY <1>1, BookAlways, PTL DEF Spec, FrozenUntilResolved

-----------------------------------------------------------------------------
(* What the heal leaves alone.                                              *)

LEMMA CountIs ==
  ASSUME NEW q, NEW c PROVE Count(q, LAMBDA leg : leg = c) = Tally(q, {c})
<1>1. {i \in DOMAIN q : q[i] = c} = {i \in DOMAIN q : q[i] \in {c}}
  OBVIOUS
<1> QED
  BY <1>1 DEF Count, Tally

LEMMA TallyAbsent ==
  ASSUME NEW X, NEW q \in Seq(X), NEW c, c \notin X PROVE Tally(q, {c}) = 0
<1>1. {i \in DOMAIN q : q[i] \in {c}} = {}
  OBVIOUS
<1> QED
  BY <1>1, FS_EmptySet DEF Tally

\* The clause of HealKeepsCorrections for the two halves of the position.
Untold ==
  heal /\ report.view = broker =>
    /\ pos.shares = broker[Equity] => pos'.shares = pos.shares
    /\ (\A c \in Legs : Count(pos.calls, LAMBDA leg : leg = c) = broker[c]) => SameLegs(pos'.calls, pos.calls)

LEMMA HealLeaves == ASSUME BookOK PROVE Untold
<1> SUFFICES ASSUME heal, report.view = broker
             PROVE  /\ pos.shares = broker[Equity] => pos'.shares = pos.shares
                    /\ (\A c \in Legs : Count(pos.calls, LAMBDA leg : leg = c) = broker[c])
                         => SameLegs(pos'.calls, pos.calls)
  BY DEF Untold
<1>1. PICK q : Healed(q) /\ (pos' = q \/ pos' = reevaluate_freezes(q, report, resolutions))
  BY HealIs
<1>2. Whole(q)
  BY <1>1 DEF Healed
<1>3. reevaluate_freezes(q, report, resolutions).shares = q.shares
      /\ reevaluate_freezes(q, report, resolutions).calls = q.calls
  BY <1>2, Reevaluated
<1>4. pos'.shares = q.shares /\ pos'.calls = q.calls
  BY <1>1, <1>3
<1>5. ASSUME pos.shares = broker[Equity] PROVE pos'.shares = pos.shares
  <2>1. CASE SharesDrift /\ SharesConfirmed
    <3>1. pos.shares # Lots(log) /\ report.view[Equity] = Lots(log)
      BY <2>1, ReplayIs DEF SharesDrift, SharesConfirmed
    <3> QED
      BY <1>5, <3>1
  <2>2. CASE ~(SharesDrift /\ SharesConfirmed)
    BY <1>1, <1>4, <2>2 DEF Healed
  <2> QED
    BY <2>1, <2>2
<1>6. ASSUME \A c \in Legs : Count(pos.calls, LAMBDA leg : leg = c) = broker[c]
      PROVE  SameLegs(pos'.calls, pos.calls)
  <2>0. \A c \in Legs : Tally(pos.calls, {c}) = broker[c]
    BY <1>6, CountIs
  <2>1. CASE pos'.calls = pos.calls
    BY <2>1 DEF SameLegs
  <2>2. CASE CallsConfirmed /\ pos'.calls = Calls(log)
    <3>1. _calls_equal(Calls(log), broker)
      BY <2>2, ReplayIs DEF CallsConfirmed
    <3>2. \A c \in Contracts : Tally(Calls(log), {c}) = broker[c]
      BY <3>1, CountIs DEF _calls_equal
    <3>3. Calls(log) \in Seq(Contracts)
      BY CallsTyped DEF BookOK
    <3>4. Tally(Calls(log), {PutAsCall}) = 0 /\ broker[PutAsCall] = 0
      BY <3>3, TallyAbsent, Instruments DEF BookOK
    <3>5. \A c \in Contracts \union {PutAsCall} : Tally(Calls(log), {c}) = Tally(pos.calls, {c})
      BY <2>0, <3>2, <3>4 DEF Legs
    <3> QED
      BY <2>2, <3>5, CountIs DEF SameLegs
  <2> QED
    BY <1>1, <1>4, <2>1, <2>2 DEF Healed
<1> QED
  BY <1>5, <1>6

(* A position that is what the broker holds is not changed by a heal whose  *)
(* report is current (position_heal).                                       *)
THEOREM HealKeepsCorrectionsAlways == Spec => HealKeepsCorrections
<1>1. BookOK =>
        [heal /\ report.view = broker =>
           /\ pos.shares = broker[Equity] => pos'.shares = pos.shares
           /\ (\A c \in Legs : Count(pos.calls, LAMBDA leg : leg = c) = broker[c]) =>
                SameLegs(pos'.calls, pos.calls)]_vars
  BY HealLeaves DEF Untold
<1> QED
  BY <1>1, BookAlways, PTL DEF Spec, HealKeepsCorrections

-----------------------------------------------------------------------------
(* What was sold and not bought back among the first m events.              *)

Net(h, c, m) == TallyTo(h, {Sold(c)}, m) - TallyTo(h, {Back(c)}, m)
Covered ==
  /\ \A c \in Contracts : broker[c] <= Net(history, c, Len(history))
  /\ \A c \in Contracts : \A i \in 1..Len(history) : history[i] = Back(c) => Net(history, c, i - 1) > 0

LEMMA NetNext ==
  ASSUME NEW h, NEW c, NEW m \in Nat
  PROVE  /\ Net(h, c, m) \in Int /\ Net(h, c, 0) = 0
         /\ Net(h, c, m + 1) = Net(h, c, m) + One(h[m + 1], {Sold(c)}) - One(h[m + 1], {Back(c)})
<1>1. \A C : /\ TallyTo(h, C, m) \in Nat /\ TallyTo(h, C, 0) = 0
             /\ TallyTo(h, C, m + 1) = TallyTo(h, C, m) + One(h[m + 1], C)
  BY TallyNext
<1>2. \A x, C : One(x, C) \in {0, 1}
  BY DEF One
<1> DEFINE a == TallyTo(h, {Sold(c)}, m)  b == TallyTo(h, {Back(c)}, m)
           p == One(h[m + 1], {Sold(c)})  q == One(h[m + 1], {Back(c)})
<1>3. a \in Nat /\ b \in Nat /\ p \in {0, 1} /\ q \in {0, 1}
  BY <1>1, <1>2
<1>4. Net(h, c, m) = a - b
  BY DEF Net
<1>5. Net(h, c, m + 1) = (a + p) - (b + q)
  BY <1>1 DEF Net
<1>6. Net(h, c, 0) = 0
  BY <1>1 DEF Net
<1> HIDE DEF a, b, p, q
<1>7. Net(h, c, m) \in Int /\ Net(h, c, m + 1) = Net(h, c, m) + p - q
  BY <1>3, <1>4, <1>5
<1> QED
  BY <1>6, <1>7 DEF p, q

\* Events that sell or buy back nothing do not matter, nor do later ones.
LEMMA NetOver ==
  ASSUME NEW h, NEW c, NEW m \in Nat, NEW n \in Nat, m <= n,
         \A j \in m + 1..n : h[j] # Sold(c) /\ h[j] # Back(c)
  PROVE  Net(h, c, n) = Net(h, c, m)
<1>1. \A j \in 1..n : j \in 1..m \/ j \in m + 1..n
  OBVIOUS
<1>2. \A j \in 1..m : j \in 1..n
  OBVIOUS
<1>3. {j \in 1..n : h[j] \in {Sold(c)}} = {j \in 1..m : h[j] \in {Sold(c)}}
  BY <1>1, <1>2
<1>4. {j \in 1..n : h[j] \in {Back(c)}} = {j \in 1..m : h[j] \in {Back(c)}}
  BY <1>1, <1>2
<1> QED
  BY <1>3, <1>4 DEF Net, TallyTo

LEMMA NetSame ==
  ASSUME NEW h, NEW g, NEW m, \A j \in 1..m : g[j] = h[j]
  PROVE  \A c : Net(g, c, m) = Net(h, c, m)
<1>1. ASSUME NEW C PROVE TallyTo(g, C, m) = TallyTo(h, C, m)
  <2>1. {j \in 1..m : g[j] \in C} = {j \in 1..m : h[j] \in C}
    OBVIOUS
  <2> QED
    BY <2>1 DEF TallyTo
<1> QED
  BY <1>1 DEF Net

LEMMA HistoryGrows ==
  ASSUME BookOK, NEW h, Traded(h)
  PROVE  /\ Len(history) \in Nat /\ Len(history') = Len(history) + 1 /\ history'[Len(history) + 1] = h
         /\ \A i \in 1..Len(history) : history'[i] = history[i]
         /\ DOMAIN history = 1..Len(history) /\ DOMAIN history' = 1..Len(history) + 1
<1>1. history \in Seq(Events) /\ h \in Events /\ history' = Append(history, h)
  BY DEF BookOK, Traded
<1> DEFINE g == Append(history, h)
<1>2. /\ Len(history) \in Nat /\ Len(g) = Len(history) + 1 /\ g[Len(history) + 1] = h
      /\ \A i \in 1..Len(history) : g[i] = history[i]
      /\ DOMAIN history = 1..Len(history) /\ DOMAIN g = 1..Len(history) + 1
  BY <1>1
<1> QED
  BY <1>1, <1>2

LEMMA CoveredNext == ASSUME BookOK, Covered, NEW h, Traded(h) PROVE Covered'
<1> DEFINE n == Len(history)
<1>1. /\ n \in Nat /\ Len(history') = n + 1 /\ history'[n + 1] = h
      /\ \A i \in 1..n : history'[i] = history[i]
  BY HistoryGrows
<1> HIDE DEF n
<1>2. ASSUME NEW c \in Contracts PROVE broker'[c] <= Net(history', c, n + 1)
  <2>1. Net(history', c, n + 1) = Net(history', c, n) + One(h, {Sold(c)}) - One(h, {Back(c)})
    BY <1>1, NetNext
  <2>2. Net(history', c, n) = Net(history, c, n)
    BY <1>1, NetSame
  <2>3. Net(history, c, n) \in Int
    BY <1>1, NetNext
  <2>4. broker[c] <= Net(history, c, n) /\ broker[c] \in Int /\ broker'[c] \in Int
    BY Instruments DEF Covered, n, BookOK, Traded
  <2>5. broker'[c] <= broker[c] + One(h, {Sold(c)}) - One(h, {Back(c)})
    BY DEF Traded
  <2>6. One(h, {Sold(c)}) \in {0, 1} /\ One(h, {Back(c)}) \in {0, 1}
    BY DEF One
  <2> QED
    BY <2>1, <2>2, <2>3, <2>4, <2>5, <2>6
<1>3. ASSUME NEW c \in Contracts, NEW i \in 1..n + 1, history'[i] = Back(c)
      PROVE  Net(history', c, i - 1) > 0
  <2>1. CASE i \in 1..n
    <3>1. history[i] = Back(c)
      BY <1>1, <1>3, <2>1
    <3>2. Net(history, c, i - 1) > 0
      BY <2>1, <3>1 DEF Covered, n
    <3>3. \A j \in 1..i - 1 : history'[j] = history[j]
      BY <1>1, <2>1
    <3>4. Net(history', c, i - 1) = Net(history, c, i - 1)
      BY <3>3, NetSame
    <3> QED
      BY <3>2, <3>4
  <2>2. CASE i = n + 1
    <3>1. h = Back(c) /\ i - 1 = n
      BY <1>1, <1>3, <2>2
    <3>2. broker[c] > 0 /\ broker[c] <= Net(history, c, n) /\ broker[c] \in Int
      BY <3>1, Instruments DEF Traded, Covered, n, BookOK
    <3>3. Net(history', c, n) = Net(history, c, n)
      BY <1>1, NetSame
    <3>4. Net(history, c, n) \in Int
      BY <1>1, NetNext
    <3> QED
      BY <3>1, <3>2, <3>3, <3>4
  <2> QED
    BY <1>1, <2>1, <2>2
<1> QED
  BY <1>1, <1>2, <1>3 DEF Covered

-----------------------------------------------------------------------------
(* The legs of one kind, in the mirror and in the replay.                   *)

LEMMA TallyMore ==
  ASSUME NEW X, NEW q \in Seq(X), NEW T, NEW C, T \subseteq C
  PROVE  Tally(q, T) <= Tally(q, C)
<1> DEFINE S == {i \in DOMAIN q : q[i] \in T}
           B == {i \in DOMAIN q : q[i] \in C}
<1>1. DOMAIN q = 1..Len(q) /\ Len(q) \in Nat
  BY SeqFacts
<1>2. IsFiniteSet(DOMAIN q)
  BY <1>1, FS_Interval
<1>3. IsFiniteSet(B)
  BY <1>2, FS_Subset
<1>4. S \in SUBSET B
  OBVIOUS
<1>5. Cardinality(S) <= Cardinality(B)
  BY <1>3, <1>4, FS_Subset
<1> QED
  BY <1>5 DEF Tally

LEMMA PairIsOne == ASSUME NEW c \in Contracts PROVE PairLegs(c) = {c}
<1>1. c.exp # 0 /\ c = [strike |-> c.strike, exp |-> c.exp] /\ c.strike # 0 /\ c \in Legs
  BY MirrorAssumption DEF Contracts, Legs
<1>2. ASSUME NEW leg \in Legs, Pairs(c, leg) PROVE leg = c
  <2>1. leg.strike = c.strike /\ leg.exp = c.exp
    BY <1>1, <1>2 DEF Pairs
  <2>2. leg \in Contracts
    BY <1>1, <2>1 DEF Legs, PutAsCall
  <2>3. leg = [strike |-> leg.strike, exp |-> leg.exp]
    BY <2>2 DEF Contracts
  <2> QED
    BY <1>1, <2>1, <2>3
<1>3. Pairs(c, c)
  BY DEF Pairs
<1> QED
  BY <1>1, <1>2, <1>3 DEF PairLegs

\* One leg of the strike goes off the mirror, one of the contract off the replay.
LEMMA MirrorTakes ==
  ASSUME NEW q \in Seq(Legs), NEW s, NEW t
  PROVE  Tally(TakeStrike(q, t, 1), StrikeLegs(s)) =
           Tally(q, StrikeLegs(s)) - (IF s = t /\ Tally(q, StrikeLegs(s)) > 0 THEN 1 ELSE 0)
<1>1. PICK R : /\ Runs(R, "legs", Taken(StrikeLegs(t), 1), q, Len(q))
               /\ TakeStrike(q, t, 1) = R[Len(q)].kept
  BY TakeStrikeRun
<1>2. Tally(q, StrikeLegs(s)) \in Nat
  BY TallyIs
<1>3. CASE s = t
  <2>1. Tally(R[Len(q)].kept, StrikeLegs(t)) =
          IF Tally(q, StrikeLegs(t)) = 0 THEN Tally(q, StrikeLegs(t)) ELSE Tally(q, StrikeLegs(t)) - 1
    BY <1>1, OneTaken
  <2> QED
    BY <1>1, <1>2, <1>3, <2>1
<1>4. CASE s # t
  <2>1. StrikeLegs(s) \cap StrikeLegs(t) = {}
    BY <1>4 DEF StrikeLegs
  <2>2. Tally(R[Len(q)].kept, StrikeLegs(s)) = Tally(q, StrikeLegs(s))
    BY <1>1, <2>1, OneTaken
  <2> QED
    BY <1>1, <1>2, <1>4, <2>2
<1> QED
  BY <1>3, <1>4

LEMMA ReplayTakes ==
  ASSUME NEW q \in Seq(Legs), NEW c \in Contracts, Tally(q, {c}) > 0
  PROVE  /\ \A s : Tally(TakePair(q, c, 1), StrikeLegs(s)) =
                     Tally(q, StrikeLegs(s)) - (IF s = c.strike THEN 1 ELSE 0)
         /\ \A d : Tally(TakePair(q, c, 1), {d}) = Tally(q, {d}) - (IF d = c THEN 1 ELSE 0)
<1>1. PICK R : /\ Runs(R, "legs", Taken({c}, 1), q, Len(q))
               /\ TakePair(q, c, 1) = R[Len(q)].kept
  BY TakePairRun, PairIsOne
<1>2. \A C : Tally(q, C) \in Nat
  BY TallyIs
<1>3. ASSUME NEW C
      PROVE  /\ c \notin C => Tally(R[Len(q)].kept, C) = Tally(q, C)
             /\ c \in C => Tally(R[Len(q)].kept, C) = Tally(q, C) - 1
  <2>1. /\ C \cap {c} = {} => Tally(R[Len(q)].kept, C) = Tally(q, C)
        /\ {c} \subseteq C => Tally(R[Len(q)].kept, C) =
                                IF Tally(q, {c}) = 0 THEN Tally(q, C) ELSE Tally(q, C) - 1
    BY <1>1, OneTaken
  <2>2. Tally(q, {c}) # 0
    BY <1>2
  <2>3. (c \notin C => C \cap {c} = {}) /\ (c \in C => {c} \subseteq C)
    OBVIOUS
  <2> QED
    BY <2>1, <2>2, <2>3
<1>4. ASSUME NEW s PROVE c \in StrikeLegs(s) <=> s = c.strike
  BY DEF StrikeLegs, Legs
<1>5. \A C : Tally(q, C) - 0 = Tally(q, C)
  BY <1>2
<1> QED
  BY <1>1, <1>3, <1>4, <1>5

-----------------------------------------------------------------------------
(* A trade on the mirror and on the replay.                                 *)

Plain == {"buy_shares", "sell_shares", "sell_short", "close_short"}

\* The legs of the mirror after a trade, and what a trade adds of a contract.
Moved(calls, e) ==
  IF e.act = "sell_short" THEN Append(calls, e.c)
  ELSE IF e.act = "close_short" THEN TakeStrike(calls, e.c.strike, 1) ELSE calls
Gain(e, d) ==
  (IF e.act = "sell_short" /\ e.c = d THEN 1 ELSE 0) - (IF e.act = "close_short" /\ e.c = d THEN 1 ELSE 0)

LEMMA Moves ==
  ASSUME NEW p, Whole(p), p.calls \in Seq(Legs), NEW e, Entry(e), e.act \in Plain, e.n = 1
  PROVE  LET q == position_update(p, e) IN
         /\ Whole(q) /\ q.shares = ReplayLot(p.shares, e)
         /\ q.calls = Moved(p.calls, e)
<1>1. ASSUME NEW r, Whole(r)
      PROVE  /\ LET q == Reopened(r) IN Whole(q) /\ q.shares = r.shares /\ q.calls = r.calls
             /\ LET q == CloseIfNoCalls(r) IN Whole(q) /\ q.shares = r.shares /\ q.calls = r.calls
  BY <1>1, Restates DEF Restated
<1>2. \A x : LET r == WithShares(p, x) IN Whole(r) /\ r.shares = x /\ r.calls = p.calls
  BY Fields
<1>3. CASE e.act = "buy_shares"
  <2>1. position_update(p, e) = Reopened(WithShares(p, p.shares + e.n))
    BY <1>3 DEF position_update, _buy_shares, ShareSales, WithShares
  <2>2. ReplayLot(p.shares, e) = p.shares + e.n
    BY <1>3 DEF ReplayLot, _SHARE_ACTIONS
  <2> QED
    BY <1>1, <1>2, <1>3, <2>1, <2>2 DEF Moved
<1>4. CASE e.act = "sell_shares"
  <2> DEFINE x == IF e.n < p.shares THEN p.shares - e.n ELSE 0
  <2>1. position_update(p, e) = CloseIfNoCalls(WithShares(p, x))
    BY <1>4 DEF position_update, _reduce_shares, ShareSales, WithShares
  <2>2. ReplayLot(p.shares, e) = x
    BY <1>4 DEF ReplayLot, _SHARE_ACTIONS, ShareSales
  <2> HIDE DEF x
  <2> QED
    BY <1>1, <1>2, <1>4, <2>1, <2>2 DEF Moved
<1>5. CASE e.act = "sell_short"
  <2> DEFINE x == Append(p.calls, e.c)
  <2>1. position_update(p, e) = Reopened(WithCalls(p, x))
    BY <1>5 DEF position_update, _sell_short, ShareSales, WithCalls
  <2>2. ReplayLot(p.shares, e) = p.shares
    BY <1>5 DEF ReplayLot, _SHARE_ACTIONS, ShareSales
  <2> HIDE DEF x
  <2>3. LET r == WithCalls(p, x) IN Whole(r) /\ r.shares = p.shares /\ r.calls = x
    BY Fields
  <2>4. LET q == position_update(p, e) IN Whole(q) /\ q.shares = ReplayLot(p.shares, e) /\ q.calls = x
    BY <1>1, <2>1, <2>2, <2>3
  <2> QED
    BY <1>5, <2>4 DEF x, Moved
<1>6. CASE e.act = "close_short"
  <2>1. position_update(p, e) = CloseLegs(p, e.c.strike, 1)
    BY <1>6 DEF position_update, _close_short, ShareSales
  <2>2. ReplayLot(p.shares, e) = p.shares
    BY <1>6 DEF ReplayLot, _SHARE_ACTIONS, ShareSales
  <2>3. LET q == CloseLegs(p, e.c.strike, 1) IN
        Whole(q) /\ q.shares = p.shares /\ q.calls = TakeStrike(p.calls, e.c.strike, 1)
    BY Closed
  <2> QED
    BY <1>6, <2>1, <2>2, <2>3 DEF Moved
<1> QED
  BY <1>3, <1>4, <1>5, <1>6 DEF Plain

\* The legs of every strike in the one are those in the other.
Alike(calls, replay) == \A s : Tally(calls, StrikeLegs(s)) = Tally(replay, StrikeLegs(s))

LEMMA Gains ==
  ASSUME NEW replay \in Seq(Legs), NEW e, e.act \in Plain, e.n = 1,
         e.act \in {"sell_short", "close_short"} => e.c \in Contracts,
         e.act = "close_short" => Tally(replay, {e.c}) > 0, NEW d
  PROVE  Tally(ReplayCall(replay, e), {d}) = Tally(replay, {d}) + Gain(e, d)
<1>1. Tally(replay, {d}) \in Nat
  BY TallyIs
<1>2. CASE e.act = "sell_short"
  <2>1. e.c \in Legs
    BY <1>2 DEF Legs
  <2>2. Tally(Append(replay, e.c), {d}) = Tally(replay, {d}) + One(e.c, {d})
    BY <2>1, TallyAppend
  <2>3. ReplayCall(replay, e) = Append(replay, e.c)
    BY <1>2 DEF ReplayCall
  <2>4. One(e.c, {d}) = (IF e.c = d THEN 1 ELSE 0) /\ Gain(e, d) = IF e.c = d THEN 1 ELSE 0
    BY <1>2 DEF One, Gain
  <2> QED
    BY <2>2, <2>3, <2>4
<1>3. CASE e.act = "close_short"
  <2> DEFINE c == e.c
  <2>1. c \in Contracts /\ Tally(replay, {c}) > 0
    BY <1>3
  <2>2. ReplayCall(replay, e) = TakePair(replay, c, 1)
    BY <1>3 DEF ReplayCall, TakePair
  <2>3. Gain(e, d) = 0 - (IF d = c THEN 1 ELSE 0)
    BY <1>3 DEF Gain
  <2> HIDE DEF c
  <2>4. Tally(TakePair(replay, c, 1), {d}) = Tally(replay, {d}) - (IF d = c THEN 1 ELSE 0)
    BY <2>1, ReplayTakes
  <2> QED
    BY <1>1, <2>2, <2>3, <2>4
<1>4. CASE e.act \in {"buy_shares", "sell_shares"}
  <2>1. ReplayCall(replay, e) = replay /\ Gain(e, d) = 0
    BY <1>4 DEF ReplayCall, Gain
  <2> QED
    BY <1>1, <2>1
<1> QED
  BY <1>2, <1>3, <1>4 DEF Plain

LEMMA AlikeAfter ==
  ASSUME NEW calls \in Seq(Legs), NEW replay \in Seq(Legs), Alike(calls, replay),
         NEW e, e.act \in Plain, e.n = 1,
         e.act \in {"sell_short", "close_short"} => e.c \in Contracts,
         e.act = "close_short" => Tally(replay, {e.c}) > 0
  PROVE  Alike(Moved(calls, e), ReplayCall(replay, e))
<1>1. \A s : Tally(calls, StrikeLegs(s)) = Tally(replay, StrikeLegs(s))
  BY DEF Alike
<1>2. \A C : Tally(calls, C) \in Nat /\ Tally(replay, C) \in Nat
  BY TallyIs
<1>3. CASE e.act = "sell_short"
  <2>1. e.c \in Legs
    BY <1>3 DEF Legs
  <2>2. \A C : /\ Tally(Append(calls, e.c), C) = Tally(calls, C) + One(e.c, C)
               /\ Tally(Append(replay, e.c), C) = Tally(replay, C) + One(e.c, C)
    BY <2>1, TallyAppend
  <2>3. ReplayCall(replay, e) = Append(replay, e.c)
    BY <1>3 DEF ReplayCall
  <2>4. Alike(Append(calls, e.c), Append(replay, e.c))
    BY <1>1, <2>2 DEF Alike
  <2> QED
    BY <1>3, <2>3, <2>4 DEF Moved
<1>4. CASE e.act = "close_short"
  <2> DEFINE c == e.c
  <2>1. c \in Contracts /\ Tally(replay, {c}) > 0
    BY <1>4
  <2>2. ReplayCall(replay, e) = TakePair(replay, c, 1) /\ Moved(calls, e) = TakeStrike(calls, c.strike, 1)
    BY <1>4 DEF ReplayCall, TakePair, Moved
  <2> HIDE DEF c
  <2>3. \A s : Tally(TakePair(replay, c, 1), StrikeLegs(s)) =
               Tally(replay, StrikeLegs(s)) - (IF s = c.strike THEN 1 ELSE 0)
    BY <2>1, ReplayTakes
  <2>4. Tally(replay, StrikeLegs(c.strike)) > 0
    <3>1. {c} \subseteq StrikeLegs(c.strike)
      BY <2>1 DEF StrikeLegs, Legs
    <3>2. Tally(replay, {c}) <= Tally(replay, StrikeLegs(c.strike))
      BY <3>1, TallyMore
    <3> QED
      BY <1>2, <2>1, <3>2
  <2>5. ASSUME NEW s
        PROVE  Tally(TakeStrike(calls, c.strike, 1), StrikeLegs(s)) = Tally(TakePair(replay, c, 1), StrikeLegs(s))
    <3>1. Tally(TakeStrike(calls, c.strike, 1), StrikeLegs(s)) =
            Tally(calls, StrikeLegs(s)) - (IF s = c.strike /\ Tally(calls, StrikeLegs(s)) > 0 THEN 1 ELSE 0)
      BY MirrorTakes
    <3>2. Tally(calls, StrikeLegs(s)) = Tally(replay, StrikeLegs(s))
      BY <1>1
    <3>3. s = c.strike => Tally(calls, StrikeLegs(s)) > 0
      BY <1>1, <2>4
    <3> QED
      BY <2>3, <3>1, <3>2, <3>3
  <2>6. Alike(TakeStrike(calls, c.strike, 1), TakePair(replay, c, 1))
    BY <2>5 DEF Alike
  <2> QED
    BY <2>2, <2>6
<1>5. CASE e.act \in {"buy_shares", "sell_shares"}
  <2>1. ReplayCall(replay, e) = replay /\ Moved(calls, e) = calls
    BY <1>5 DEF ReplayCall, Moved
  <2> QED
    BY <2>1
<1> QED
  BY <1>3, <1>4, <1>5 DEF Plain

-----------------------------------------------------------------------------
(* A log of trades booked in order, none skipped.                           *)

OfTrade(e) == \E i \in DOMAIN history : e = TradeExecution(i) /\ history[i].act \in Plain
TradeLog(l) == IsSeq(l) /\ \A k \in 1..Len(l) : OfTrade(l[k])
DayIn(l, d) == \E k \in 1..Len(l) : l[k].day = d
Rising(l) == \A j, k \in 1..Len(l) : j < k => l[j].day < l[k].day
Gapless(l) ==
  \A i, j \in DOMAIN history :
    i < j /\ history[i].act \in Trades /\ ~DayIn(l, 2 * i) => ~DayIn(l, 2 * j)
\* How far into the history it goes.
Reach(l, m) == IF Len(l) = 0 THEN m = 0 ELSE m \in DOMAIN history /\ l[Len(l)].day = 2 * m
Mirrors(l) ==
  /\ pos.shares = Lots(l) /\ Alike(pos.calls, Calls(l))
  /\ \A m : Reach(l, m) => \A c \in Contracts : Tally(Calls(l), {c}) = Net(history, c, m)
Follows(l) == Rising(l) /\ Gapless(l) => Mirrors(l)

Then(j, l, e) == j = Append(l, e)

LEMMA TradeIs ==
  ASSUME BookOK, NEW i \in DOMAIN history, history[i].act \in Plain, NEW e, e = TradeExecution(i)
  PROVE  /\ i \in Nat /\ i \in 1..Len(history)
         /\ Entry(e) /\ e.day = 2 * i /\ e.act = history[i].act /\ e.c = history[i].c /\ e.n = 1 /\ ~e.void
         /\ e.act \in {"sell_short", "close_short"} => e.c \in Contracts
         /\ history[i] = Event(e.act, e.c)
<1>1. i \in 1..Len(history) /\ history[i] \in Events /\ i \in Nat
  BY SeqFacts DEF BookOK
<1>2. history[i].act \in {"sell_short", "close_short"} => history[i].c \in Contracts
  BY <1>1 DEF Events
<1>3. history[i].act \in Acts /\ 2 * i \in Nat
  BY <1>1 DEF Plain, Acts, Trades
<1>4. history[i] = Event(history[i].act, history[i].c)
  BY <1>1 DEF Events, Event
<1>5. /\ Entry(e) /\ e.act = history[i].act /\ e.day = 2 * i /\ e.c = history[i].c /\ e.n = 1 /\ ~e.void
  BY <1>2, <1>3, ExecutionIs DEF TradeExecution
<1> QED
  BY <1>1, <1>2, <1>4, <1>5

LEMMA BookedIs ==
  ASSUME BookOK, NEW l, TradeLog(l)
  PROVE  /\ LogOK(l) /\ Len(l) \in Nat /\ DOMAIN l = 1..Len(l)
         /\ \A k \in 1..Len(l) : l[k].day \in Nat /\ ~l[k].void
         /\ Rising(l) => Straight(l)
<1>1. Len(l) \in Nat /\ DOMAIN l = 1..Len(l)
  BY AnySeq DEF TradeLog
<1>2. ASSUME NEW k \in 1..Len(l) PROVE Entry(l[k]) /\ l[k].day \in Nat /\ ~l[k].void
  <2>1. PICK i \in DOMAIN history : l[k] = TradeExecution(i) /\ history[i].act \in Plain
    BY DEF TradeLog, OfTrade
  <2>2. Entry(l[k]) /\ ~l[k].void
    BY <2>1, TradeIs
  <2> QED
    BY <2>2 DEF Entry
<1>3. LogOK(l)
  BY <1>2 DEF LogOK, TradeLog
<1>4. Rising(l) => Straight(l)
  BY <1>1, <1>2 DEF Rising, Straight
<1> QED
  BY <1>1, <1>2, <1>3, <1>4

\* The log before its last entry is one of this kind too.
LEMMA BeforeLast ==
  ASSUME BookOK, NEW l, TradeLog(l), NEW e, OfTrade(e), NEW j, Then(j, l, e)
  PROVE  /\ TradeLog(j) /\ Len(j) = Len(l) + 1 /\ Len(l) \in Nat /\ j[Len(l) + 1] = e
         /\ \A k \in 1..Len(l) : j[k] = l[k]
         /\ Rising(j) => Rising(l)
         /\ Rising(j) /\ Gapless(j) => Gapless(l)
<1>1. /\ IsSeq(j) /\ Len(j) = Len(l) + 1 /\ j[Len(l) + 1] = e /\ \A k \in 1..Len(l) : j[k] = l[k]
  BY AnyAppend DEF TradeLog, Then
<1>2. Len(l) \in Nat
  BY BookedIs
<1> DEFINE n == Len(l)
<1> HIDE DEF n
<1>3. n \in Nat /\ Len(j) = n + 1 /\ Len(l) = n /\ j[n + 1] = e /\ \A k \in 1..n : j[k] = l[k]
  BY <1>1, <1>2 DEF n
<1>4. \A k \in 1..n + 1 : k \in 1..n \/ k = n + 1
  BY <1>3
<1>5. \A k \in 1..n : k \in 1..n + 1 /\ k < n + 1
  BY <1>3
<1>6. n + 1 \in 1..n + 1
  BY <1>3
<1>7. TradeLog(j)
  BY <1>1, <1>3, <1>4 DEF TradeLog
<1>8. Rising(j) => Rising(l)
  BY <1>3, <1>5 DEF Rising
<1>9. ASSUME Rising(j), Gapless(j) PROVE Gapless(l)
  <2> SUFFICES ASSUME NEW a \in DOMAIN history, NEW b \in DOMAIN history, a < b,
                      history[a].act \in Trades, ~DayIn(l, 2 * a), DayIn(l, 2 * b)
               PROVE  FALSE
    BY DEF Gapless
  <2>1. PICK k \in 1..n : l[k].day = 2 * b
    BY <1>3 DEF DayIn
  <2>2. k \in 1..n + 1 /\ j[k].day = 2 * b /\ DayIn(j, 2 * b)
    BY <1>3, <1>5, <2>1 DEF DayIn
  <2>3. DayIn(j, 2 * a)
    BY <1>9, <2>2 DEF Gapless
  <2>4. PICK h \in 1..n + 1 : j[h].day = 2 * a
    BY <1>3, <2>3 DEF DayIn
  <2>5. h = n + 1
    BY <1>3, <1>4, <2>4 DEF DayIn
  <2>6. j[k].day < j[h].day
    BY <1>3, <1>5, <1>6, <1>9, <2>2, <2>5 DEF Rising
  <2>7. a \in Nat /\ b \in Nat
    BY SeqFacts DEF BookOK
  <2> QED
    BY <2>2, <2>4, <2>6, <2>7
<1> QED
  BY <1>1, <1>2, <1>7, <1>8, <1>9

\* Nothing was traded between the one and the next.
LEMMA NoneBetween ==
  ASSUME BookOK, NEW l, TradeLog(l), NEW i \in DOMAIN history, history[i].act \in Plain,
         NEW e, e = TradeExecution(i), NEW j, Then(j, l, e), Rising(j), Gapless(j), NEW m, Reach(l, m)
  PROVE  m \in Nat /\ m <= i - 1 /\ \A c : Net(history, c, i - 1) = Net(history, c, m)
<1>0. OfTrade(e)
  BY DEF OfTrade
<1>1. /\ TradeLog(j) /\ Len(j) = Len(l) + 1 /\ Len(l) \in Nat /\ j[Len(l) + 1] = e
      /\ \A k \in 1..Len(l) : j[k] = l[k]
  BY <1>0, BeforeLast
<1> DEFINE n == Len(l)
<1> HIDE DEF n
<1>2. n \in Nat /\ Len(j) = n + 1 /\ Len(l) = n /\ j[n + 1] = e /\ \A k \in 1..n : j[k] = l[k]
  BY <1>1 DEF n
<1>3. i \in Nat /\ i \in 1..Len(history) /\ e.day = 2 * i /\ Len(history) \in Nat /\ DOMAIN history = 1..Len(history)
  BY TradeIs, SeqFacts DEF BookOK
<1>4. \A k \in 1..n : k \in 1..n + 1 /\ k < n + 1 /\ n + 1 \in 1..n + 1
  BY <1>2
<1>5. \A k \in 1..n : l[k].day < 2 * i /\ l[k].day \in Nat
  BY <1>2, <1>3, <1>4, BookedIs DEF Rising
<1>6. m \in Nat /\ m < i /\ \A k \in 1..n : l[k].day <= 2 * m
  <2>1. CASE n = 0
    <3>1. m = 0 /\ 1..0 = {}
      BY <1>2, <2>1 DEF Reach
    <3> QED
      BY <1>3, <2>1, <3>1
  <2>2. CASE n # 0
    <3>1. m \in DOMAIN history /\ l[n].day = 2 * m /\ n \in 1..n
      BY <1>2, <2>2 DEF Reach
    <3>2. m \in Nat /\ m < i
      BY <1>3, <1>5, <3>1
    <3>3. ASSUME NEW k \in 1..n PROVE l[k].day <= 2 * m
      <4>1. CASE k = n
        BY <3>1, <3>2, <4>1
      <4>2. CASE k # n
        <5>1. k < n /\ k \in 1..n + 1 /\ n \in 1..n + 1
          BY <1>2, <4>2, <3>1
        <5>2. j[k].day < j[n].day
          BY <1>2, <5>1 DEF Rising
        <5>3. l[k].day < 2 * m
          BY <1>2, <3>1, <5>2
        <5> QED
          BY <1>5, <3>2, <5>3
      <4> QED
        BY <4>1, <4>2
    <3> QED
      BY <3>2, <3>3
  <2> QED
    BY <2>1, <2>2
<1>7. ASSUME NEW a \in m + 1..i - 1 PROVE history[a].act \notin Trades
  <2> SUFFICES ASSUME history[a].act \in Trades PROVE FALSE
    OBVIOUS
  <2>1. a \in Nat /\ m < a /\ a < i /\ a \in DOMAIN history
    BY <1>3, <1>6
  <2>2. DayIn(j, 2 * i)
    BY <1>2, <1>3, <1>4 DEF DayIn
  <2>3. PICK k \in 1..n + 1 : j[k].day = 2 * a
    BY <1>2, <2>1, <2>2 DEF Gapless, DayIn
  <2>4. CASE k \in 1..n
    <3>1. l[k].day = 2 * a /\ l[k].day <= 2 * m
      BY <1>2, <1>6, <2>3, <2>4
    <3> QED
      BY <1>6, <2>1, <3>1
  <2>5. CASE k = n + 1
    <3>1. 2 * i = 2 * a
      BY <1>2, <1>3, <2>3, <2>5
    <3> QED
      BY <1>3, <2>1, <3>1
  <2> QED
    BY <1>2, <2>4, <2>5
<1>8. ASSUME NEW c PROVE Net(history, c, i - 1) = Net(history, c, m)
  <2>1. Sold(c).act \in Trades /\ Back(c).act \in Trades
    BY DEF Sold, Back, Trades
  <2>2. \A a \in m + 1..i - 1 : history[a] # Sold(c) /\ history[a] # Back(c)
    BY <1>7, <2>1
  <2>3. m <= i - 1 /\ i - 1 \in Nat
    BY <1>3, <1>6
  <2> QED
    BY <1>6, <2>2, <2>3, NetOver
<1> QED
  BY <1>3, <1>6, <1>8

\* What the booked trade does to the position, it does to the replay.
LEMMA Advance ==
  ASSUME BookOK, Covered, NEW l, TradeLog(l), NEW e, OfTrade(e), NEW j, Then(j, l, e),
         Follows(l), Rising(j), Gapless(j),
         NEW p, Whole(p), p.shares = pos.shares, p.calls = pos.calls
  PROVE  LET q == position_update(p, e) IN
         /\ Whole(q) /\ q.shares = Lots(j) /\ Alike(q.calls, Calls(j))
         /\ \A m : Reach(j, m) => \A c \in Contracts : Tally(Calls(j), {c}) = Net(history, c, m)
<1> DEFINE q == position_update(p, e)
<1>1. PICK i \in DOMAIN history : e = TradeExecution(i) /\ history[i].act \in Plain
  BY DEF OfTrade
<1>2. /\ i \in Nat /\ i \in 1..Len(history)
      /\ Entry(e) /\ e.day = 2 * i /\ e.act = history[i].act /\ e.n = 1
      /\ e.act \in {"sell_short", "close_short"} => e.c \in Contracts
      /\ history[i] = Event(e.act, e.c)
  BY <1>1, TradeIs
<1>3. /\ TradeLog(j) /\ Len(j) = Len(l) + 1 /\ Len(l) \in Nat /\ j[Len(l) + 1] = e
      /\ \A k \in 1..Len(l) : j[k] = l[k]
      /\ Rising(l) /\ Gapless(l)
  BY BeforeLast
<1>4. Mirrors(l)
  BY <1>3 DEF Follows
<1>5. Straight(l) /\ Straight(j) /\ LogOK(l)
  BY <1>3, BookedIs
<1>6. Lots(j) = ReplayLot(Lots(l), e) /\ Calls(j) = ReplayCall(Calls(l), e)
  BY <1>3, <1>5, ReplayOn
<1>7. Calls(l) \in Seq(Legs) /\ p.calls \in Seq(Legs)
  <2>1. Calls(l) \in Seq(Contracts)
    BY <1>5, CallsTyped
  <2>2. Contracts \subseteq Legs
    BY DEF Legs
  <2> QED
    BY <2>1, <2>2, Sub DEF BookOK
<1>8. PICK m : Reach(l, m)
  <2>1. CASE Len(l) = 0
    BY <2>1 DEF Reach
  <2>2. CASE Len(l) # 0
    <3>1. Len(l) \in 1..Len(l)
      BY <1>3, <2>2
    <3>2. PICK h \in DOMAIN history : l[Len(l)] = TradeExecution(h) /\ history[h].act \in Plain
      BY <3>1 DEF TradeLog, OfTrade
    <3>3. l[Len(l)].day = 2 * h
      BY <3>2, TradeIs
    <3> QED
      BY <2>2, <3>3 DEF Reach
  <2> QED
    BY <2>1, <2>2
<1>9. \A c : Net(history, c, i - 1) = Net(history, c, m)
  BY <1>1, <1>8, NoneBetween
<1>10. \A c \in Contracts : Tally(Calls(l), {c}) = Net(history, c, i - 1)
  BY <1>4, <1>8, <1>9 DEF Mirrors
<1>11. e.act = "close_short" => Tally(Calls(l), {e.c}) > 0
  <2> SUFFICES ASSUME e.act = "close_short" PROVE Tally(Calls(l), {e.c}) > 0
    OBVIOUS
  <2>1. e.c \in Contracts /\ history[i] = Back(e.c)
    BY <1>2 DEF Event, Back
  <2>2. Net(history, e.c, i - 1) > 0
    BY <1>2, <2>1 DEF Covered
  <2> QED
    BY <1>10, <2>1, <2>2
<1>12. e.act \in Plain
  BY <1>1, <1>2
<1>13. /\ Whole(q) /\ q.shares = ReplayLot(p.shares, e)
       /\ q.calls = Moved(p.calls, e)
  BY <1>2, <1>7, <1>12, Moves
<1>14. pos.shares = Lots(l) /\ Alike(p.calls, Calls(l))
  BY <1>4 DEF Mirrors
<1>15. q.shares = Lots(j)
  BY <1>6, <1>13, <1>14
<1> DEFINE r == Calls(l)  cs == p.calls
<1>18. /\ cs \in Seq(Legs) /\ r \in Seq(Legs) /\ Alike(cs, r)
       /\ e.act \in Plain /\ e.n = 1
       /\ e.act \in {"sell_short", "close_short"} => e.c \in Contracts
       /\ e.act = "close_short" => Tally(r, {e.c}) > 0
  BY <1>2, <1>7, <1>11, <1>12, <1>14
<1>20. Calls(j) = ReplayCall(r, e) /\ q.calls = Moved(cs, e)
  BY <1>6, <1>13
<1> HIDE DEF q, r, cs
<1>19. Alike(Moved(cs, e), ReplayCall(r, e))
  BY <1>18, AlikeAfter
<1>21. \A d : Tally(ReplayCall(r, e), {d}) = Tally(r, {d}) + Gain(e, d)
  BY <1>18, Gains
<1>16. /\ Alike(q.calls, Calls(j))
       /\ \A d : Tally(Calls(j), {d}) = Tally(Calls(l), {d}) + Gain(e, d)
  BY <1>19, <1>20, <1>21 DEF r
<1>17. ASSUME NEW k, Reach(j, k), NEW c \in Contracts
       PROVE  Tally(Calls(j), {c}) = Net(history, c, k)
  <2>1. k = i
    <3>1. Len(j) # 0 /\ j[Len(j)] = e
      BY <1>3
    <3>2. k \in DOMAIN history /\ 2 * k = 2 * i
      BY <1>2, <1>17, <3>1 DEF Reach
    <3>3. k \in Nat
      BY <3>2, SeqFacts DEF BookOK
    <3> QED
      BY <1>2, <3>2, <3>3
  <2>2. i - 1 \in Nat /\ (i - 1) + 1 = i
    BY <1>2
  <2>3. /\ Net(history, c, i) = Net(history, c, i - 1) + One(history[i], {Sold(c)}) - One(history[i], {Back(c)})
        /\ Net(history, c, i - 1) \in Int
    <3> DEFINE a == i - 1
    <3>1. a \in Nat /\ a + 1 = i
      BY <2>2
    <3> HIDE DEF a
    <3>2. Net(history, c, a) \in Int
          /\ Net(history, c, a + 1) = Net(history, c, a) + One(history[a + 1], {Sold(c)}) - One(history[a + 1], {Back(c)})
      BY <3>1, NetNext
    <3> QED
      BY <3>1, <3>2 DEF a
  <2>4. /\ One(history[i], {Sold(c)}) = (IF e.act = "sell_short" /\ e.c = c THEN 1 ELSE 0)
        /\ One(history[i], {Back(c)}) = (IF e.act = "close_short" /\ e.c = c THEN 1 ELSE 0)
    BY <1>2 DEF One, Sold, Back, Event
  <2>5. Tally(Calls(j), {c}) = Net(history, c, i - 1) + Gain(e, c)
    BY <1>10, <1>16
  <2> QED
    BY <2>1, <2>3, <2>4, <2>5 DEF Gain
<1> QED
  BY <1>13, <1>15, <1>16, <1>17 DEF q

-----------------------------------------------------------------------------
(* The bookings of a calm day: no repair, no crash, no put.                 *)

Calm == fixes = 0 /\ "crash" \notin mishaps /\ PutFree

\* The writes of one trade, after it, from its update on and from its append on.
Rest(j) == j = << >> \/ j = HealStep
Update(s, e) == s.do = "apply" /\ s.e = e /\ s.ids = {} /\ ~s.strict
FromUpdate(j, e) == j # << >> /\ Update(Head(j), e) /\ Rest(Tail(j))
FromAppend(j, e) == j # << >> /\ Head(j) = AppendStep(e) /\ FromUpdate(Tail(j), e)

Along ==
  /\ TradeLog(log)
  /\ \/ Rest(job) /\ Follows(log)
     \/ \E e : OfTrade(e) /\ FromAppend(job, e) /\ Follows(log)
     \/ \E e, l : OfTrade(e) /\ TradeLog(l) /\ Then(log, l, e) /\ Follows(l) /\ FromUpdate(job, e)

Grown == UNCHANGED <<history, broker>> \/ \E h : Traded(h)
SameBook == pos'.shares = pos.shares /\ pos'.calls = pos.calls

LEMMA TwoAndOne ==
  ASSUME NEW X, NEW s \in Seq(X), NEW t \in Seq(X), Len(s) = 2, Len(t) = 1
  PROVE  /\ s \o t \in Seq(X) /\ Len(s \o t) = 3
         /\ (s \o t)[1] = s[1] /\ (s \o t)[2] = s[2] /\ (s \o t)[3] = t[1]
<1>1. /\ s \o t \in Seq(X)
      /\ Len(s \o t) = Len(s) + Len(t)
      /\ \A i \in 1 .. Len(s) + Len(t) : (s \o t)[i] = IF i <= Len(s) THEN s[i] ELSE t[i - Len(s)]
  BY ConcatProperties
<1>2. \A i \in 1..3 : (s \o t)[i] = IF i <= 2 THEN s[i] ELSE t[i - 2]
  BY <1>1
<1> QED
  BY <1>1, <1>2

LEMMA Heads ==
  /\ HealStep # << >> /\ Head(HealStep).do = "heal" /\ Tail(HealStep) = << >>
  /\ \A e, t : FromAppend(Booking(e, t), e) /\ FromAppend(Booking(e, t) \o HealStep, e)
<1>1. HealStep # << >> /\ Head(HealStep).do = "heal" /\ Tail(HealStep) = << >>
  BY DEF HealStep
<1>2. ASSUME NEW e, NEW t
      PROVE  FromAppend(Booking(e, t), e) /\ FromAppend(Booking(e, t) \o HealStep, e)
  <2> DEFINE a == AppendStep(e)
             b == ApplyStep(e, t, {}, FALSE)
             h == [do |-> "heal"]
  <2>1. Update(b, e)
    BY DEF Update, ApplyStep
  <2>2. Booking(e, t) = <<a, b>> /\ HealStep = <<h>>
    BY DEF Booking, HealStep
  <2>3. a = AppendStep(e)
    OBVIOUS
  <2> HIDE DEF a, b, h
  <2>4. /\ <<a, b>> # << >> /\ Head(<<a, b>>) = a /\ Tail(<<a, b>>) = <<b>>
        /\ <<b>> # << >> /\ Head(<<b>>) = b /\ Tail(<<b>>) = << >>
    OBVIOUS
  <2>5. <<a, b>> \o <<h>> = <<a, b, h>>
    <3> DEFINE X == {a, b, h}
               s == <<a, b>>
               hs == <<h>>
               u == <<a, b, h>>
    <3>1. s \in Seq(X) /\ hs \in Seq(X) /\ u \in Seq(X)
      OBVIOUS
    <3>2. /\ Len(s) = 2 /\ Len(hs) = 1 /\ Len(u) = 3
          /\ s[1] = a /\ s[2] = b /\ hs[1] = h /\ u[1] = a /\ u[2] = b /\ u[3] = h
      OBVIOUS
    <3> HIDE DEF X, s, hs, u
    <3>3. s \o hs \in Seq(X) /\ Len(s \o hs) = 3
      BY <3>1, <3>2, TwoAndOne
    <3>4. (s \o hs)[1] = a /\ (s \o hs)[2] = b /\ (s \o hs)[3] = h
      BY <3>1, <3>2, TwoAndOne
    <3>5. \A i \in 1..3 : i = 1 \/ i = 2 \/ i = 3
      OBVIOUS
    <3>6. \A i \in 1..3 : (s \o hs)[i] = u[i]
      BY <3>2, <3>4, <3>5
    <3>7. s \o hs = u
      BY <3>1, <3>2, <3>3, <3>6, SeqEqual
    <3> QED
      BY <3>7 DEF s, hs, u
  <2>8. /\ <<a, b, h>> # << >> /\ Head(<<a, b, h>>) = a /\ Tail(<<a, b, h>>) = <<b, h>>
        /\ <<b, h>> # << >> /\ Head(<<b, h>>) = b /\ Tail(<<b, h>>) = <<h>>
    OBVIOUS
  <2>6. FromAppend(<<a, b>>, e)
    BY <2>1, <2>3, <2>4 DEF FromAppend, FromUpdate, Rest
  <2>7. FromAppend(<<a, b>> \o <<h>>, e)
    BY <2>1, <2>2, <2>3, <2>5, <2>8 DEF FromAppend, FromUpdate, Rest
  <2> QED
    BY <2>2, <2>6, <2>7
<1> QED
  BY <1>1, <1>2

\* What the history holds it keeps, where it holds it.
LEMMA Remembered ==
  ASSUME BookOK, Grown
  PROVE  /\ DOMAIN history = 1..Len(history) /\ DOMAIN history \subseteq DOMAIN history'
         /\ \A i \in DOMAIN history : history'[i] = history[i]
         /\ \A i \in DOMAIN history' : i \in Nat
<1>1. DOMAIN history = 1..Len(history) /\ Len(history) \in Nat
  BY SeqFacts DEF BookOK
<1>2. CASE UNCHANGED <<history, broker>>
  BY <1>1, <1>2
<1>3. ASSUME NEW h, Traded(h) PROVE DOMAIN history' = 1..Len(history) + 1 /\ \A i \in 1..Len(history) : history'[i] = history[i]
  BY <1>3, HistoryGrows
<1> QED
  BY <1>1, <1>2, <1>3 DEF Grown

\* A log that the mirror follows is followed while neither changes.
LEMMA Later ==
  ASSUME BookOK, Grown, SameBook, NEW l, TradeLog(l), Follows(l)
  PROVE  TradeLog(l)' /\ Follows(l)'
<1>1. /\ DOMAIN history = 1..Len(history) /\ DOMAIN history \subseteq DOMAIN history'
      /\ \A i \in DOMAIN history : history'[i] = history[i]
      /\ \A i \in DOMAIN history' : i \in Nat
  BY Remembered
<1>2. ASSUME NEW e, OfTrade(e) PROVE OfTrade(e)'
  BY <1>1, <1>2 DEF OfTrade, TradeExecution
<1>3. TradeLog(l)'
  BY <1>2 DEF TradeLog
<1>4. ASSUME Rising(l), Gapless(l)' PROVE Mirrors(l)'
  <2>1. Gapless(l)
    BY <1>1, <1>4 DEF Gapless
  <2>2. Mirrors(l)
    BY <1>4, <2>1 DEF Follows
  <2>3. ASSUME NEW m, Reach(l, m)', NEW c \in Contracts PROVE Tally(Calls(l), {c}) = Net(history', c, m)
    <3>1. CASE Len(l) = 0
      <4>1. m = 0 /\ Reach(l, m)
        BY <2>3, <3>1 DEF Reach
      <4>2. Net(history', c, 0) = 0 /\ Net(history, c, 0) = 0
        BY NetNext
      <4> QED
        BY <2>2, <4>1, <4>2 DEF Mirrors
    <3>2. CASE Len(l) # 0
      <4>1. m \in DOMAIN history' /\ l[Len(l)].day = 2 * m /\ m \in Nat
        BY <1>1, <2>3, <3>2 DEF Reach
      <4>2. Len(l) \in 1..Len(l)
        BY <3>2, BookedIs
      <4>3. PICK i \in DOMAIN history : l[Len(l)] = TradeExecution(i) /\ history[i].act \in Plain
        BY <4>2 DEF TradeLog, OfTrade
      <4>4. l[Len(l)].day = 2 * i /\ i \in Nat
        BY <4>3, TradeIs
      <4>5. m = i
        BY <4>1, <4>4
      <4>6. Reach(l, m)
        BY <3>2, <4>1, <4>3, <4>5 DEF Reach
      <4>7. \A j \in 1..m : history'[j] = history[j]
        BY <1>1, <4>3, <4>5
      <4>8. Net(history', c, m) = Net(history, c, m)
        BY <4>7, NetSame
      <4> QED
        BY <2>2, <4>6, <4>8 DEF Mirrors
    <3> QED
      BY <3>1, <3>2
  <2> QED
    BY <2>2, <2>3 DEF Mirrors, SameBook
<1> QED
  BY <1>3, <1>4 DEF Follows

LEMMA AlongKept ==
  ASSUME BookOK, Along, Grown, SameBook, UNCHANGED log,
         job' = job \/ (job = << >> /\ job' = HealStep)
  PROVE  Along'
<1>1. PICK x : x = log
  OBVIOUS
<1>2. \A e : OfTrade(e) => OfTrade(e)'
  <2>1. /\ DOMAIN history \subseteq DOMAIN history'
        /\ \A i \in DOMAIN history : history'[i] = history[i]
    BY Remembered
  <2> QED
    BY <2>1 DEF OfTrade, TradeExecution
<1>3. TradeLog(x) /\ log' = x
  BY <1>1 DEF Along
<1>4. TradeLog(x)'
  BY <1>2, <1>3 DEF TradeLog
<1>5. TradeLog(log)'
  BY <1>3, <1>4 DEF TradeLog
<1>6. ASSUME Rest(job), Follows(log) PROVE Rest(job)' /\ Follows(log)'
  <2>1. Follows(x)'
    BY <1>1, <1>3, <1>6, Later
  <2>2. Follows(log)'
    BY <1>3, <2>1 DEF Follows, Rising, Gapless, DayIn, Mirrors, Reach
  <2> QED
    BY <1>6, <2>2 DEF Rest
<1>7. ASSUME NEW e, OfTrade(e), FromAppend(job, e), Follows(log)
      PROVE  OfTrade(e)' /\ FromAppend(job, e)' /\ Follows(log)'
  <2>1. Follows(x)'
    BY <1>1, <1>3, <1>7, Later
  <2>2. Follows(log)'
    BY <1>3, <2>1 DEF Follows, Rising, Gapless, DayIn, Mirrors, Reach
  <2>3. job' = job
    BY <1>7 DEF FromAppend
  <2> QED
    BY <1>2, <1>7, <2>2, <2>3 DEF FromAppend
<1>8. ASSUME NEW e, NEW l, OfTrade(e), TradeLog(l), Then(log, l, e), Follows(l), FromUpdate(job, e)
      PROVE  OfTrade(e)' /\ TradeLog(l)' /\ Then(log, l, e)' /\ Follows(l)' /\ FromUpdate(job, e)'
  <2>1. TradeLog(l)' /\ Follows(l)'
    BY <1>8, Later
  <2>2. job' = job
    BY <1>8 DEF FromUpdate
  <2> QED
    BY <1>2, <1>8, <2>1, <2>2 DEF FromUpdate, Then
<1> QED
  BY <1>5, <1>6, <1>7, <1>8 DEF Along

LEMMA AlongCommit ==
  ASSUME BookOK, Along, PutFree, NEW i \in DOMAIN history, _commit(i) \/ adopt_broker_trade(i)
  PROVE  Along'
<1> DEFINE e == TradeExecution(i)
<1>1. /\ job = << >> /\ UNCHANGED <<history, log, pos>>
      /\ \/ \E t : job' = Booking(e, t)
         \/ job' = Booking(e, TRUE) \o HealStep
      /\ history[i].act \in Trades
  BY DEF _commit, adopt_broker_trade, Start, Ready, Unbooked, market, book
<1>2. history[i].act \in Plain
  BY <1>1 DEF PutFree, PutTrade, Plain, Trades
<1>3. OfTrade(e)
  BY <1>2 DEF OfTrade
<1> HIDE DEF e
<1>4. FromAppend(job', e)
  BY <1>1, Heads
<1>5. TradeLog(log) /\ Follows(log)
  BY <1>1 DEF Along, FromAppend, FromUpdate
<1>6. TradeLog(log)'
  BY <1>1, <1>5 DEF TradeLog, OfTrade, TradeExecution
<1>7. Follows(log)'
  BY <1>1, <1>5 DEF Follows, Rising, Gapless, DayIn, Mirrors, Reach
<1>8. PICK x : x = e
  OBVIOUS
<1>9. OfTrade(x)' /\ FromAppend(job, x)'
  BY <1>1, <1>3, <1>4, <1>8 DEF OfTrade, TradeExecution, FromAppend, FromUpdate, Update, Rest
<1> QED
  BY <1>6, <1>7, <1>9 DEF Along

LEMMA AlongAppend == ASSUME BookOK, Along, append_execution PROVE Along'
<1>1. /\ job # << >> /\ Head(job).do = "append" /\ log' = Append(log, Head(job).e) /\ job' = Tail(job)
      /\ UNCHANGED <<history, pos>>
  BY DEF append_execution, market
<1>2. ~Rest(job) /\ ~\E e : FromUpdate(job, e)
  BY <1>1, Heads DEF Rest, FromUpdate, Update
<1>3. PICK e : OfTrade(e) /\ FromAppend(job, e) /\ Follows(log)
  BY <1>2 DEF Along
<1>4. Head(job).e = e /\ FromUpdate(job', e)
  BY <1>1, <1>3 DEF FromAppend, AppendStep
<1>5. PICK l : l = log
  OBVIOUS
<1>6. PICK j : j = log'
  OBVIOUS
<1>7. TradeLog(l) /\ Follows(l) /\ Then(j, l, e)
  BY <1>1, <1>3, <1>4, <1>5, <1>6 DEF Along, Then
<1>8. TradeLog(j)
  BY <1>3, <1>7, BeforeLast
<1>9. TradeLog(j)' /\ TradeLog(l)' /\ OfTrade(e)' /\ Follows(l)'
  BY <1>1, <1>3, <1>7, <1>8 DEF OfTrade, TradeExecution, TradeLog,
     Follows, Rising, Gapless, DayIn, Mirrors, Reach
<1>10. TradeLog(log)' /\ Then(log, l, e)' /\ FromUpdate(job, e)'
  BY <1>4, <1>6, <1>7, <1>9 DEF TradeLog, Then, FromUpdate, Update, Rest
<1> QED
  BY <1>9, <1>10 DEF Along

LEMMA AlongApply == ASSUME BookOK, Covered, Along, apply PROVE Along'
<1> DEFINE s == Head(job)
<1>1. /\ job # << >> /\ s.do = "apply" /\ UNCHANGED <<history, log>>
      /\ ~(s.strict /\ ~(s.ids \subseteq DOMAIN report.diffs)) =>
           pos' = Applied(s, resolutions') /\ job' = Tail(job)
  BY DEF apply, market
<1>2. ~Rest(job) /\ ~\E e : FromAppend(job, e)
  BY <1>1, Heads DEF Rest, FromAppend, AppendStep
<1>3. PICK e, l : OfTrade(e) /\ TradeLog(l) /\ Then(log, l, e) /\ Follows(l) /\ FromUpdate(job, e)
  BY <1>2 DEF Along
<1>4. s.e = e /\ s.ids = {} /\ ~s.strict /\ Rest(Tail(job))
  BY <1>3 DEF FromUpdate, Update
<1>5. pos' = Applied(s, resolutions') /\ job' = Tail(job)
  BY <1>1, <1>4
<1> HIDE DEF s
<1> DEFINE start == _ensure_position(pos)
           p == position_update(start, e)
           q == IF s.tidy THEN _close_if_empty(p) ELSE p
<1>6. pos' = q
  BY <1>4, <1>5 DEF Applied
<1>7. PICK j : j = log
  OBVIOUS
<1>8. Then(j, l, e) /\ TradeLog(j)
  BY <1>3, <1>7 DEF Along
<1>9. Whole(start) /\ start.shares = pos.shares /\ start.calls = pos.calls
  BY Restates DEF Restated, BookOK
<1> HIDE DEF start
<1>10. ASSUME Rising(j), Gapless(j)
       PROVE  /\ pos'.shares = Lots(j) /\ Alike(pos'.calls, Calls(j))
              /\ \A m : Reach(j, m) => \A c \in Contracts : Tally(Calls(j), {c}) = Net(history, c, m)
  <2>1. /\ Whole(p) /\ p.shares = Lots(j) /\ Alike(p.calls, Calls(j))
        /\ \A m : Reach(j, m) => \A c \in Contracts : Tally(Calls(j), {c}) = Net(history, c, m)
    BY <1>3, <1>8, <1>9, <1>10, Advance
  <2> HIDE DEF p
  <2>2. q.shares = p.shares /\ q.calls = p.calls
    BY <2>1, Restates DEF Restated
  <2> QED
    BY <1>6, <2>1, <2>2
<1>11. Follows(j)'
  BY <1>1, <1>10 DEF Follows, Rising, Gapless, DayIn, Mirrors, Reach
<1>12. Follows(log)' /\ TradeLog(log)'
  <2>1. log' = j
    BY <1>1, <1>7
  <2>2. Follows(log)'
    BY <1>11, <2>1 DEF Follows, Rising, Gapless, DayIn, Mirrors, Reach
  <2>3. TradeLog(log)'
    BY <1>1, <1>8, <2>1 DEF TradeLog, OfTrade, TradeExecution
  <2> QED
    BY <2>2, <2>3
<1>13. Rest(job)'
  BY <1>4, <1>5 DEF Rest
<1> QED
  BY <1>12, <1>13 DEF Along

LEMMA AlongHeal == ASSUME BookOK, Along, heal PROVE Along'
<1>1. /\ job # << >> /\ Head(job).do = "heal" /\ job' = Tail(job) /\ UNCHANGED <<history, log>>
  BY DEF heal, market
<1>2. ~\E e : FromAppend(job, e) \/ FromUpdate(job, e)
  BY <1>1 DEF FromAppend, FromUpdate, Update, AppendStep
<1>3. TradeLog(log) /\ Follows(log) /\ Rest(job)
  BY <1>2 DEF Along
<1>4. job' = << >>
  BY <1>1, <1>3, Heads DEF Rest
<1>5. PICK q : Healed(q) /\ (pos' = q \/ pos' = reevaluate_freezes(q, report, resolutions))
  BY HealIs
<1>6. pos'.shares = q.shares /\ pos'.calls = q.calls
  <2>1. Whole(q)
    BY <1>5 DEF Healed
  <2>2. reevaluate_freezes(q, report, resolutions).shares = q.shares
        /\ reevaluate_freezes(q, report, resolutions).calls = q.calls
    BY <2>1, Reevaluated
  <2> QED
    BY <1>5, <2>2
<1>7. pos'.shares \in {pos.shares, Lots(log)} /\ pos'.calls \in {pos.calls, Calls(log)}
  BY <1>5, <1>6 DEF Healed
<1>8. ASSUME Mirrors(log)
      PROVE  /\ pos'.shares = Lots(log) /\ Alike(pos'.calls, Calls(log))
             /\ \A m : Reach(log, m) => \A c \in Contracts : Tally(Calls(log), {c}) = Net(history, c, m)
  BY <1>7, <1>8 DEF Mirrors, Alike
<1>9. PICK j : j = log
  OBVIOUS
<1>10. Follows(j)'
  BY <1>1, <1>3, <1>8, <1>9 DEF Follows, Rising, Gapless, DayIn, Mirrors, Reach
<1>11. Follows(log)'
  BY <1>1, <1>9, <1>10 DEF Follows, Rising, Gapless, DayIn, Mirrors, Reach
<1>12. TradeLog(log)'
  BY <1>1, <1>3 DEF TradeLog, OfTrade, TradeExecution
<1>13. Rest(job)'
  BY <1>4 DEF Rest
<1> QED
  BY <1>11, <1>12, <1>13 DEF Along

-----------------------------------------------------------------------------
(* Every step of a calm day keeps the mirror along.                         *)

InStep ==
  /\ fixes \in Nat /\ Covered
  /\ Calm => Along

LEMMA InStepInit == Init => InStep
<1> SUFFICES ASSUME Init PROVE InStep
  OBVIOUS
<1>1. fixes \in Nat /\ history = << >> /\ log = << >> /\ job = << >>
      /\ pos.shares = 0 /\ pos.calls = << >> /\ broker = Nothing
  BY DEF Init
<1>2. Len(<< >>) = 0 /\ 1..0 = {}
  OBVIOUS
<1>3. Covered
  <2>1. \A c \in Contracts : broker[c] = 0
    BY <1>1, Instruments DEF Nothing
  <2>2. \A c : Net(history, c, 0) = 0
    BY NetNext
  <2> QED
    BY <1>1, <1>2, <2>1, <2>2 DEF Covered
<1>4. TradeLog(log)
  BY <1>1, <1>2, Short DEF TradeLog
<1>5. Mirrors(log)
  <2>1. Lots(log) = 0 /\ Calls(log) = << >>
    BY <1>1, ReplayNone
  <2>2. \A m : Reach(log, m) => m = 0
    BY <1>1, <1>2 DEF Reach
  <2>3. \A c : Net(history, c, 0) = 0 /\ Tally(<< >>, {c}) = 0
    BY NetNext, TallyNone
  <2> QED
    BY <1>1, <2>1, <2>2, <2>3 DEF Mirrors, Alike
<1>6. Along
  BY <1>1, <1>4, <1>5 DEF Along, Rest, Follows
<1> QED
  BY <1>1, <1>3, <1>6 DEF InStep

LEMMA InStepNext == ASSUME BookOK, InStep, Next PROVE InStep'
<1>0. fixes \in Nat /\ Covered
  BY DEF InStep
<1>1. ASSUME UNCHANGED <<history, broker>> PROVE Covered'
  BY <1>0, <1>1 DEF Covered
<1>2. ASSUME UNCHANGED <<history, broker>>, Repairing PROVE InStep'
  <2>1. fixes' \in Nat /\ ~Calm'
    BY <1>0, <1>2 DEF Repairing, Calm
  <2> QED
    BY <1>1, <1>2, <2>1 DEF InStep
<1>3. ASSUME UNCHANGED <<history, broker, fixes>>, mishaps \subseteq mishaps', Calm /\ Along => Along'
      PROVE  InStep'
  <2>1. Calm' => Calm
    BY <1>3 DEF Calm, PutFree
  <2>2. fixes' \in Nat
    BY <1>0, <1>3
  <2> QED
    BY <1>1, <1>3, <2>1, <2>2 DEF InStep
<1>4. CASE BrokerStep
  <2>1. UNCHANGED <<log, pos, job, fixes, mishaps>> /\ Grown
    BY <1>4, Trading DEF BookOK, Grown, book, bounds
  <2>2. Covered'
    BY <1>0, <1>1, <2>1, CoveredNext DEF Grown
  <2>3. Calm' => Calm
    <3>1. /\ DOMAIN history \subseteq DOMAIN history' /\ \A i \in DOMAIN history : history'[i] = history[i]
      BY <2>1, Remembered
    <3> QED
      BY <2>1, <3>1 DEF Calm, PutFree
  <2>4. Along => Along'
    BY <2>1, AlongKept DEF SameBook
  <2> QED
    BY <1>0, <2>1, <2>2, <2>3, <2>4 DEF InStep
<1>5. ASSUME UNCHANGED <<history, broker, fixes, log>>, mishaps \subseteq mishaps',
             pos' = pos \/ \E rep, res : pos' = reevaluate_freezes(pos, rep, res),
             job' = job \/ (job = << >> /\ job' = HealStep)
      PROVE  InStep'
  <2>1. SameBook
    <3>1. ASSUME NEW rep, NEW res, pos' = reevaluate_freezes(pos, rep, res) PROVE SameBook
      <4>1. Whole(pos)
        BY DEF BookOK
      <4> QED
        BY <3>1, <4>1, Reevaluated DEF SameBook
    <3>2. CASE pos' = pos
      BY <3>2 DEF SameBook
    <3> QED
      BY <1>5, <3>1, <3>2
  <2>2. Along => Along'
    BY <1>5, <2>1, AlongKept DEF Grown
  <2> QED
    BY <1>3, <1>5, <2>2
<1>6. CASE Fetch
  BY <1>5, <1>6 DEF Fetch, market, book, bounds
<1>7. CASE FetchFails
  <2>1. UNCHANGED <<history, broker, fixes, log, pos, job>> /\ mishaps \subseteq mishaps'
    BY <1>7 DEF FetchFails, FailedRun, Mishap, market
  <2> QED
    BY <1>5, <2>1
<1>8. CASE run_reconciliation
  <2>1. /\ UNCHANGED <<history, broker, fixes, log, mishaps>>
        /\ pos' = reevaluate_freezes(pos, report', resolutions)
        /\ job' = job \/ (job = << >> /\ job' = HealStep)
    BY <1>8 DEF run_reconciliation, market, bounds, HealStep
  <2>2. \E rep, res : pos' = reevaluate_freezes(pos, rep, res)
    BY <2>1
  <2> QED
    BY <1>5, <2>1, <2>2
<1>9. ASSUME NEW i \in DOMAIN history, _commit(i) \/ adopt_broker_trade(i) PROVE InStep'
  <2>1. UNCHANGED <<history, broker, fixes, mishaps>>
    BY <1>9 DEF _commit, adopt_broker_trade, Start, market, bounds
  <2>2. Calm /\ Along => Along'
    BY <1>9, AlongCommit DEF Calm
  <2> QED
    BY <1>3, <2>1, <2>2
<1>10. CASE append_execution
  <2>1. UNCHANGED <<history, broker, fixes, mishaps>>
    BY <1>10 DEF append_execution, market, bounds
  <2> QED
    BY <1>3, <1>10, <2>1, AlongAppend
<1>11. CASE apply
  <2>1. UNCHANGED <<history, broker, fixes, mishaps>>
    BY <1>11 DEF apply, market, bounds
  <2> QED
    BY <1>0, <1>3, <1>11, <2>1, AlongApply
<1>12. CASE heal
  <2>1. UNCHANGED <<history, broker, fixes, mishaps>>
    BY <1>12 DEF heal, market, bounds
  <2> QED
    BY <1>3, <1>12, <2>1, AlongHeal
<1>13. CASE mark_diff_resolved \/ set_legs
  <2>1. /\ UNCHANGED <<history, broker, fixes, mishaps>>
        /\ job # << >> /\ Head(job).do \in {"mark", "legs"}
    BY <1>13 DEF mark_diff_resolved, set_legs, market, bounds
  <2>2. ~Along
    BY <2>1, Heads DEF Along, Rest, FromAppend, FromUpdate, Update, AppendStep
  <2> QED
    BY <1>3, <2>1, <2>2
<1>14. CASE Repair
  <2>1. UNCHANGED <<history, broker>> /\ Repairing
    BY <1>14 DEF Repair, rebuild_from_log, rebuild_position_from_broker, _adjustment, resolve_expiry,
       acknowledge_diff, record_called_away, SetVoid, Fix, Start, market
  <2> QED
    BY <1>2, <2>1
<1>15. CASE Crash
  <2>1. UNCHANGED <<history, broker, fixes>> /\ "crash" \in mishaps'
    BY <1>15 DEF Crash, Mishap, market
  <2> QED
    BY <1>0, <1>1, <2>1 DEF InStep, Calm
<1> QED
  BY <1>4, <1>6, <1>7, <1>8, <1>9, <1>10, <1>11, <1>12, <1>13, <1>14, <1>15 DEF Next, JobStep

LEMMA InStepSame == ASSUME BookOK, InStep, UNCHANGED vars PROVE InStep'
<1>1. UNCHANGED <<history, broker, log, pos, job, fixes, mishaps>>
  BY DEF vars
<1>2. Covered' /\ (Calm' => Calm)
  BY <1>1 DEF InStep, Covered, Calm, PutFree
<1>3. Along => Along'
  BY <1>1, AlongKept DEF Grown, SameBook
<1> QED
  BY <1>1, <1>2, <1>3 DEF InStep

LEMMA InStepAlways == Spec => []InStep
<1>1. Init => InStep
  BY InStepInit
<1>2. BookOK /\ InStep /\ [Next]_vars => InStep'
  BY InStepNext, InStepSame
<1> QED
  BY <1>1, <1>2, BookAlways, PTL DEF Spec

(* Booked in date order, no trade skipped, and left alone, the mirror is    *)
(* what the replay of the log gives, in the shares and in the legs of every *)
(* strike (_reduce_shares and _close_short of executor.py against           *)
(* replay_shares_from_log and replay_short_calls).                          *)
THEOREM MirrorInStepAlways == Spec => []MirrorInStep
<1>1. BookOK /\ InStep => MirrorInStep
  <2> SUFFICES ASSUME BookOK, InStep, Ready, fixes = 0, "crash" \notin mishaps, PutFree, InOrder, NoneSkipped
               PROVE  /\ pos.shares = replay_shares_from_log
                      /\ \A s \in Strikes : Count(pos.calls, LAMBDA leg : leg.strike = s)
                                              = Count(replay_short_calls, LAMBDA leg : leg.strike = s)
    BY DEF MirrorInStep
  <2>1. Along /\ job = << >>
    BY DEF InStep, Calm, Ready
  <2>2. TradeLog(log) /\ Follows(log)
    BY <2>1 DEF Along, FromAppend, FromUpdate
  <2>3. DOMAIN log = 1..Len(log) /\ LogOK(log)
    BY <2>2, BookedIs
  <2>4. Rising(log)
    BY <2>3 DEF InOrder, Rising
  <2>5. Gapless(log)
    BY <2>3 DEF NoneSkipped, Unbooked, Gapless, DayIn
  <2>6. pos.shares = Lots(log) /\ Alike(pos.calls, Calls(log))
    BY <2>2, <2>4, <2>5 DEF Follows, Mirrors
  <2>7. pos.calls \in Seq(Legs) /\ Calls(log) \in Seq(Legs)
    <3>1. Calls(log) \in Seq(Contracts) /\ Contracts \subseteq Legs
      BY <2>3, CallsTyped DEF Legs
    <3> QED
      BY <3>1, Sub DEF BookOK
  <2>8. ASSUME NEW q \in Seq(Legs), NEW s
        PROVE  Count(q, LAMBDA leg : leg.strike = s) = Tally(q, StrikeLegs(s))
    <3>1. \A i \in DOMAIN q : q[i] \in Legs
      OBVIOUS
    <3>2. {i \in DOMAIN q : q[i].strike = s} = {i \in DOMAIN q : q[i] \in StrikeLegs(s)}
      BY <3>1 DEF StrikeLegs
    <3> QED
      BY <3>2 DEF Count, Tally
  <2>9. \A s : Count(pos.calls, LAMBDA leg : leg.strike = s) = Count(Calls(log), LAMBDA leg : leg.strike = s)
    BY <2>6, <2>7, <2>8 DEF Alike
  <2>10. replay_shares_from_log = Lots(log) /\ replay_short_calls = Calls(log)
    BY ReplayIs
  <2>11. \A s : Count(replay_short_calls, LAMBDA leg : leg.strike = s) = Count(Calls(log), LAMBDA leg : leg.strike = s)
    BY <2>10 DEF Count
  <2>12. \A s \in Strikes : Count(pos.calls, LAMBDA leg : leg.strike = s)
                               = Count(replay_short_calls, LAMBDA leg : leg.strike = s)
    BY <2>9, <2>11 DEF Count
  <2> QED
    BY <2>6, <2>10, <2>12
<1> QED
  BY <1>1, BookAlways, InStepAlways, PTL

-----------------------------------------------------------------------------
(* Sums.                                                                    *)

Units(f, S) == UNION {{x} \X (1..f[x]) : x \in S}
SumOf(f, S) == Cardinality(Units(f, S))
Numbers(f, S) == IsFiniteSet(S) /\ \A x \in S : f[x] \in Int

LEMMA TotalIs ==
  ASSUME NEW f, NEW g, \A x \in DOMAIN g : g[x] = f[x]
  PROVE  Total(g) = SumOf(f, DOMAIN g)
<1>1. \A x \in DOMAIN g : {x} \X (1..g[x]) = {x} \X (1..f[x])
  OBVIOUS
<1>2. {{x} \X (1..g[x]) : x \in DOMAIN g} = {{x} \X (1..f[x]) : x \in DOMAIN g}
  BY <1>1
<1> QED
  BY <1>2 DEF Total, SumOf, Units

LEMMA UnitsFinite ==
  ASSUME NEW f, NEW S, Numbers(f, S)
  PROVE  IsFiniteSet(Units(f, S))
<1> DEFINE g == [x \in S |-> {x} \X (1..f[x])]
           T == {{x} \X (1..f[x]) : x \in S}
<1>1. g \in Surjection(S, T)
  BY DEF Surjection
<1>2. IsFiniteSet(S) /\ \A x \in S : f[x] \in Int
  BY DEF Numbers
<1>3. IsFiniteSet(T)
  <2> HIDE DEF g, T
  <2> QED
    BY <1>1, <1>2, FS_Surjection
<1>4. ASSUME NEW x \in S PROVE IsFiniteSet({x} \X (1..f[x]))
  <2>1. IsFiniteSet(1..f[x])
    BY <1>2, FS_Interval
  <2>2. IsFiniteSet({x})
    BY FS_Singleton
  <2> QED
    BY <2>1, <2>2, FS_Product
<1>5. \A t \in T : IsFiniteSet(t)
  BY <1>4
<1> HIDE DEF T
<1>6. IsFiniteSet(UNION T)
  BY <1>3, <1>5, FS_UNION
<1> QED
  BY <1>6 DEF T, Units

LEMMA SumIs ==
  ASSUME NEW f, NEW S, Numbers(f, S)
  PROVE  SumOf(f, S) \in Nat
BY UnitsFinite, FS_CardinalityType DEF SumOf

LEMMA SumNone == \A f : SumOf(f, {}) = 0
<1>1. \A f : Units(f, {}) = {}
  BY DEF Units
<1> QED
  BY <1>1, FS_EmptySet DEF SumOf

LEMMA SumMore ==
  ASSUME NEW f, NEW S, Numbers(f, S), NEW T \in SUBSET S
  PROVE  SumOf(f, T) <= SumOf(f, S) /\ Numbers(f, T)
<1>1. Units(f, T) \in SUBSET Units(f, S)
  BY DEF Units
<1>2. SumOf(f, T) <= SumOf(f, S)
  BY <1>1, UnitsFinite, FS_Subset DEF SumOf
<1>3. IsFiniteSet(T)
  BY FS_Subset DEF Numbers
<1> QED
  BY <1>2, <1>3 DEF Numbers

LEMMA SumBoth ==
  ASSUME NEW f, NEW S, Numbers(f, S), NEW T, Numbers(f, T), S \cap T = {}
  PROVE  SumOf(f, S \union T) = SumOf(f, S) + SumOf(f, T) /\ Numbers(f, S \union T)
<1> DEFINE a == Units(f, S)
           b == Units(f, T)
<1>1. Units(f, S \union T) = a \union b
  BY DEF Units
<1>2. a \cap b = {}
  BY DEF Units
<1>3. IsFiniteSet(a) /\ IsFiniteSet(b)
  BY UnitsFinite
<1>4. IsFiniteSet(S \union T)
  BY FS_Union DEF Numbers
<1> HIDE DEF a, b
<1>5. Cardinality(a \union b) = Cardinality(a) + Cardinality(b) - Cardinality(a \cap b)
  BY <1>3, FS_Union
<1>6. Cardinality(a \cap b) = 0
  BY <1>2, FS_EmptySet
<1>7. Cardinality(a) \in Nat /\ Cardinality(b) \in Nat
  BY <1>3, FS_CardinalityType
<1>8. Cardinality(a \union b) = Cardinality(a) + Cardinality(b)
  BY <1>5, <1>6, <1>7
<1> QED
  BY <1>1, <1>4, <1>8 DEF SumOf, Numbers, a, b

LEMMA SumOne ==
  ASSUME NEW f, NEW x, f[x] \in Nat
  PROVE  SumOf(f, {x}) = f[x] /\ Numbers(f, {x})
<1>1. Units(f, {x}) = {x} \X (1..f[x])
  BY DEF Units
<1>2. IsFiniteSet({x}) /\ Cardinality({x}) = 1
  BY FS_Singleton
<1>3. IsFiniteSet(1..f[x]) /\ Cardinality(1..f[x]) = f[x]
  <2>1. Cardinality(1..f[x]) = IF 1 > f[x] THEN 0 ELSE f[x] - 1 + 1
    BY FS_Interval
  <2>2. IsFiniteSet(1..f[x])
    BY FS_Interval
  <2> QED
    BY <2>1, <2>2
<1>4. Cardinality({x} \X (1..f[x])) = 1 * f[x]
  <2>1. Cardinality({x} \X (1..f[x])) = Cardinality({x}) * Cardinality(1..f[x])
    BY <1>2, <1>3, FS_Product
  <2> QED
    BY <1>2, <1>3, <2>1
<1>5. 1 * f[x] = f[x]
  OBVIOUS
<1>6. SumOf(f, {x}) = f[x]
  BY <1>1, <1>4, <1>5 DEF SumOf
<1> QED
  BY <1>2, <1>6 DEF Numbers

LEMMA SumAdd ==
  ASSUME NEW f, NEW S, Numbers(f, S), NEW x, x \notin S, f[x] \in Nat
  PROVE  SumOf(f, S \union {x}) = SumOf(f, S) + f[x] /\ Numbers(f, S \union {x})
<1>1. S \cap {x} = {}
  OBVIOUS
<1>2. SumOf(f, {x}) = f[x] /\ Numbers(f, {x})
  BY SumOne
<1> QED
  BY <1>1, <1>2, SumBoth

LEMMA SumOnes ==
  ASSUME NEW f, NEW S, IsFiniteSet(S), \A x \in S : f[x] = 1
  PROVE  SumOf(f, S) = Cardinality(S) /\ Numbers(f, S) /\ Cardinality(S) \in Nat
<1>1. Units(f, S) = S \X {1}
  BY DEF Units
<1>2. IsFiniteSet({1}) /\ Cardinality({1}) = 1
  BY FS_Singleton
<1>3. Cardinality(S \X {1}) = Cardinality(S) * 1
  BY <1>2, FS_Product
<1>4. Cardinality(S) \in Nat
  BY FS_CardinalityType
<1> QED
  BY <1>1, <1>3, <1>4 DEF SumOf, Numbers

LEMMA SumZero ==
  ASSUME NEW f, NEW S, \A x \in S : f[x] = 0
  PROVE  SumOf(f, S) = 0
<1>1. \A x \in S : {x} \X (1..f[x]) = {}
  OBVIOUS
<1>2. Units(f, S) = {}
  BY <1>1 DEF Units
<1> QED
  BY <1>2, FS_EmptySet DEF SumOf

LEMMA SumSame ==
  ASSUME NEW f, NEW g, NEW S, \A x \in S : g[x] = f[x]
  PROVE  SumOf(g, S) = SumOf(f, S)
<1>1. {{x} \X (1..g[x]) : x \in S} = {{x} \X (1..f[x]) : x \in S}
  OBVIOUS
<1> QED
  BY <1>1 DEF SumOf, Units

-----------------------------------------------------------------------------
(* What a removal and a replay add up to.                                  *)

\* So many legs of T are taken out, when there are as many.
Enough(q, T, n) == n \in Nat /\ n <= Tally(q, T)
Lost(p, q, T, n) ==
  \A C : /\ C \cap T = {} => Tally(p, C) = Tally(q, C)
         /\ T \subseteq C => Tally(p, C) = Tally(q, C) - n
LEMMA SomeTaken ==
  ASSUME NEW q \in Seq(Legs), NEW T, NEW n, NEW R,
         Runs(R, "legs", Taken(T, n), q, Len(q)), Enough(q, T, n)
  PROVE  Lost(R[Len(q)].kept, q, T, n)
<1> SUFFICES ASSUME NEW C
             PROVE  /\ C \cap T = {} => Tally(R[Len(q)].kept, C) = Tally(q, C)
                    /\ T \subseteq C => Tally(R[Len(q)].kept, C) = Tally(q, C) - n
  BY DEF Lost
<1> DEFINE N == Len(q)
           Wanted(m) == IF TallyTo(q, T, m) < n THEN n - TallyTo(q, T, m) ELSE 0
           Good(m) == LET a == R[m] IN
             /\ a = [kept |-> a.kept, remaining |-> a.remaining] /\ a.kept \in Seq(Legs)
             /\ a.remaining = Wanted(m)
             /\ C \cap T = {} => Tally(a.kept, C) = TallyTo(q, C, m)
             /\ T \subseteq C => Tally(a.kept, C) = TallyTo(q, C, m) - (n - a.remaining)
           Bad == {m \in 0..N : ~Good(m)}
<1>0. N \in Nat /\ N \in 0..N /\ \A i \in 1..N : q[i] \in Legs
  BY SeqFacts
<1>11. n \in Nat /\ n <= Tally(q, T)
  BY DEF Enough
<1>1. R[0] = [kept |-> << >>, remaining |-> n]
  BY DEF Runs, Base, Taken
<1>2. \A m \in 0..N - 1 : R[m + 1] = Taking(R[m], q[m + 1], Taken(T, n))
  BY DEF Runs, Step
<1> HIDE DEF N
<1>3. 0 \notin Bad
  <2>1. TallyTo(q, T, 0) = 0 /\ TallyTo(q, C, 0) = 0 /\ Tally(<< >>, C) = 0
    BY TallyNext, TallyNone
  <2>2. Wanted(0) = n /\ n - n = 0 /\ 0 - 0 = 0
    BY <2>1, <1>11
  <2>3. << >> \in Seq(Legs)
    OBVIOUS
  <2> HIDE DEF Wanted
  <2>4. Good(0)
    BY <1>1, <2>1, <2>2, <2>3, <1>11
  <2> QED
    BY <2>4
<1>4. ASSUME NEW m \in 0..N - 1, m \notin Bad PROVE m + 1 \notin Bad
  <2>1. m \in 0..N /\ m + 1 \in 0..N /\ m + 1 \in 1..N /\ m \in Nat
    BY <1>0
  <2> DEFINE a == R[m]
             k == a.kept
             r == a.remaining
             x == q[m + 1]
             b == R[m + 1]
  <2>2. Good(m)
    BY <1>4, <2>1
  <2>3. /\ a = [kept |-> k, remaining |-> r] /\ k \in Seq(Legs) /\ x \in Legs
        /\ r = Wanted(m)
        /\ C \cap T = {} => Tally(k, C) = TallyTo(q, C, m)
        /\ T \subseteq C => Tally(k, C) = TallyTo(q, C, m) - (n - r)
    BY <1>0, <2>1, <2>2
  <2>4. b = Taking(a, x, Taken(T, n))
    BY <1>2
  <2>5. /\ TallyTo(q, T, m) \in Nat /\ TallyTo(q, C, m) \in Nat
        /\ TallyTo(q, T, m + 1) = TallyTo(q, T, m) + One(x, T)
        /\ TallyTo(q, C, m + 1) = TallyTo(q, C, m) + One(x, C)
    <3>1. \A D : /\ TallyTo(q, D, m) \in Nat
                 /\ TallyTo(q, D, m + 1) = TallyTo(q, D, m) + One(q[m + 1], D)
      BY <2>1, TallyNext
    <3> QED
      BY <3>1
  <2> HIDE DEF a, k, r, x, b
  <2>6. /\ Append(k, x) \in Seq(Legs)
        /\ Tally(Append(k, x), C) = Tally(k, C) + One(x, C)
        /\ Tally(k, C) \in Nat
    BY <2>3, TallyAppend, TallyIs
  <2>9. One(x, C) = (IF x \in C THEN 1 ELSE 0) /\ One(x, T) = IF x \in T THEN 1 ELSE 0
    BY DEF One
  <2>10. /\ r \in Nat
         /\ r > 0 /\ x \in T => r - 1 = Wanted(m + 1)
         /\ ~(r > 0 /\ x \in T) => r = Wanted(m + 1)
    <3> DEFINE u == TallyTo(q, T, m)
               v == TallyTo(q, T, m + 1)
    <3>1. /\ u \in Nat /\ v = u + (IF x \in T THEN 1 ELSE 0)
          /\ r = (IF u < n THEN n - u ELSE 0) /\ Wanted(m + 1) = IF v < n THEN n - v ELSE 0
      BY <2>3, <2>5, <2>9, <1>11
    <3> HIDE DEF u, v, Wanted
    <3>2. CASE x \in T
      <4>1. v = u + 1
        BY <3>1, <3>2
      <4>2. r \in Nat /\ (r > 0 => r - 1 = Wanted(m + 1)) /\ (~(r > 0) => r = Wanted(m + 1))
        BY <3>1, <4>1, <1>11
      <4> QED
        BY <3>2, <4>2
    <3>3. CASE x \notin T
      <4>1. v = u
        BY <3>1, <3>3
      <4>2. r \in Nat /\ r = Wanted(m + 1)
        BY <3>1, <4>1, <1>11
      <4> QED
        BY <3>3, <4>2
    <3> QED
      BY <3>2, <3>3
  <2>7. CASE r > 0 /\ x \in T
    <3>1. b = [kept |-> k, remaining |-> r - 1]
      BY <2>3, <2>4, <2>7 DEF Taking, Taken
    <3>2. b.kept = k /\ b.remaining = r - 1
      BY <3>1
    <3>3. r - 1 = Wanted(m + 1) /\ r \in Nat
      BY <2>7, <2>10
    <3>4. C \cap T = {} => Tally(k, C) = TallyTo(q, C, m + 1)
      <4>1. C \cap T = {} => x \notin C
        BY <2>7
      <4> QED
        BY <2>3, <2>5, <2>9, <4>1
    <3>5. T \subseteq C => Tally(k, C) = TallyTo(q, C, m + 1) - (n - (r - 1))
      <4>1. T \subseteq C => One(x, C) = 1
        BY <2>7, <2>9
      <4>2. r \in Nat /\ TallyTo(q, C, m) \in Nat /\ TallyTo(q, C, m + 1) = TallyTo(q, C, m) + One(x, C)
        BY <2>5, <2>10
      <4>3. T \subseteq C => Tally(k, C) = TallyTo(q, C, m) - (n - r)
        BY <2>3
      <4> QED
        BY <4>1, <4>2, <4>3, <1>11
    <3> HIDE DEF Wanted
    <3>6. Good(m + 1)
      BY <2>3, <3>1, <3>2, <3>3, <3>4, <3>5 DEF b
    <3> QED
      BY <3>6
  <2>8. CASE ~(r > 0 /\ x \in T)
    <3>1. b = [kept |-> Append(k, x), remaining |-> r]
      BY <2>3, <2>4, <2>8 DEF Taking, Taken
    <3>2. b.kept = Append(k, x) /\ b.remaining = r
      BY <3>1
    <3>3. r = Wanted(m + 1) /\ r \in Nat
      BY <2>8, <2>10
    <3>4. C \cap T = {} => Tally(Append(k, x), C) = TallyTo(q, C, m + 1)
      BY <2>3, <2>5, <2>6
    <3>5. T \subseteq C => Tally(Append(k, x), C) = TallyTo(q, C, m + 1) - (n - r)
      <4>1. One(x, C) \in {0, 1}
        BY <2>9
      <4>2. r \in Nat /\ TallyTo(q, C, m) \in Nat /\ TallyTo(q, C, m + 1) = TallyTo(q, C, m) + One(x, C)
        BY <2>5, <2>10
      <4>3. T \subseteq C => Tally(k, C) = TallyTo(q, C, m) - (n - r)
        BY <2>3
      <4>4. Tally(Append(k, x), C) = Tally(k, C) + One(x, C)
        BY <2>6
      <4> QED
        BY <4>1, <4>2, <4>3, <4>4, <1>11
    <3> HIDE DEF Wanted
    <3>6. Good(m + 1)
      BY <2>6, <3>1, <3>2, <3>3, <3>4, <3>5 DEF b
    <3> QED
      BY <3>6
  <2> QED
    BY <2>7, <2>8
<1>5. Bad \in SUBSET (0..N)
  OBVIOUS
<1> HIDE DEF Bad
<1>6. Bad = {}
  BY <1>0, <1>3, <1>4, <1>5, UpTo
<1>7. Good(N)
  BY <1>0, <1>6 DEF Bad
<1>8. Tally(q, C) = TallyTo(q, C, N) /\ Tally(q, T) = TallyTo(q, T, N) /\ Tally(q, C) \in Nat /\ Tally(q, T) \in Nat
  BY TallyIs DEF N
<1>9. Wanted(N) = 0
  BY <1>8, <1>11
<1> HIDE DEF Wanted
<1>10. R[N].remaining = 0 /\ n - 0 = n
  BY <1>7, <1>9, <1>11
<1> QED
  BY <1>7, <1>8, <1>10 DEF N

LEMMA ReplayTakesSome ==
  ASSUME NEW q \in Seq(Legs), NEW c \in Contracts, NEW n \in Nat, n <= Tally(q, {c})
  PROVE  \A d : Tally(TakePair(q, c, n), {d}) = Tally(q, {d}) - (IF d = c THEN n ELSE 0)
<1>1. PICK R : /\ Runs(R, "legs", Taken({c}, n), q, Len(q))
               /\ TakePair(q, c, n) = R[Len(q)].kept
  BY TakePairRun, PairIsOne
<1>2. \A C : Tally(q, C) \in Nat
  BY TallyIs
<1>3. \A C : /\ C \cap {c} = {} => Tally(R[Len(q)].kept, C) = Tally(q, C)
             /\ {c} \subseteq C => Tally(R[Len(q)].kept, C) = Tally(q, C) - n
  <2>1. Enough(q, {c}, n)
    BY DEF Enough
  <2>2. Lost(R[Len(q)].kept, q, {c}, n)
    BY <1>1, <2>1, SomeTaken
  <2> QED
    BY <2>2 DEF Lost
<1>4. ASSUME NEW d
      PROVE  Tally(TakePair(q, c, n), {d}) = Tally(q, {d}) - (IF d = c THEN n ELSE 0)
  <2>4. (d # c => {d} \cap {c} = {}) /\ (d = c => {c} \subseteq {d})
    OBVIOUS
  <2>1. /\ d # c => Tally(R[Len(q)].kept, {d}) = Tally(q, {d})
        /\ d = c => Tally(R[Len(q)].kept, {d}) = Tally(q, {d}) - n
    BY <1>3, <2>4
  <2>2. Tally(q, {d}) - 0 = Tally(q, {d})
    BY <1>2
  <2> QED
    BY <1>1, <2>1, <2>2
<1> QED
  BY <1>4

-----------------------------------------------------------------------------
(* Replays of what comes before.                                            *)

\* With each of its entries, all the entries before it.
DownIn(l, S, ks) == ks \in SUBSET S /\ \A k \in ks : \A j \in S : After(l, j, k) => j \in ks
Sizes(l) == [k \in DOMAIN l |-> l[k].n]
Bought(l, ks) == {k \in ks : l[k].act = "buy_shares"}
Parted(l, ks) == {k \in ks : l[k].act \in ShareSales}
Opened(l, ks, c) == {k \in ks : l[k].act = "sell_short" /\ l[k].c = c}
Shut(l, ks, c) == {k \in ks : l[k].act = "close_short" /\ l[k].c = c}

LEMMA DownFewer ==
  ASSUME NEW k, k # "legs", NEW l, NEW n, Ordered(k, l, n), NEW S \in SUBSET (1..n),
         NEW ks, DownIn(l, S, ks), ks # {}
  PROVE  /\ Top(k, l, ks) \in ks /\ ks \in SUBSET (1..n)
         /\ \A y \in ks \ {Top(k, l, ks)} : After(l, y, Top(k, l, ks))
         /\ DownIn(l, S, ks \ {Top(k, l, ks)})
<1> DEFINE t == Top(k, l, ks)
<1>1. ks \in SUBSET (1..n) /\ ks \in SUBSET S
  BY DEF DownIn
<1>2. t \in ks /\ \A y \in ks \ {t} : After(l, y, t)
  BY <1>1, TopIs DEF Precedes
<1> HIDE DEF t
<1>3. ASSUME NEW y \in ks \ {t}, NEW j \in S, After(l, j, y) PROVE j \in ks \ {t}
  <2>1. j \in ks
    BY <1>3 DEF DownIn
  <2>2. l[t].day \in Nat /\ l[y].day \in Nat /\ t \in Nat /\ y \in Nat
    BY <1>1, <1>2 DEF Ordered
  <2>3. j # t
    BY <1>2, <1>3, <2>2 DEF After
  <2> QED
    BY <2>1, <2>3
<1>4. DownIn(l, S, ks \ {t})
  BY <1>1, <1>3 DEF DownIn
<1> QED
  BY <1>1, <1>2, <1>4 DEF t

LEMMA FinitePart ==
  ASSUME NEW n \in Nat, NEW S \in SUBSET (1..n)
  PROVE  /\ IsFiniteSet(S) /\ Cardinality(S) \in Nat
         /\ \A ks \in SUBSET S : /\ ks \in SUBSET (1..n) /\ IsFiniteSet(ks) /\ Cardinality(ks) \in Nat
                                 /\ Cardinality(ks) <= Cardinality(S)
<1>1. IsFiniteSet(1..n)
  BY FS_Interval
<1>2. IsFiniteSet(S)
  BY <1>1, FS_Subset
<1> QED
  BY <1>2, FS_Subset, FS_CardinalityType

LEMMA LotsSum ==
  ASSUME NEW n \in Nat, NEW l, DOMAIN l = 1..n, Ordered("lots", l, n), NEW S \in SUBSET (1..n),
         NEW g, Folds(g, "lots", 0, l, S), \A k \in S : l[k].act \in _SHARE_ACTIONS => l[k].n \in Nat,
         \A ks : DownIn(l, S, ks) => SumOf(Sizes(l), Parted(l, ks)) <= SumOf(Sizes(l), Bought(l, ks))
  PROVE  g[S] = SumOf(Sizes(l), Bought(l, S)) - SumOf(Sizes(l), Parted(l, S))
<1> DEFINE f == Sizes(l)
           c == Cardinality(S)
           Fits(ks) == g[ks] = SumOf(f, Bought(l, ks)) - SumOf(f, Parted(l, ks))
           Bad == {m \in 0..c : ~\A ks \in SUBSET S : Cardinality(ks) = m /\ DownIn(l, S, ks) => Fits(ks)}
<1>1. c \in Nat /\ \A ks \in SUBSET S : ks \in SUBSET (1..n) /\ IsFiniteSet(ks)
  BY FinitePart
<1>2. \A k \in S : f[k] = l[k].n /\ (l[k].act \in _SHARE_ACTIONS => f[k] \in Nat)
  BY DEF Sizes
<1> HIDE DEF c, f
<1>3. ASSUME NEW ks \in SUBSET S PROVE Numbers(f, Bought(l, ks)) /\ Numbers(f, Parted(l, ks))
  <2>1. Bought(l, ks) \in SUBSET S /\ Parted(l, ks) \in SUBSET S
    BY DEF Bought, Parted
  <2>2. \A k \in Bought(l, ks) \union Parted(l, ks) : f[k] \in Nat
    BY <1>2 DEF Bought, Parted, _SHARE_ACTIONS
  <2>3. \A p \in SUBSET S : IsFiniteSet(p)
    BY <1>1
  <2> QED
    BY <2>1, <2>2, <2>3 DEF Numbers
<1>4. 0 \notin Bad
  <2>1. ASSUME NEW ks \in SUBSET S, Cardinality(ks) = 0 PROVE Fits(ks)
    <3>1. ks = {}
      BY <1>1, <2>1, FS_EmptySet
    <3>2. Bought(l, ks) = {} /\ Parted(l, ks) = {}
      BY <3>1 DEF Bought, Parted
    <3>3. g[ks] = 0
      BY <3>1 DEF Folds, Undone, Base
    <3> QED
      BY <3>2, <3>3, SumNone
  <2> QED
    BY <2>1
<1>5. ASSUME NEW m \in 0..c - 1, m \notin Bad PROVE m + 1 \notin Bad
  <2>1. ASSUME NEW ks \in SUBSET S, Cardinality(ks) = m + 1, DownIn(l, S, ks) PROVE Fits(ks)
    <3> DEFINE t == Top("lots", l, ks)
               p == ks \ {t}
               e == l[t]
               B == SumOf(f, Bought(l, p))
               V == SumOf(f, Parted(l, p))
    <3>1. m \in Nat /\ m \in 0..c
      BY <1>1
    <3>2. ks # {}
      <4>1. Cardinality({}) = 0 /\ m + 1 # 0
        BY <3>1, FS_EmptySet
      <4> QED
        BY <2>1, <4>1
    <3>3. t \in ks /\ DownIn(l, S, p) /\ ks \in SUBSET (1..n)
      BY <2>1, <3>2, DownFewer
    <3>4. Cardinality(p) = Cardinality(ks) - 1
      BY <3>2, <3>3, Fewer
    <3>5. p \in SUBSET S /\ Cardinality(p) = m /\ t \in S
      <4>1. (m + 1) - 1 = m
        BY <3>1
      <4>2. Cardinality(p) = m
        BY <2>1, <3>4, <4>1
      <4> QED
        BY <2>1, <3>3, <4>2
    <3>6. g[p] = B - V
      BY <1>5, <3>1, <3>3, <3>5
    <3>7. g[ks] = ReplayLot(g[p], e)
      BY <3>2 DEF Folds, Undone, Step
    <3>8. ks = p \union {t} /\ t \notin p
      BY <3>3
    <3>9. f[t] = e.n /\ (e.act \in _SHARE_ACTIONS => e.n \in Nat)
      BY <1>2, <3>5
    <3>10. Numbers(f, Bought(l, p)) /\ Numbers(f, Parted(l, p))
      BY <1>3, <3>5
    <3>11. B \in Nat /\ V \in Nat
      BY <3>10, SumIs
    <3>12. SumOf(f, Parted(l, ks)) <= SumOf(f, Bought(l, ks))
      BY <2>1 DEF f
    <3>13. t \notin Bought(l, p) /\ t \notin Parted(l, p)
      BY <3>8 DEF Bought, Parted
    <3> DEFINE y == e.n
    <3>14. ASSUME y \in Nat
           PROVE  SumOf(f, Bought(l, p) \union {t}) = B + y /\ SumOf(f, Parted(l, p) \union {t}) = V + y
      <4>1. f[t] \in Nat /\ f[t] = y
        BY <3>9, <3>14
      <4> HIDE DEF t, p, e, y
      <4>2. SumOf(f, Bought(l, p) \union {t}) = SumOf(f, Bought(l, p)) + f[t]
        BY <3>10, <3>13, <4>1, SumAdd
      <4>3. SumOf(f, Parted(l, p) \union {t}) = SumOf(f, Parted(l, p)) + f[t]
        BY <3>10, <3>13, <4>1, SumAdd
      <4> QED
        BY <4>1, <4>2, <4>3
    <3>15. e = l[t]
      OBVIOUS
    <3> HIDE DEF t, p, e, B, V
    <3>16. CASE e.act = "buy_shares"
      <4>4. y \in Nat
        BY <3>9, <3>16 DEF _SHARE_ACTIONS
      <4>1. Bought(l, ks) = Bought(l, p) \union {t} /\ Parted(l, ks) = Parted(l, p)
        BY <3>8, <3>15, <3>16 DEF Bought, Parted, ShareSales
      <4>2. ReplayLot(g[p], e) = g[p] + y
        BY <3>16 DEF ReplayLot, _SHARE_ACTIONS
      <4>3. SumOf(f, Bought(l, ks)) = B + y /\ SumOf(f, Parted(l, ks)) = V
        BY <3>14, <4>1, <4>4 DEF V
      <4> QED
        BY <3>6, <3>7, <3>11, <4>2, <4>3, <4>4
    <3>17. CASE e.act \in ShareSales
      <4>5. y \in Nat
        BY <3>9, <3>17 DEF _SHARE_ACTIONS
      <4>1. Parted(l, ks) = Parted(l, p) \union {t} /\ Bought(l, ks) = Bought(l, p)
        BY <3>8, <3>15, <3>17 DEF Bought, Parted, ShareSales
      <4>2. ReplayLot(g[p], e) = IF y < g[p] THEN g[p] - y ELSE 0
        BY <3>17 DEF ReplayLot, _SHARE_ACTIONS, ShareSales
      <4>3. SumOf(f, Bought(l, ks)) = B /\ SumOf(f, Parted(l, ks)) = V + y
        BY <3>14, <4>1, <4>5 DEF B
      <4>4. V + y <= B
        BY <3>12, <4>3
      <4> QED
        BY <3>6, <3>7, <3>11, <4>2, <4>3, <4>4, <4>5
    <3>18. CASE e.act # "buy_shares" /\ e.act \notin ShareSales
      <4>1. Parted(l, ks) = Parted(l, p) /\ Bought(l, ks) = Bought(l, p)
        BY <3>8, <3>15, <3>18 DEF Bought, Parted
      <4>2. ReplayLot(g[p], e) = g[p]
        BY <3>18 DEF ReplayLot, _SHARE_ACTIONS
      <4> QED
        BY <3>6, <3>7, <4>1, <4>2 DEF B, V
    <3> QED
      BY <3>16, <3>17, <3>18
  <2> HIDE DEF Fits
  <2> QED
    BY <2>1
<1>6. Bad \in SUBSET (0..c)
  OBVIOUS
<1>7. c \in 0..c
  BY <1>1
<1> HIDE DEF Bad
<1>8. Bad = {}
  BY <1>1, <1>4, <1>5, <1>6, UpTo
<1>9. DownIn(l, S, S)
  BY DEF DownIn
<1>10. Fits(S)
  BY <1>7, <1>8, <1>9 DEF Bad, c
<1> QED
  BY <1>10 DEF f

LEMMA CallsSum ==
  ASSUME NEW n \in Nat, NEW l, DOMAIN l = 1..n, Ordered("calls", l, n), NEW S \in SUBSET (1..n),
         NEW g, Folds(g, "calls", 0, l, S), \A k \in S : l[k].act \in {"sell_short", "close_short"} => l[k].n \in Nat,
         \A k \in S : l[k].act \in {"sell_short", "close_short"} => l[k].c \in Contracts,
         \A k \in S : l[k].act = "sell_short" => l[k].n = 1,
         \A ks : \A c \in Contracts : DownIn(l, S, ks) =>
           SumOf(Sizes(l), Shut(l, ks, c)) <= SumOf(Sizes(l), Opened(l, ks, c))
  PROVE  \A d \in Contracts :
           Tally(g[S], {d}) = SumOf(Sizes(l), Opened(l, S, d)) - SumOf(Sizes(l), Shut(l, S, d))
<1> DEFINE f == Sizes(l)
           c == Cardinality(S)
           Fits(ks) == /\ g[ks] \in Seq(Contracts)
                       /\ \A d \in Contracts :
                            Tally(g[ks], {d}) = SumOf(f, Opened(l, ks, d)) - SumOf(f, Shut(l, ks, d))
           Bad == {m \in 0..c : ~\A ks \in SUBSET S : Cardinality(ks) = m /\ DownIn(l, S, ks) => Fits(ks)}
<1>1. c \in Nat /\ \A ks \in SUBSET S : ks \in SUBSET (1..n) /\ IsFiniteSet(ks)
  BY FinitePart
<1>2. \A k \in S : f[k] = l[k].n /\ (l[k].act \in {"sell_short", "close_short"} => f[k] \in Nat)
  BY DEF Sizes
<1> HIDE DEF c, f
<1>3. ASSUME NEW ks \in SUBSET S, NEW d PROVE Numbers(f, Opened(l, ks, d)) /\ Numbers(f, Shut(l, ks, d))
  <2>1. Opened(l, ks, d) \in SUBSET S /\ Shut(l, ks, d) \in SUBSET S
    BY DEF Opened, Shut
  <2>2. \A k \in Opened(l, ks, d) \union Shut(l, ks, d) : f[k] \in Nat
    BY <1>2 DEF Opened, Shut
  <2>3. \A p \in SUBSET S : IsFiniteSet(p)
    BY <1>1
  <2> QED
    BY <2>1, <2>2, <2>3 DEF Numbers
<1>4. 0 \notin Bad
  <2>1. ASSUME NEW ks \in SUBSET S, Cardinality(ks) = 0 PROVE Fits(ks)
    <3>1. ks = {}
      BY <1>1, <2>1, FS_EmptySet
    <3>2. \A d : Opened(l, ks, d) = {} /\ Shut(l, ks, d) = {}
      BY <3>1 DEF Opened, Shut
    <3>3. g[ks] = << >>
      BY <3>1 DEF Folds, Undone, Base
    <3>4. << >> \in Seq(Contracts)
      OBVIOUS
    <3>5. \A d : SumOf(f, Opened(l, ks, d)) = 0 /\ SumOf(f, Shut(l, ks, d)) = 0
      BY <3>2, SumNone
    <3>6. \A d : Tally(g[ks], {d}) = 0
      BY <3>3, TallyNone
    <3>7. \A d : Tally(g[ks], {d}) = SumOf(f, Opened(l, ks, d)) - SumOf(f, Shut(l, ks, d))
      BY <3>5, <3>6
    <3> QED
      BY <3>3, <3>4, <3>7
  <2> HIDE DEF Fits
  <2> QED
    BY <2>1
<1>5. ASSUME NEW m \in 0..c - 1, m \notin Bad PROVE m + 1 \notin Bad
  <2>1. ASSUME NEW ks \in SUBSET S, Cardinality(ks) = m + 1, DownIn(l, S, ks) PROVE Fits(ks)
    <3> DEFINE t == Top("calls", l, ks)
               p == ks \ {t}
               e == l[t]
               q == g[p]
               O(d) == SumOf(f, Opened(l, p, d))
               V(d) == SumOf(f, Shut(l, p, d))
    <3>1. m \in Nat /\ m \in 0..c
      BY <1>1
    <3>2. ks # {}
      <4>1. Cardinality({}) = 0 /\ m + 1 # 0
        BY <3>1, FS_EmptySet
      <4> QED
        BY <2>1, <4>1
    <3>3. t \in ks /\ DownIn(l, S, p) /\ ks \in SUBSET (1..n)
      BY <2>1, <3>2, DownFewer
    <3>4. Cardinality(p) = Cardinality(ks) - 1
      BY <3>2, <3>3, Fewer
    <3>5. p \in SUBSET S /\ Cardinality(p) = m /\ t \in S
      <4>1. (m + 1) - 1 = m
        BY <3>1
      <4>2. Cardinality(p) = m
        BY <2>1, <3>4, <4>1
      <4> QED
        BY <2>1, <3>3, <4>2
    <3>6. q \in Seq(Contracts) /\ \A d \in Contracts : Tally(q, {d}) = O(d) - V(d)
      BY <1>5, <3>1, <3>3, <3>5
    <3>7. g[ks] = ReplayCall(q, e)
      BY <3>2 DEF Folds, Undone, Step
    <3>8. ks = p \union {t} /\ t \notin p
      BY <3>3
    <3> DEFINE y == e.n
    <3>9. f[t] = y /\ (e.act \in {"sell_short", "close_short"} => y \in Nat)
      BY <1>2, <3>5
    <3>10. \A d : Numbers(f, Opened(l, p, d)) /\ Numbers(f, Shut(l, p, d))
      BY <1>3, <3>5
    <3>11. \A d : O(d) \in Nat /\ V(d) \in Nat
      BY <3>10, SumIs
    <3>12. \A d \in Contracts : SumOf(f, Shut(l, ks, d)) <= SumOf(f, Opened(l, ks, d))
      BY <2>1 DEF f
    <3>13. \A d : t \notin Opened(l, p, d) /\ t \notin Shut(l, p, d)
      BY <3>8 DEF Opened, Shut
    <3>14. ASSUME y \in Nat
           PROVE  \A d : /\ SumOf(f, Opened(l, p, d) \union {t}) = O(d) + y
                         /\ SumOf(f, Shut(l, p, d) \union {t}) = V(d) + y
      <4>1. f[t] \in Nat /\ f[t] = y
        BY <3>9, <3>14
      <4> HIDE DEF t, p, e, y
      <4>2. ASSUME NEW d PROVE SumOf(f, Opened(l, p, d) \union {t}) = SumOf(f, Opened(l, p, d)) + f[t]
        BY <3>10, <3>13, <4>1, SumAdd
      <4>3. ASSUME NEW d PROVE SumOf(f, Shut(l, p, d) \union {t}) = SumOf(f, Shut(l, p, d)) + f[t]
        BY <3>10, <3>13, <4>1, SumAdd
      <4> QED
        BY <4>1, <4>2, <4>3
    <3>15. /\ e = l[t] /\ (e.act = "sell_short" => y = 1)
           /\ e.act \in {"sell_short", "close_short"} => e.c \in Contracts
      BY <3>5
    <3>19. q \in Seq(Legs)
      <4>1. Contracts \subseteq Legs
        BY DEF Legs
      <4> QED
        BY <3>6, <4>1, Sub
    <3> HIDE DEF t, p, e, q, y
    <3>20. ASSUME NEW d, ~(e.act \in {"sell_short", "close_short"} /\ e.c = d)
           PROVE  SumOf(f, Opened(l, ks, d)) = O(d) /\ SumOf(f, Shut(l, ks, d)) = V(d)
      <4>1. Opened(l, ks, d) = Opened(l, p, d) /\ Shut(l, ks, d) = Shut(l, p, d)
        BY <3>8, <3>15, <3>20 DEF Opened, Shut
      <4> QED
        BY <4>1
    <3>16. CASE e.act = "sell_short"
      <4> DEFINE h == e.c
      <4>0. h \in Contracts /\ y = 1 /\ g[ks] = Append(q, h)
        BY <3>7, <3>15, <3>16 DEF ReplayCall
      <4>1. SumOf(f, Opened(l, ks, h)) = O(h) + y /\ SumOf(f, Shut(l, ks, h)) = V(h)
        <5>1. Opened(l, ks, h) = Opened(l, p, h) \union {t} /\ Shut(l, ks, h) = Shut(l, p, h)
          BY <3>8, <3>15, <3>16 DEF Opened, Shut
        <5> QED
          BY <3>9, <3>14, <3>16, <5>1
      <4>2. \A d : d # h => SumOf(f, Opened(l, ks, d)) = O(d) /\ SumOf(f, Shut(l, ks, d)) = V(d)
        BY <3>20
      <4>3. Append(q, h) \in Seq(Contracts) /\ \A d : Tally(Append(q, h), {d}) = Tally(q, {d}) + One(h, {d})
        BY <3>6, <4>0, TallyAppend
      <4>4. \A d : One(h, {d}) = IF d = h THEN 1 ELSE 0
        BY DEF One
      <4> HIDE DEF h, O, V
      <4>5. ASSUME NEW d \in Contracts
            PROVE  Tally(g[ks], {d}) = SumOf(f, Opened(l, ks, d)) - SumOf(f, Shut(l, ks, d))
        <5>1. Tally(g[ks], {d}) = (O(d) - V(d)) + (IF d = h THEN 1 ELSE 0)
          BY <3>6, <4>0, <4>3, <4>4
        <5>2. O(d) \in Nat /\ V(d) \in Nat
          BY <3>11
        <5>3. CASE d = h
          BY <4>0, <4>1, <5>1, <5>2, <5>3
        <5>4. CASE d # h
          BY <4>2, <5>1, <5>2, <5>4
        <5> QED
          BY <5>3, <5>4
      <4> QED
        BY <4>0, <4>3, <4>5
    <3>17. CASE e.act = "close_short"
      <4> DEFINE h == e.c
      <4>0. h \in Contracts /\ g[ks] = TakePair(q, h, y)
        BY <3>7, <3>15, <3>17 DEF ReplayCall, TakePair, y
      <4>1. SumOf(f, Shut(l, ks, h)) = V(h) + y /\ SumOf(f, Opened(l, ks, h)) = O(h)
        <5>1. Shut(l, ks, h) = Shut(l, p, h) \union {t} /\ Opened(l, ks, h) = Opened(l, p, h)
          BY <3>8, <3>15, <3>17 DEF Opened, Shut
        <5> QED
          BY <3>9, <3>14, <3>17, <5>1
      <4>2. \A d : d # h => SumOf(f, Opened(l, ks, d)) = O(d) /\ SumOf(f, Shut(l, ks, d)) = V(d)
        BY <3>20
      <4> HIDE DEF h, O, V
      <4>8. y \in Nat
        BY <3>9, <3>17
      <4>6. Tally(q, {h}) = O(h) - V(h) /\ O(h) \in Nat /\ V(h) \in Nat /\ V(h) + y <= O(h)
        BY <3>6, <3>11, <3>12, <4>0, <4>1
      <4>7. y <= Tally(q, {h})
        BY <4>6, <4>8
      <4>3. \A d : Tally(TakePair(q, h, y), {d}) = Tally(q, {d}) - (IF d = h THEN y ELSE 0)
        BY <3>19, <4>0, <4>7, <4>8, ReplayTakesSome
      <4>4. TakePair(q, h, y) \in Seq(Contracts)
        <5>1. Contracts \in SUBSET Legs
          BY DEF Legs
        <5> QED
          BY <3>6, <5>1, TakeTyped
      <4>5. ASSUME NEW d \in Contracts
            PROVE  Tally(g[ks], {d}) = SumOf(f, Opened(l, ks, d)) - SumOf(f, Shut(l, ks, d))
        <5>1. Tally(g[ks], {d}) = (O(d) - V(d)) - (IF d = h THEN y ELSE 0)
          BY <3>6, <4>0, <4>3
        <5>2. O(d) \in Nat /\ V(d) \in Nat
          BY <3>11
        <5>3. CASE d = h
          BY <4>1, <4>8, <5>1, <5>2, <5>3
        <5>4. CASE d # h
          BY <4>2, <5>1, <5>2, <5>4
        <5> QED
          BY <5>3, <5>4
      <4> QED
        BY <4>0, <4>4, <4>5
    <3>18. CASE e.act \notin {"sell_short", "close_short"}
      <4>1. g[ks] = q
        BY <3>7, <3>18 DEF ReplayCall
      <4>2. \A d : SumOf(f, Opened(l, ks, d)) = O(d) /\ SumOf(f, Shut(l, ks, d)) = V(d)
        BY <3>18, <3>20
      <4> QED
        BY <3>6, <4>1, <4>2
    <3> QED
      BY <3>16, <3>17, <3>18
  <2> HIDE DEF Fits
  <2> QED
    BY <2>1
<1>6. Bad \in SUBSET (0..c)
  OBVIOUS
<1>7. c \in 0..c
  BY <1>1
<1> HIDE DEF Bad
<1>8. Bad = {}
  BY <1>1, <1>4, <1>5, <1>6, UpTo
<1>9. DownIn(l, S, S)
  BY DEF DownIn
<1>10. Fits(S)
  BY <1>7, <1>8, <1>9 DEF Bad, c
<1> QED
  BY <1>10 DEF f

-----------------------------------------------------------------------------
(* What happened until a day.                                               *)

By(h, C, d) == Cardinality({i \in DOMAIN h : h[i] \in C /\ 2 * i <= d})

LEMMA Halved == ASSUME NEW d \in Nat PROVE \E m \in Nat : d = 2 * m \/ d = 2 * m + 1
<1> DEFINE Bad == {x \in 0..d : ~\E m \in Nat : x = 2 * m \/ x = 2 * m + 1}
<1>1. 0 \notin Bad
  <2>1. 0 = 2 * 0 /\ 0 \in Nat
    OBVIOUS
  <2> QED
    BY <2>1
<1>2. ASSUME NEW x \in 0..d - 1, x \notin Bad PROVE x + 1 \notin Bad
  <2>1. x \in 0..d
    OBVIOUS
  <2>2. PICK m \in Nat : x = 2 * m \/ x = 2 * m + 1
    BY <1>2, <2>1
  <2>3. x + 1 = 2 * m + 1 \/ x + 1 = 2 * (m + 1)
    BY <2>2
  <2>4. m + 1 \in Nat
    OBVIOUS
  <2> QED
    BY <2>3, <2>4
<1>3. Bad \in SUBSET (0..d) /\ d \in 0..d
  OBVIOUS
<1> HIDE DEF Bad
<1>4. Bad = {}
  BY <1>1, <1>2, <1>3, UpTo
<1> QED
  BY <1>3, <1>4 DEF Bad

LEMMA Until ==
  ASSUME NEW n \in Nat, NEW d \in Nat
  PROVE  \E m \in 0..n : \A i \in 1..n : 2 * i <= d <=> i <= m
<1>1. PICK q \in Nat : d = 2 * q \/ d = 2 * q + 1
  BY Halved
<1>2. \A i \in 1..n : 2 * i <= d <=> i <= q
  BY <1>1
<1>3. CASE q <= n
  BY <1>2, <1>3
<1>4. CASE q > n
  <2>1. \A i \in 1..n : 2 * i <= d <=> i <= n
    BY <1>2, <1>4
  <2> QED
    BY <2>1
<1> QED
  BY <1>3, <1>4

LEMMA ByTo ==
  ASSUME NEW X, NEW h \in Seq(X), NEW d \in Nat
  PROVE  \E m \in 0..Len(h) : /\ \A i \in 1..Len(h) : 2 * i <= d <=> i <= m
                             /\ \A C : By(h, C, d) = TallyTo(h, C, m)
<1>1. Len(h) \in Nat /\ DOMAIN h = 1..Len(h)
  BY SeqFacts
<1>2. PICK m \in 0..Len(h) : \A i \in 1..Len(h) : 2 * i <= d <=> i <= m
  BY <1>1, Until
<1>3. ASSUME NEW C PROVE By(h, C, d) = TallyTo(h, C, m)
  <2>1. \A i : i \in 1..m <=> i \in 1..Len(h) /\ 2 * i <= d
    BY <1>1, <1>2
  <2>2. {i \in DOMAIN h : h[i] \in C /\ 2 * i <= d} = {i \in 1..m : h[i] \in C}
    BY <1>1, <2>1
  <2> QED
    BY <2>2 DEF By, TallyTo
<1> QED
  BY <1>2, <1>3

LEMMA ByAll ==
  ASSUME NEW X, NEW h \in Seq(X), NEW C, NEW d \in Nat, 2 * Len(h) <= d
  PROVE  By(h, C, d) = Tally(h, C)
<1>1. Len(h) \in Nat /\ DOMAIN h = 1..Len(h)
  BY SeqFacts
<1>2. \A i \in DOMAIN h : 2 * i <= d
  BY <1>1
<1>3. {i \in DOMAIN h : h[i] \in C /\ 2 * i <= d} = {i \in DOMAIN h : h[i] \in C}
  BY <1>2
<1> QED
  BY <1>3 DEF By, Tally

LEMMA ByIs ==
  ASSUME NEW X, NEW h \in Seq(X), NEW C, NEW d \in Nat PROVE By(h, C, d) \in Nat
<1>1. PICK m \in 0..Len(h) : By(h, C, d) = TallyTo(h, C, m)
  BY ByTo
<1>2. m \in Nat
  BY SeqFacts
<1> QED
  BY <1>1, <1>2, TallyNext

\* What happens next is dated after all that happened.
LEMMA ByNext ==
  ASSUME NEW X, NEW h \in Seq(X), NEW e \in X, NEW C, NEW d \in Nat
  PROVE  By(Append(h, e), C, d) = By(h, C, d) + (IF 2 * (Len(h) + 1) <= d THEN One(e, C) ELSE 0)
<1> DEFINE n == Len(h)
           g == Append(h, e)
<1>1. n \in Nat /\ DOMAIN h = 1..n /\ DOMAIN g = 1..n + 1 /\ g[n + 1] = e /\ g \in Seq(X) /\ Len(g) = n + 1
      /\ \A i \in 1..n : g[i] = h[i]
  BY SeqFacts
<1> HIDE DEF n, g
<1>2. One(e, C) \in {0, 1} /\ By(h, C, d) \in Nat
  BY ByIs DEF One
<1>3. CASE 2 * (n + 1) <= d
  <2>1. By(g, C, d) = Tally(g, C) /\ By(h, C, d) = Tally(h, C)
    <3>1. 2 * n <= d /\ 2 * Len(g) <= d
      BY <1>1, <1>3
    <3>2. By(g, C, d) = Tally(g, C)
      BY <1>1, <3>1, ByAll
    <3>3. By(h, C, d) = Tally(h, C)
      BY <3>1, ByAll DEF n
    <3> QED
      BY <3>2, <3>3
  <2>2. Tally(g, C) = Tally(h, C) + One(e, C)
    BY TallyAppend DEF g
  <2> QED
    BY <1>3, <2>1, <2>2 DEF n, g
<1>4. CASE ~(2 * (n + 1) <= d)
  <2>1. {i \in DOMAIN g : g[i] \in C /\ 2 * i <= d} = {i \in DOMAIN h : h[i] \in C /\ 2 * i <= d}
    <3>1. \A i : i \in 1..n + 1 <=> i \in 1..n \/ i = n + 1
      BY <1>1
    <3> QED
      BY <1>1, <1>4, <3>1
  <2>2. By(g, C, d) = By(h, C, d)
    BY <2>1 DEF By
  <2> QED
    BY <1>2, <1>4, <2>2 DEF n, g
<1> QED
  BY <1>3, <1>4

LEMMA TallyAlike ==
  ASSUME NEW q, NEW C, NEW D, \A i \in DOMAIN q : q[i] \in C <=> q[i] \in D
  PROVE  Tally(q, C) = Tally(q, D)
<1>1. {i \in DOMAIN q : q[i] \in C} = {i \in DOMAIN q : q[i] \in D}
  OBVIOUS
<1> QED
  BY <1>1 DEF Tally

LEMMA TallyEmpty ==
  ASSUME NEW q, NEW C, \A i \in DOMAIN q : q[i] \notin C
  PROVE  Tally(q, C) = 0
<1>1. {i \in DOMAIN q : q[i] \in C} = {}
  OBVIOUS
<1> QED
  BY <1>1, FS_EmptySet DEF Tally

LEMMA TallyBoth ==
  ASSUME NEW X, NEW q \in Seq(X), NEW C, NEW D, C \cap D = {}
  PROVE  Tally(q, C \union D) = Tally(q, C) + Tally(q, D)
<1> DEFINE A == {i \in DOMAIN q : q[i] \in C}
           B == {i \in DOMAIN q : q[i] \in D}
<1>1. IsFiniteSet(DOMAIN q)
  <2>1. DOMAIN q = 1..Len(q) /\ Len(q) \in Nat
    BY SeqFacts
  <2> QED
    BY <2>1, FS_Interval
<1>2. A \in SUBSET DOMAIN q /\ B \in SUBSET DOMAIN q /\ A \cap B = {}
      /\ A \union B = {i \in DOMAIN q : q[i] \in C \union D}
  OBVIOUS
<1> HIDE DEF A, B
<1>3. IsFiniteSet(A) /\ IsFiniteSet(B)
  BY <1>1, <1>2, FS_Subset
<1>4. Cardinality(A \union B) = Cardinality(A) + Cardinality(B) - Cardinality(A \cap B)
  BY <1>3, FS_Union
<1>5. Cardinality(A \cap B) = 0 /\ Cardinality(A) \in Nat /\ Cardinality(B) \in Nat
  BY <1>2, <1>3, FS_EmptySet, FS_CardinalityType
<1>6. Cardinality(A \union B) = Cardinality(A) + Cardinality(B)
  BY <1>4, <1>5
<1> QED
  BY <1>2, <1>6 DEF Tally, A, B

LEMMA SumMoves ==
  ASSUME NEW f, NEW g, NEW S, IsFiniteSet(S), NEW c \in S, NEW d \in Int,
         \A x \in S : f[x] \in Nat /\ g[x] \in Nat, g[c] = f[c] + d,
         \A x \in S \ {c} : g[x] = f[x]
  PROVE  SumOf(g, S) = SumOf(f, S) + d
<1> DEFINE T == S \ {c}
<1>1. S = T \union {c} /\ c \notin T /\ T \in SUBSET S
  OBVIOUS
<1>2. \A x \in T : g[x] = f[x]
  OBVIOUS
<1>3. IsFiniteSet(T)
  BY <1>1, FS_Subset
<1> HIDE DEF T
<1>4. Numbers(f, T) /\ Numbers(g, T)
  BY <1>1, <1>3 DEF Numbers
<1>5. f[c] \in Nat /\ g[c] \in Nat
  OBVIOUS
<1>6. SumOf(f, T \union {c}) = SumOf(f, T) + f[c]
  BY <1>1, <1>4, <1>5, SumAdd
<1>7. SumOf(g, T \union {c}) = SumOf(g, T) + g[c]
  BY <1>1, <1>4, <1>5, SumAdd
<1>8. SumOf(g, T) = SumOf(f, T)
  BY <1>2, SumSame
<1>9. SumOf(f, T) \in Nat
  BY <1>4, SumIs
<1>10. SumOf(g, S) = SumOf(f, T) + g[c] /\ SumOf(f, S) = SumOf(f, T) + f[c]
  BY <1>1, <1>6, <1>7, <1>8
<1> HIDE DEF SumOf
<1> QED
  BY <1>5, <1>9, <1>10

-----------------------------------------------------------------------------
(* The steps of the broker, exactly.                                        *)

\* h is traded: of the contract c there are n more, and m lots more.
Dealt(h, c, n, m) ==
  /\ history' = Append(history, h) /\ h \in Events /\ Len(history) < MaxEvents
  /\ UNCHANGED <<expday, itm>>
  /\ broker'[Equity] = broker[Equity] + m
  /\ \A x \in Contracts : broker'[x] = broker[x] + (IF x = c THEN n ELSE 0)
Free(holdings) == Written(holdings) < holdings[Equity]
DealShares ==
  \/ Dealt(Event("buy_shares", Equity), Equity, 0, 1)
  \/ Free(broker) /\ Dealt(Event("sell_shares", Equity), Equity, 0, -1)
DealCall(c) ==
  \/ Free(broker) /\ ~Past(c.exp) /\ Dealt(Sold(c), c, 1, 0)
  \/ broker[c] > 0 /\ ~Past(c.exp) /\ Dealt(Back(c), c, -1, 0)
  \/ broker[c] > 0 /\ Past(c.exp) /\ CalledAway(c) /\ Dealt(Event("called_away", c), c, -1, -1)
  \/ broker[c] > 0 /\ Past(c.exp) /\ ~CalledAway(c) /\ Dealt(Event("expired", c), c, -1, 0)
DealPut == \E act \in {"put_opened", "put_closed", "put_assigned"}, m \in Int : Dealt(Event(act, Put), Put, 0, m)

LEMMA Deals ==
  ASSUME BookOK, BrokerStep
  PROVE  \/ DealShares \/ DealPut \/ \E c \in Contracts : DealCall(c)
         \/ \E e \in Expiries : Expire(e)
<1>0. broker \in [Inst -> Int]
  BY DEF BookOK
<1>1. ASSUME NEW act, NEW i, NEW change \in [Inst -> Int], Happens(act, i, change), Event(act, i) \in Events,
             NEW c, NEW n, NEW m, change[Equity] = m, \A x \in Contracts : change[x] = IF x = c THEN n ELSE 0
      PROVE  Dealt(Event(act, i), c, n, m)
  <2>1. /\ Len(history) < MaxEvents /\ history' = Append(history, Event(act, i)) /\ UNCHANGED <<expday, itm>>
        /\ broker' = [j \in Inst |-> broker[j] + change[j]]
    BY <1>1 DEF Happens, Event
  <2>2. Equity \in Inst /\ Contracts \subseteq Inst
    BY Instruments
  <2>3. \A j \in Inst : broker'[j] = broker[j] + change[j]
    BY <2>1
  <2> QED
    BY <1>1, <2>1, <2>2, <2>3 DEF Dealt
<1>2. \A act, c : act \in Trades \union {"called_away", "expired"} /\ c \in Inst
                  /\ (act \in {"sell_short", "close_short"} => c \in Contracts)
                  => Event(act, c) \in Events
  BY DEF Events, Event
<1>3. ASSUME NEW i \in Inst, NEW n \in {1, -1}
      PROVE  Of(i, n) \in [Inst -> Int] /\ \A j \in Inst : Of(i, n)[j] = IF j = i THEN n ELSE 0
  BY OfIs
<1>4. Equity \in Inst /\ Put \in Inst /\ Contracts \subseteq Inst /\ Equity # Put
      /\ \A c \in Contracts : c # Equity /\ c # Put
  BY Instruments DEF Equity, Put
<1>5. ASSUME NEW i \in {Equity, Put}, NEW n \in {1, -1}
      PROVE  /\ Of(i, n) \in [Inst -> Int] /\ Of(i, n)[Equity] = (IF i = Equity THEN n ELSE 0)
             /\ \A x \in Contracts : Of(i, n)[x] = IF x = i THEN 0 ELSE 0
  BY <1>3, <1>4
<1>6. ASSUME NEW c \in Contracts, NEW n \in {1, -1}
      PROVE  /\ Of(c, n) \in [Inst -> Int] /\ Of(c, n)[Equity] = 0
             /\ \A x \in Contracts : Of(c, n)[x] = IF x = c THEN n ELSE 0
  BY <1>3, <1>4
<1> HIDE DEF Of
<1>7. CASE BuyLot
  <2>1. Happens("buy_shares", Equity, Of(Equity, 1)) /\ Event("buy_shares", Equity) \in Events
    BY <1>2, <1>4, <1>7 DEF BuyLot, Trades
  <2>2. Dealt(Event("buy_shares", Equity), Equity, 0, 1)
    BY <1>1, <1>5, <2>1
  <2> QED
    BY <2>2 DEF DealShares
<1>8. CASE SellLot
  <2>1. Happens("sell_shares", Equity, Of(Equity, -1)) /\ Event("sell_shares", Equity) \in Events /\ Free(broker)
    BY <1>2, <1>4, <1>8 DEF SellLot, Trades, Free
  <2>2. Dealt(Event("sell_shares", Equity), Equity, 0, -1)
    BY <1>1, <1>5, <2>1
  <2> QED
    BY <2>1, <2>2 DEF DealShares
<1>9. ASSUME NEW n \in {1, -1}, NEW act \in {"put_opened", "put_closed"}, Happens(act, Put, Of(Put, n)) PROVE DealPut
  <2>1. Event(act, Put) \in Events
    BY <1>2, <1>4, <1>9 DEF Trades
  <2>2. Dealt(Event(act, Put), Put, 0, 0)
    BY <1>1, <1>4, <1>5, <1>9, <2>1
  <2> QED
    BY <2>2 DEF DealPut
<1>10. CASE AssignPut
  <2> DEFINE change == [Of(Put, -1) EXCEPT ![Equity] = 1]
  <2>1. change \in [Inst -> Int] /\ change[Equity] = 1 /\ \A x \in Contracts : change[x] = IF x = Put THEN 0 ELSE 0
    BY <1>4, <1>5
  <2>2. Happens("put_assigned", Put, change) /\ Event("put_assigned", Put) \in Events
    BY <1>2, <1>4, <1>10 DEF AssignPut, Trades
  <2> HIDE DEF change
  <2>3. Dealt(Event("put_assigned", Put), Put, 0, 1)
    BY <1>1, <2>1, <2>2
  <2> QED
    BY <2>3 DEF DealPut
<1>11. ASSUME NEW c \in Contracts, SellCall(c) PROVE DealCall(c)
  <2>1. Happens("sell_short", c, Of(c, 1)) /\ Free(broker) /\ ~Past(c.exp) /\ Event("sell_short", c) \in Events
    BY <1>2, <1>4, <1>11 DEF SellCall, Free, Trades
  <2>2. Dealt(Event("sell_short", c), c, 1, 0)
    BY <1>1, <1>6, <2>1
  <2> QED
    BY <2>1, <2>2 DEF DealCall, Sold, Event
<1>12. ASSUME NEW c \in Contracts, BuyCallBack(c) PROVE DealCall(c)
  <2>1. Happens("close_short", c, Of(c, -1)) /\ broker[c] > 0 /\ ~Past(c.exp) /\ Event("close_short", c) \in Events
    BY <1>2, <1>4, <1>12 DEF BuyCallBack, Trades
  <2>2. Dealt(Event("close_short", c), c, -1, 0)
    BY <1>1, <1>6, <2>1
  <2> QED
    BY <2>1, <2>2 DEF DealCall, Back, Event
<1>13. ASSUME NEW c \in Contracts, Settle(c) PROVE DealCall(c)
  <2> DEFINE away == [Of(c, -1) EXCEPT ![Equity] = -1]
  <2>1. away \in [Inst -> Int] /\ away[Equity] = -1 /\ \A x \in Contracts : away[x] = IF x = c THEN -1 ELSE 0
    BY <1>4, <1>6
  <2>2. Event("called_away", c) \in Events /\ Event("expired", c) \in Events
    BY <1>2, <1>4
  <2>3. CASE CalledAway(c)
    <3>1. Happens("called_away", c, away)
      BY <1>13, <2>3 DEF Settle
    <3> HIDE DEF away
    <3>2. Dealt(Event("called_away", c), c, -1, -1)
      BY <1>1, <2>1, <2>2, <3>1
    <3> QED
      BY <1>13, <2>3, <3>2 DEF DealCall, Settle
  <2>4. CASE ~CalledAway(c)
    <3>1. Happens("expired", c, Of(c, -1))
      BY <1>13, <2>4 DEF Settle
    <3>2. Dealt(Event("expired", c), c, -1, 0)
      BY <1>1, <1>6, <2>2, <3>1
    <3> QED
      BY <1>13, <2>4, <3>2 DEF DealCall, Settle
  <2> QED
    BY <2>3, <2>4
<1>14. OpenPut \/ ClosePut => DealPut
  BY <1>9 DEF OpenPut, ClosePut
<1> QED
  BY <1>7, <1>8, <1>10, <1>11, <1>12, <1>13, <1>14 DEF BrokerStep

LEMMA ContractsFinite == IsFiniteSet(Contracts)
<1> DEFINE P == Strikes \X Expiries
           f == [p \in P |-> [strike |-> p[1], exp |-> p[2]]]
<1>1. IsFiniteSet(P)
  BY FS_Product, MirrorAssumption
<1>2. f \in Surjection(P, Contracts)
  <2>1. ASSUME NEW c \in Contracts PROVE \E p \in P : f[p] = c
    <3>1. c = [strike |-> c.strike, exp |-> c.exp] /\ <<c.strike, c.exp>> \in P
      BY DEF Contracts
    <3> QED
      BY <3>1
  <2>2. \A p \in P : f[p] \in Contracts
    BY DEF Contracts
  <2> QED
    BY <2>1, <2>2 DEF Surjection
<1> HIDE DEF P, f
<1> QED
  BY <1>1, <1>2, FS_Surjection

-----------------------------------------------------------------------------
(* What the account holds is what its history says.                         *)

Gone(c) == {Event("called_away", c), Event("expired", c)}
Buys == {h \in Events : h.act = "buy_shares"}
Sells == {h \in Events : h.act = "sell_shares"}
Away(X) == {h \in Events : h.act = "called_away" /\ h.c.exp \in X}

\* What is held of a contract: sold, not bought back, not settled.
Counted ==
  \A c \in Contracts :
    /\ broker[c] \in Nat
    /\ broker[c] = Tally(history, {Sold(c)}) - Tally(history, {Back(c)}) - Tally(history, Gone(c))
\* When it was: a trade of a contract before its expiry, a settlement not.
Dated ==
  /\ \A i \in 1..Len(history) : history[i].act \in {"called_away", "expired"} =>
       history[i].c \in Contracts /\ Past(history[i].c.exp)
  /\ \A i \in 1..Len(history) : \A c \in Contracts :
       history[i] \in {Sold(c), Back(c)} /\ Past(c.exp) => 2 * i < expday[c.exp]
  /\ \A x \in Expiries : expday[x] = 0 \/ \E m \in 0..Len(history) : expday[x] = 2 * m + 1
  /\ Len(history) <= MaxEvents

LEMMA DealtGrows ==
  ASSUME BookOK, NEW h, NEW c, NEW n, NEW m, Dealt(h, c, n, m)
  PROVE  /\ history \in Seq(Events) /\ h \in Events /\ history' = Append(history, h)
         /\ Len(history) \in Nat /\ Len(history') = Len(history) + 1 /\ history'[Len(history) + 1] = h
         /\ \A i \in 1..Len(history) : history'[i] = history[i]
         /\ DOMAIN history = 1..Len(history) /\ DOMAIN history' = 1..Len(history) + 1
         /\ \A C : /\ Tally(history', C) = Tally(history, C) + One(h, C)
                   /\ Tally(history, C) \in Nat /\ One(h, C) \in {0, 1}
<1>1. history \in Seq(Events) /\ h \in Events /\ history' = Append(history, h)
  BY DEF BookOK, Dealt
<1> DEFINE g == Append(history, h)
<1>2. /\ Len(history) \in Nat /\ Len(g) = Len(history) + 1 /\ g[Len(history) + 1] = h
      /\ \A i \in 1..Len(history) : g[i] = history[i]
      /\ DOMAIN history = 1..Len(history) /\ DOMAIN g = 1..Len(history) + 1
  BY <1>1
<1>3. \A C : Tally(g, C) = Tally(history, C) + One(h, C)
  BY <1>1, TallyAppend
<1>4. \A C : Tally(history, C) \in Nat /\ One(h, C) \in {0, 1}
  BY <1>1, TallyIs DEF One
<1> QED
  BY <1>1, <1>2, <1>3, <1>4

\* What an event is worth in a contract.
Worth(h, x) == One(h, {Sold(x)}) - One(h, {Back(x)}) - One(h, Gone(x))

LEMMA Worths ==
  /\ \A act, i, x : act \notin {"sell_short", "close_short", "called_away", "expired"} => Worth(Event(act, i), x) = 0
  /\ \A c, x : /\ Worth(Sold(c), x) = IF x = c THEN 1 ELSE 0
               /\ Worth(Back(c), x) = IF x = c THEN -1 ELSE 0
               /\ Worth(Event("called_away", c), x) = IF x = c THEN -1 ELSE 0
               /\ Worth(Event("expired", c), x) = IF x = c THEN -1 ELSE 0
<1>1. \A act, i, x : /\ One(Event(act, i), {Sold(x)}) = IF act = "sell_short" /\ i = x THEN 1 ELSE 0
                     /\ One(Event(act, i), {Back(x)}) = IF act = "close_short" /\ i = x THEN 1 ELSE 0
                     /\ One(Event(act, i), Gone(x)) = IF act \in {"called_away", "expired"} /\ i = x THEN 1 ELSE 0
  BY DEF One, Event, Sold, Back, Gone
<1>2. \A c : Sold(c) = Event("sell_short", c) /\ Back(c) = Event("close_short", c)
  BY DEF Sold, Back, Event
<1>3. \A act, i, x : Worth(Event(act, i), x) =
        (IF act = "sell_short" /\ i = x THEN 1 ELSE 0) - (IF act = "close_short" /\ i = x THEN 1 ELSE 0)
          - (IF act \in {"called_away", "expired"} /\ i = x THEN 1 ELSE 0)
  BY <1>1 DEF Worth
<1>4. \A act, i, x : act \notin {"sell_short", "close_short", "called_away", "expired"} => Worth(Event(act, i), x) = 0
  BY <1>3
<1>5. \A c, x : /\ Worth(Event("sell_short", c), x) = IF x = c THEN 1 ELSE 0
                /\ Worth(Event("close_short", c), x) = IF x = c THEN -1 ELSE 0
                /\ Worth(Event("called_away", c), x) = IF x = c THEN -1 ELSE 0
                /\ Worth(Event("expired", c), x) = IF x = c THEN -1 ELSE 0
  BY <1>3
<1> QED
  BY <1>2, <1>4, <1>5

LEMMA CountedAfter ==
  ASSUME BookOK, Counted, NEW h, NEW c, NEW n \in Int, NEW m, Dealt(h, c, n, m),
         \A x \in Contracts : Worth(h, x) = IF x = c THEN n ELSE 0,
         c \in Contracts => broker[c] + n >= 0
  PROVE  Counted'
<1>1. ASSUME NEW x \in Contracts
      PROVE  /\ broker'[x] \in Nat
             /\ broker'[x] = Tally(history', {Sold(x)}) - Tally(history', {Back(x)}) - Tally(history', Gone(x))
  <2>1. broker[x] \in Nat
        /\ broker[x] = Tally(history, {Sold(x)}) - Tally(history, {Back(x)}) - Tally(history, Gone(x))
    BY DEF Counted
  <2>2. broker'[x] = broker[x] + (IF x = c THEN n ELSE 0)
    BY DEF Dealt
  <2>3. \A C : /\ Tally(history', C) = Tally(history, C) + One(h, C)
               /\ Tally(history, C) \in Nat /\ One(h, C) \in {0, 1}
    BY DealtGrows
  <2>4. One(h, {Sold(x)}) - One(h, {Back(x)}) - One(h, Gone(x)) = IF x = c THEN n ELSE 0
    BY DEF Worth
  <2>5. broker'[x] \in Nat
    BY <2>1, <2>2
  <2>6. broker'[x] = broker[x] + (One(h, {Sold(x)}) - One(h, {Back(x)}) - One(h, Gone(x)))
    BY <2>2, <2>4
  <2> QED
    BY <2>1, <2>3, <2>5, <2>6
<1> QED
  BY <1>1 DEF Counted

LEMMA DatedAfter ==
  ASSUME BookOK, Dated, NEW h, NEW c, NEW n, NEW m, Dealt(h, c, n, m),
         h.act \in {"called_away", "expired"} => h.c \in Contracts /\ Past(h.c.exp),
         \A x \in Contracts : h \in {Sold(x), Back(x)} => ~Past(x.exp)
  PROVE  Dated'
<1> DEFINE N == Len(history)
<1>1. /\ N \in Nat /\ Len(history') = N + 1 /\ history'[N + 1] = h
      /\ \A i \in 1..N : history'[i] = history[i]
      /\ expday' = expday /\ N < MaxEvents
  BY DealtGrows DEF Dealt
<1>2. \A i \in 1..N + 1 : i \in 1..N \/ i = N + 1
  BY <1>1
<1>3. \A i \in 1..N + 1 : history'[i].act \in {"called_away", "expired"} =>
        history'[i].c \in Contracts /\ Past(history'[i].c.exp)
  BY <1>1, <1>2 DEF Dated
<1>4. \A i \in 1..N + 1 : \A x \in Contracts :
        history'[i] \in {Sold(x), Back(x)} /\ Past(x.exp) => 2 * i < expday[x.exp]
  BY <1>1, <1>2 DEF Dated
<1>5. \A x \in Expiries : expday[x] = 0 \/ \E k \in 0..N + 1 : expday[x] = 2 * k + 1
  BY <1>1 DEF Dated
<1>6. N + 1 <= MaxEvents
  BY <1>1, MirrorAssumption
<1> QED
  BY <1>1, <1>3, <1>4, <1>5, <1>6 DEF Dated, Past

LEMMA DatedExpire ==
  ASSUME BookOK, Dated, NEW e \in Expiries, Expire(e)
  PROVE  Dated'
<1>1. /\ history' = history /\ expday' = [expday EXCEPT ![e] = 2 * Len(history) + 1] /\ expday[e] = 0
      /\ expday \in [Expiries -> Nat] /\ Len(history) \in Nat /\ DOMAIN history = 1..Len(history)
  <2>1. expday \in [Expiries -> Nat] /\ history \in Seq(Events)
    BY DEF BookOK
  <2>2. expday[e] \in Nat
    BY <2>1
  <2> QED
    BY <2>1, <2>2 DEF Expire, Past
<1>2. \A x \in Expiries : expday'[x] = IF x = e THEN 2 * Len(history) + 1 ELSE expday[x]
  BY <1>1
<1>3. \A x \in Expiries : expday[x] > 0 => expday'[x] > 0
  BY <1>1, <1>2
<1>4. \A c \in Contracts : c.exp \in Expiries
  BY DEF Contracts
<1>5. \A i \in 1..Len(history) : history[i].act \in {"called_away", "expired"} =>
        history[i].c \in Contracts /\ expday'[history[i].c.exp] > 0
  BY <1>3, <1>4 DEF Dated, Past
<1>6. \A i \in 1..Len(history) : \A c \in Contracts :
        history[i] \in {Sold(c), Back(c)} /\ expday'[c.exp] > 0 => 2 * i < expday'[c.exp]
  BY <1>1, <1>2, <1>4 DEF Dated, Past
<1>7. \A x \in Expiries : expday'[x] = 0 \/ \E m \in 0..Len(history) : expday'[x] = 2 * m + 1
  BY <1>1, <1>2 DEF Dated
<1> QED
  BY <1>1, <1>5, <1>6, <1>7 DEF Dated, Past

LEMMA CountedNext ==
  ASSUME BookOK, Counted, Dated, BrokerStep
  PROVE  Counted' /\ Dated'
<1>1. \A c \in Contracts : c # Equity /\ c # Put
  BY Instruments
<1>2. ASSUME NEW act, act \notin {"sell_short", "close_short", "called_away", "expired"}, NEW i \in {Equity, Put}, NEW m,
             Dealt(Event(act, i), i, 0, m)
      PROVE  Counted' /\ Dated'
  <2> DEFINE h == Event(act, i)
  <2>1. \A x : Worth(h, x) = 0
    BY <1>2, Worths
  <2>2. h.act = act /\ \A x : h # Sold(x) /\ h # Back(x)
    BY <1>2 DEF Event, Sold, Back
  <2>3. i \notin Contracts
    BY <1>1
  <2> HIDE DEF h
  <2>4. Dealt(h, i, 0, m) /\ \A x \in Contracts : Worth(h, x) = IF x = i THEN 0 ELSE 0
    BY <1>2, <2>1 DEF h
  <2>5. Counted'
    BY <2>3, <2>4, CountedAfter
  <2>6. Dated'
    BY <1>2, <2>2, <2>4, DatedAfter
  <2> QED
    BY <2>5, <2>6
<1>3. ASSUME NEW c \in Contracts, DealCall(c) PROVE Counted' /\ Dated'
  <2>0. broker[c] \in Nat
    BY DEF Counted
  <2>1. CASE ~Past(c.exp) /\ Dealt(Sold(c), c, 1, 0)
    <3>1. \A x \in Contracts : Worth(Sold(c), x) = IF x = c THEN 1 ELSE 0
      BY Worths
    <3>2. Sold(c).act = "sell_short" /\ \A x : Sold(c) \in {Sold(x), Back(x)} => x = c
      BY DEF Sold, Back
    <3>3. Counted'
      BY <2>0, <2>1, <3>1, CountedAfter
    <3>4. Dated'
      BY <2>1, <3>2, DatedAfter
    <3> QED
      BY <3>3, <3>4
  <2>2. CASE broker[c] > 0 /\ ~Past(c.exp) /\ Dealt(Back(c), c, -1, 0)
    <3>1. \A x \in Contracts : Worth(Back(c), x) = IF x = c THEN -1 ELSE 0
      BY Worths
    <3>2. Back(c).act = "close_short" /\ \A x : Back(c) \in {Sold(x), Back(x)} => x = c
      BY DEF Sold, Back
    <3>3. Counted'
      BY <2>0, <2>2, <3>1, CountedAfter
    <3>4. Dated'
      BY <2>2, <3>2, DatedAfter
    <3> QED
      BY <3>3, <3>4
  <2>3. ASSUME NEW act \in {"called_away", "expired"}, NEW m, broker[c] > 0, Past(c.exp), Dealt(Event(act, c), c, -1, m)
        PROVE  Counted' /\ Dated'
    <3>1. \A x \in Contracts : Worth(Event(act, c), x) = IF x = c THEN -1 ELSE 0
      BY Worths
    <3>2. Event(act, c).act = act /\ Event(act, c).c = c /\ \A x : Event(act, c) \notin {Sold(x), Back(x)}
      BY DEF Event, Sold, Back
    <3>3. Counted'
      BY <2>0, <2>3, <3>1, CountedAfter
    <3>4. Dated'
      BY <2>3, <3>2, DatedAfter
    <3> QED
      BY <3>3, <3>4
  <2> QED
    BY <1>3, <2>1, <2>2, <2>3 DEF DealCall
<1>4. ASSUME NEW e \in Expiries, Expire(e) PROVE Counted' /\ Dated'
  <2>1. UNCHANGED <<history, broker>>
    BY <1>4 DEF Expire
  <2>2. Counted'
    BY <2>1 DEF Counted
  <2> QED
    BY <1>4, <2>2, DatedExpire
<1>5. DealShares => Counted' /\ Dated'
  BY <1>2 DEF DealShares
<1>6. DealPut => Counted' /\ Dated'
  BY <1>2 DEF DealPut
<1> QED
  BY <1>3, <1>4, <1>5, <1>6, Deals

-----------------------------------------------------------------------------
(* The lots: what is due to be called away is covered, on every day.        *)

\* The expiries passed by a day; the calls due to be called away; the lots left that day.
PassedBy(x, d) == {e \in Expiries : x[e] \in 1..d}
Due(b, t, X) == SumOf(b, {c \in Contracts : c.exp \in X /\ c.strike \in t[c.exp]})
Left(h, d, X) == By(h, Buys, d) - By(h, Sells, d) - Tally(h, Away(X))
Paid ==
  /\ broker[Equity] = Tally(history, Buys) - Tally(history, Sells) - Tally(history, Away(Expiries))
  /\ SumOf(broker, Contracts) <= broker[Equity]
  /\ \A d \in Nat : Left(history, d, PassedBy(expday, d)) >= Due(broker, itm, PassedBy(expday, d))

LEMMA WrittenIs == \A b : Written(b) = SumOf(b, Contracts)
<1> SUFFICES ASSUME NEW b PROVE Written(b) = SumOf(b, Contracts)
  OBVIOUS
<1> DEFINE g == [c \in Contracts |-> b[c]]
<1>1. DOMAIN g = Contracts /\ \A x \in DOMAIN g : g[x] = b[x]
  OBVIOUS
<1> HIDE DEF g
<1>2. Total(g) = SumOf(b, DOMAIN g)
  BY <1>1, TotalIs
<1> QED
  BY <1>1, <1>2 DEF Written, g

LEMMA DueParts ==
  ASSUME NEW b, \A c \in Contracts : b[c] \in Nat, NEW t, NEW X
  PROVE  /\ Numbers(b, Contracts) /\ SumOf(b, Contracts) \in Nat
         /\ Due(b, t, X) \in Nat /\ Due(b, t, X) <= SumOf(b, Contracts)
<1> DEFINE T == {c \in Contracts : c.exp \in X /\ c.strike \in t[c.exp]}
<1>1. Numbers(b, Contracts)
  BY ContractsFinite DEF Numbers
<1>2. T \in SUBSET Contracts
  OBVIOUS
<1> HIDE DEF T
<1>3. SumOf(b, T) <= SumOf(b, Contracts) /\ Numbers(b, T)
  BY <1>1, <1>2, SumMore
<1>4. SumOf(b, T) \in Nat /\ SumOf(b, Contracts) \in Nat
  BY <1>1, <1>3, SumIs
<1> QED
  BY <1>1, <1>3, <1>4 DEF Due, T

\* From the day of the last trade on, the whole account covers it.
LEMMA LeftAll ==
  ASSUME NEW h \in Seq(Events), NEW b, \A c \in Contracts : b[c] \in Nat,
         b[Equity] = Tally(h, Buys) - Tally(h, Sells) - Tally(h, Away(Expiries)),
         SumOf(b, Contracts) <= b[Equity], NEW d \in Nat, 2 * Len(h) <= d, NEW t, NEW X \in SUBSET Expiries
  PROVE  Left(h, d, X) >= Due(b, t, X)
<1>1. By(h, Buys, d) = Tally(h, Buys) /\ By(h, Sells, d) = Tally(h, Sells)
  BY ByAll
<1>2. \A C : Tally(h, C) \in Nat
  BY TallyIs
<1>3. Tally(h, Away(X)) <= Tally(h, Away(Expiries))
  <2>1. Away(X) \subseteq Away(Expiries)
    BY DEF Away
  <2> QED
    BY <2>1, TallyMore
<1>4. SumOf(b, Contracts) \in Nat /\ Due(b, t, X) \in Nat /\ Due(b, t, X) <= SumOf(b, Contracts)
  BY DueParts
<1>5. b[Equity] \in Int
  BY <1>2
<1> DEFINE p == Tally(h, Buys)
           q == Tally(h, Sells)
           r == Tally(h, Away(X))
           s == Tally(h, Away(Expiries))
           u == SumOf(b, Contracts)
           v == Due(b, t, X)
<1>6. p \in Nat /\ q \in Nat /\ r \in Nat /\ s \in Nat /\ r <= s /\ u \in Nat /\ v \in Nat /\ v <= u
      /\ u <= p - q - s /\ Left(h, d, X) = p - q - r
  BY <1>1, <1>2, <1>3, <1>4 DEF Left
<1> HIDE DEF p, q, r, s, u, v
<1>7. p - q - r >= v
  BY <1>6
<1> QED
  BY <1>6, <1>7 DEF v

\* What an event is worth in lots, and of what is due when c gets n more.
LotWorth(h, X) == One(h, Buys) - One(h, Sells) - One(h, Away(X))

LEMMA DueMoves ==
  ASSUME NEW b, NEW a, \A c \in Contracts : b[c] \in Nat /\ a[c] \in Nat, NEW t, NEW X, NEW c, NEW n \in Int,
         \A x \in Contracts : a[x] = b[x] + (IF x = c THEN n ELSE 0)
  PROVE  /\ SumOf(a, Contracts) = SumOf(b, Contracts) + (IF c \in Contracts THEN n ELSE 0)
         /\ Due(a, t, X) = Due(b, t, X) + (IF c \in Contracts /\ c.exp \in X /\ c.strike \in t[c.exp] THEN n ELSE 0)
<1>1. ASSUME NEW T \in SUBSET Contracts PROVE SumOf(a, T) = SumOf(b, T) + (IF c \in T THEN n ELSE 0)
  <2>1. IsFiniteSet(T)
    BY ContractsFinite, FS_Subset
  <2>2. \A x \in T : b[x] \in Nat /\ a[x] \in Nat
    OBVIOUS
  <2>3. CASE c \in T
    <3>1. a[c] = b[c] + n /\ \A x \in T \ {c} : a[x] = b[x]
      BY <2>2, <2>3
    <3> QED
      BY <2>1, <2>2, <2>3, <3>1, SumMoves
  <2>4. CASE c \notin T
    <3>1. \A x \in T : a[x] = b[x]
      BY <2>2, <2>4
    <3>2. SumOf(a, T) = SumOf(b, T)
      BY <3>1, SumSame
    <3>3. SumOf(b, T) \in Nat
      BY <2>1, <2>2, SumIs DEF Numbers
    <3> QED
      BY <2>4, <3>2, <3>3
  <2> QED
    BY <2>3, <2>4
<1> DEFINE T == {x \in Contracts : x.exp \in X /\ x.strike \in t[x.exp]}
<1>2. T \in SUBSET Contracts /\ (c \in T <=> c \in Contracts /\ c.exp \in X /\ c.strike \in t[c.exp])
  OBVIOUS
<1>3. Due(a, t, X) = SumOf(a, T) /\ Due(b, t, X) = SumOf(b, T)
  BY DEF Due
<1> HIDE DEF T
<1>4. SumOf(a, T) = SumOf(b, T) + (IF c \in T THEN n ELSE 0)
  BY <1>1, <1>2
<1> QED
  BY <1>1, <1>2, <1>3, <1>4

LEMMA PaidAfter ==
  ASSUME BookOK, Counted, Counted', Paid, NEW h, NEW c, NEW n \in Int, NEW m \in Int, Dealt(h, c, n, m),
         LotWorth(h, Expiries) = m,
         SumOf(broker, Contracts) + (IF c \in Contracts THEN n ELSE 0) <= broker[Equity] + m,
         \A d \in Nat : One(h, Away(PassedBy(expday, d))) =
           (IF c \in Contracts /\ c.exp \in PassedBy(expday, d) /\ c.strike \in itm[c.exp] THEN - n ELSE 0)
  PROVE  Paid'
<1>1. /\ history \in Seq(Events) /\ h \in Events /\ history' = Append(history, h)
      /\ Len(history) \in Nat /\ Len(history') = Len(history) + 1
      /\ \A C : /\ Tally(history', C) = Tally(history, C) + One(h, C)
                /\ Tally(history, C) \in Nat /\ One(h, C) \in {0, 1}
  BY DealtGrows
<1>2. /\ broker'[Equity] = broker[Equity] + m /\ expday' = expday /\ itm' = itm
      /\ \A x \in Contracts : broker'[x] = broker[x] + (IF x = c THEN n ELSE 0)
      /\ \A x \in Contracts : broker[x] \in Nat /\ broker'[x] \in Nat
  BY DEF Dealt, Counted
<1>3. broker[Equity] \in Int
  BY Instruments DEF BookOK
<1>4. broker'[Equity] = Tally(history', Buys) - Tally(history', Sells) - Tally(history', Away(Expiries))
  <2>1. broker[Equity] = Tally(history, Buys) - Tally(history, Sells) - Tally(history, Away(Expiries))
    BY DEF Paid
  <2>2. m = One(h, Buys) - One(h, Sells) - One(h, Away(Expiries))
    BY DEF LotWorth
  <2> DEFINE p == Tally(history, Buys)
             q == Tally(history, Sells)
             r == Tally(history, Away(Expiries))
             u == One(h, Buys)
             v == One(h, Sells)
             w == One(h, Away(Expiries))
  <2>3. /\ Tally(history', Buys) = p + u /\ Tally(history', Sells) = q + v
        /\ Tally(history', Away(Expiries)) = r + w
    BY <1>1
  <2>4. /\ p \in Nat /\ q \in Nat /\ r \in Nat /\ u \in {0, 1} /\ v \in {0, 1} /\ w \in {0, 1}
        /\ broker'[Equity] = broker[Equity] + m /\ broker[Equity] = p - q - r /\ m = u - v - w
    BY <1>1, <1>2, <2>1, <2>2
  <2> HIDE DEF p, q, r, u, v, w
  <2>5. broker'[Equity] = (p + u) - (q + v) - (r + w)
    BY <2>4
  <2> QED
    BY <2>3, <2>5
<1>5. SumOf(broker', Contracts) <= broker'[Equity]
  <2>1. SumOf(broker', Contracts) = SumOf(broker, Contracts) + (IF c \in Contracts THEN n ELSE 0)
    BY <1>2, DueMoves
  <2> QED
    BY <1>2, <2>1
<1>6. history' \in Seq(Events)
  BY <1>1
<1>7. ASSUME NEW d \in Nat
      PROVE  Left(history', d, PassedBy(expday', d)) >= Due(broker', itm', PassedBy(expday', d))
  <2> DEFINE X == PassedBy(expday, d)
             k == IF c \in Contracts /\ c.exp \in X /\ c.strike \in itm[c.exp] THEN n ELSE 0
  <2>1. X \in SUBSET Expiries
    BY DEF PassedBy
  <2>2. CASE 2 * Len(history') <= d
    <3> DEFINE g == history'
               b == broker'
    <3>1. g \in Seq(Events) /\ (\A x \in Contracts : b[x] \in Nat) /\ SumOf(b, Contracts) <= b[Equity]
          /\ b[Equity] = Tally(g, Buys) - Tally(g, Sells) - Tally(g, Away(Expiries)) /\ 2 * Len(g) <= d
      BY <1>2, <1>4, <1>5, <1>6, <2>2
    <3> HIDE DEF g, b, X
    <3>2. Left(g, d, X) >= Due(b, itm, X)
      BY <2>1, <3>1, LeftAll
    <3> QED
      BY <1>2, <3>2 DEF g, b, X
  <2>3. CASE ~(2 * Len(history') <= d)
    <3>1. \A C : By(history', C, d) = By(history, C, d)
      <4>1. \A C : By(Append(history, h), C, d) = By(history, C, d) + (IF 2 * (Len(history) + 1) <= d THEN One(h, C) ELSE 0)
        BY <1>1, ByNext
      <4>2. \A C : By(history, C, d) \in Nat
        BY <1>1, ByIs
      <4>3. \A C : By(history', C, d) = By(history, C, d) + 0
        BY <1>1, <2>3, <4>1
      <4> QED
        BY <4>2, <4>3
    <3>2. Tally(history', Away(X)) = Tally(history, Away(X)) - k /\ k \in Int
      <4>1. One(h, Away(X)) = IF c \in Contracts /\ c.exp \in X /\ c.strike \in itm[c.exp] THEN - n ELSE 0
        OBVIOUS
      <4>2. One(h, Away(X)) = - k /\ k \in Int
        BY <4>1
      <4>3. Tally(history', Away(X)) = Tally(history, Away(X)) + One(h, Away(X)) /\ Tally(history, Away(X)) \in Nat
        BY <1>1
      <4> HIDE DEF k, X
      <4> QED
        BY <4>2, <4>3
    <3>3. Due(broker', itm, X) = Due(broker, itm, X) + k
      BY <1>2, DueMoves
    <3>4. Left(history, d, X) >= Due(broker, itm, X)
      BY DEF Paid
    <3>5. Due(broker, itm, X) \in Nat
      BY <1>2, DueParts
    <3> DEFINE p == By(history, Buys, d)
               q == By(history, Sells, d)
               r == Tally(history, Away(X))
               v == Due(broker, itm, X)
    <3>6. p \in Nat /\ q \in Nat /\ r \in Nat /\ v \in Nat /\ p - q - r >= v
      BY <1>1, <3>4, <3>5, ByIs DEF Left
    <3>7. Left(history', d, X) = p - q - (r - k) /\ Due(broker', itm, X) = v + k /\ k \in Int
      BY <3>1, <3>2, <3>3 DEF Left
    <3> HIDE DEF p, q, r, v, k, X
    <3>8. p - q - (r - k) >= v + k
      BY <3>6, <3>7
    <3> QED
      BY <1>2, <3>7, <3>8 DEF X
  <2> QED
    BY <2>2, <2>3
<1> QED
  BY <1>4, <1>5, <1>7 DEF Paid

LEMMA LotWorths ==
  /\ \A X : LotWorth(Event("buy_shares", Equity), X) = 1 /\ One(Event("buy_shares", Equity), Away(X)) = 0
  /\ \A X : LotWorth(Event("sell_shares", Equity), X) = -1 /\ One(Event("sell_shares", Equity), Away(X)) = 0
  /\ \A X, c : One(Sold(c), Away(X)) = 0 /\ LotWorth(Sold(c), X) = 0
               /\ One(Back(c), Away(X)) = 0 /\ LotWorth(Back(c), X) = 0
               /\ One(Event("expired", c), Away(X)) = 0 /\ LotWorth(Event("expired", c), X) = 0
  /\ \A X : \A c \in Contracts : /\ One(Event("called_away", c), Away(X)) = IF c.exp \in X THEN 1 ELSE 0
                                 /\ c.exp \in X => LotWorth(Event("called_away", c), X) = -1
<1>0. \A act, c, X : (act # "buy_shares" => Event(act, c) \notin Buys) /\ (act # "sell_shares" => Event(act, c) \notin Sells)
                     /\ (act # "called_away" => Event(act, c) \notin Away(X))
  BY DEF Event, Buys, Sells, Away
<1>1. \A act, c, X : (act # "buy_shares" => One(Event(act, c), Buys) = 0) /\ (act # "sell_shares" => One(Event(act, c), Sells) = 0)
                     /\ (act # "called_away" => One(Event(act, c), Away(X)) = 0)
  BY <1>0 DEF One
<1>2. Event("buy_shares", Equity) \in Buys /\ Event("sell_shares", Equity) \in Sells
  BY Instruments DEF Event, Buys, Sells, Events, Trades
<1>3. One(Event("buy_shares", Equity), Buys) = 1 /\ One(Event("sell_shares", Equity), Sells) = 1
  BY <1>2 DEF One
<1>4. ASSUME NEW c \in Contracts, NEW X PROVE One(Event("called_away", c), Away(X)) = IF c.exp \in X THEN 1 ELSE 0
  <2>1. Event("called_away", c) \in Events /\ Event("called_away", c).act = "called_away" /\ Event("called_away", c).c = c
    BY Instruments DEF Event, Events
  <2> QED
    BY <2>1 DEF One, Away
<1>5. \A X : LotWorth(Event("buy_shares", Equity), X) = 1
  BY <1>1, <1>3 DEF LotWorth
<1>6. \A X : LotWorth(Event("sell_shares", Equity), X) = -1
  BY <1>1, <1>3 DEF LotWorth
<1>7. \A act, c, X : act \notin {"buy_shares", "sell_shares", "called_away"} => LotWorth(Event(act, c), X) = 0
  BY <1>1 DEF LotWorth
<1>8. \A c : Sold(c) = Event("sell_short", c) /\ Back(c) = Event("close_short", c)
  BY DEF Sold, Back, Event
<1>9. ASSUME NEW X, NEW c \in Contracts, c.exp \in X PROVE LotWorth(Event("called_away", c), X) = -1
  BY <1>1, <1>4, <1>9 DEF LotWorth
<1>10. \A X, c : One(Sold(c), Away(X)) = 0 /\ LotWorth(Sold(c), X) = 0
               /\ One(Back(c), Away(X)) = 0 /\ LotWorth(Back(c), X) = 0
  BY <1>1, <1>7, <1>8
<1>11. \A X, c : One(Event("expired", c), Away(X)) = 0 /\ LotWorth(Event("expired", c), X) = 0
  BY <1>1, <1>7
<1> QED
  BY <1>1, <1>4, <1>5, <1>6, <1>9, <1>10, <1>11

\* What the broker holds, with the lots as long as no put was traded.
Account ==
  /\ Counted /\ Dated /\ itm \in [Expiries -> SUBSET Strikes]
  /\ PutFree => Paid

LEMMA PaidExpire ==
  ASSUME BookOK, Counted, Paid, itm \in [Expiries -> SUBSET Strikes], NEW e \in Expiries, Expire(e)
  PROVE  Paid' /\ itm' \in [Expiries -> SUBSET Strikes]
<1> DEFINE n == Len(history)
<1>1. PICK through \in SUBSET Strikes : itm' = [itm EXCEPT ![e] = through]
  BY DEF Expire
<1>2. /\ UNCHANGED <<history, broker>> /\ expday' = [expday EXCEPT ![e] = 2 * n + 1]
      /\ expday \in [Expiries -> Nat] /\ history \in Seq(Events) /\ n \in Nat
  BY DEF Expire, BookOK
<1>3. /\ itm' \in [Expiries -> SUBSET Strikes] /\ \A x \in Expiries : x # e => itm'[x] = itm[x]
      /\ \A x \in Expiries : expday'[x] = IF x = e THEN 2 * n + 1 ELSE expday[x]
  BY <1>1, <1>2
<1>4. \A c \in Contracts : broker[c] \in Nat
  BY DEF Counted
<1> DEFINE y == expday'
           t == itm'
<1>5. ASSUME NEW d \in Nat PROVE Left(history, d, PassedBy(y, d)) >= Due(broker, t, PassedBy(y, d))
  <2>1. PassedBy(y, d) \in SUBSET Expiries
    BY DEF PassedBy
  <2>2. CASE 2 * n <= d
    <3> HIDE DEF y, t
    <3> QED
      BY <1>2, <1>4, <2>1, <2>2, LeftAll DEF Paid
  <2>3. CASE ~(2 * n <= d)
    <3> DEFINE X == PassedBy(expday, d)
    <3>1. e \notin PassedBy(y, d)
      BY <1>2, <1>3, <2>3 DEF PassedBy
    <3>2. \A x \in Expiries : x # e => y[x] = expday[x]
      BY <1>3
    <3>3. PassedBy(y, d) = X \ {e}
      BY <3>1, <3>2 DEF PassedBy
    <3>4. Left(history, d, X) >= Due(broker, itm, X)
      BY DEF Paid
    <3>5. Due(broker, t, X \ {e}) = Due(broker, itm, X \ {e})
      <4>1. \A c \in Contracts : c.exp \in X \ {e} => t[c.exp] = itm[c.exp]
        BY <1>3 DEF Contracts
      <4>2. {c \in Contracts : c.exp \in X \ {e} /\ c.strike \in t[c.exp]}
            = {c \in Contracts : c.exp \in X \ {e} /\ c.strike \in itm[c.exp]}
        BY <4>1
      <4> HIDE DEF t, X
      <4> QED
        BY <4>2 DEF Due
    <3>6. Due(broker, itm, X \ {e}) <= Due(broker, itm, X) /\ Due(broker, itm, X) \in Nat /\ Due(broker, itm, X \ {e}) \in Nat
      <4> DEFINE T == {c \in Contracts : c.exp \in X /\ c.strike \in itm[c.exp]}
                 S == {c \in Contracts : c.exp \in X \ {e} /\ c.strike \in itm[c.exp]}
      <4>1. S \in SUBSET T /\ T \in SUBSET Contracts
        OBVIOUS
      <4> HIDE DEF X, S, T
      <4>2. Numbers(broker, Contracts)
        BY <1>4, DueParts
      <4>3. Numbers(broker, T)
        BY <4>1, <4>2, SumMore
      <4>4. SumOf(broker, S) <= SumOf(broker, T)
        BY <4>1, <4>3, SumMore
      <4>5. Due(broker, itm, X) \in Nat /\ Due(broker, itm, X \ {e}) \in Nat
        BY <1>4, DueParts
      <4> QED
        BY <4>4, <4>5 DEF Due, S, T
    <3>7. Tally(history, Away(X \ {e})) <= Tally(history, Away(X))
      <4>1. Away(X \ {e}) \subseteq Away(X)
        BY DEF Away
      <4> HIDE DEF X
      <4> QED
        BY <1>2, <4>1, TallyMore
    <3>8. \A C : Tally(history, C) \in Nat /\ By(history, C, d) \in Nat
      BY <1>2, TallyIs, ByIs
    <3> DEFINE p == By(history, Buys, d)
               q == By(history, Sells, d)
               r == Tally(history, Away(X))
               s == Tally(history, Away(X \ {e}))
               u == Due(broker, itm, X)
               v == Due(broker, itm, X \ {e})
    <3>9. /\ p \in Nat /\ q \in Nat /\ r \in Nat /\ s \in Nat /\ u \in Nat /\ v \in Nat
          /\ p - q - r >= u /\ s <= r /\ v <= u
      BY <3>4, <3>6, <3>7, <3>8 DEF Left
    <3>10. Left(history, d, PassedBy(y, d)) = p - q - s /\ Due(broker, t, PassedBy(y, d)) = v
      BY <3>3, <3>5 DEF Left
    <3> HIDE DEF p, q, r, s, u, v
    <3>11. p - q - s >= v
      BY <3>9
    <3> QED
      BY <3>10, <3>11
  <2> QED
    BY <1>2, <2>2, <2>3
<1>6. Paid'
  BY <1>2, <1>5 DEF Paid
<1> QED
  BY <1>3, <1>6

LEMMA PaidNext ==
  ASSUME BookOK, Counted, Counted', Paid, itm \in [Expiries -> SUBSET Strikes],
         DealShares \/ \E c \in Contracts : DealCall(c)
  PROVE  Paid'
<1> DEFINE u == SumOf(broker, Contracts)
           w == broker[Equity]
<1>1. Equity \notin Contracts /\ \A c \in Contracts : c.exp \in Expiries
  BY Instruments DEF Contracts
<1>2. u <= w /\ u \in Nat /\ w \in Int /\ (Free(broker) => u < w)
  <2>1. \A c \in Contracts : broker[c] \in Nat
    BY DEF Counted
  <2>2. u \in Nat
    BY <2>1, DueParts
  <2>3. w \in Int
    BY Instruments DEF BookOK
  <2> QED
    BY <2>2, <2>3, WrittenIs DEF Paid, Free
<1> DEFINE k(c, d) == c \in Contracts /\ c.exp \in PassedBy(expday, d) /\ c.strike \in itm[c.exp]
<1>3. ASSUME NEW h, NEW m \in {1, -1}, Dealt(h, Equity, 0, m), u <= w + m,
             \A X : LotWorth(h, X) = m /\ One(h, Away(X)) = 0
      PROVE  Paid'
  <2>1. u + (IF Equity \in Contracts THEN 0 ELSE 0) <= w + m
    BY <1>2, <1>3
  <2>2. \A d \in Nat : One(h, Away(PassedBy(expday, d))) =
          (IF Equity \in Contracts /\ Equity.exp \in PassedBy(expday, d) /\ Equity.strike \in itm[Equity.exp] THEN - 0 ELSE 0)
    BY <1>1, <1>3
  <2>3. LotWorth(h, Expiries) = m
    BY <1>3
  <2>4. 0 \in Int /\ m \in Int
    OBVIOUS
  <2> QED
    BY <1>3, <2>1, <2>2, <2>3, <2>4, PaidAfter
<1>4. CASE DealShares
  <2>1. CASE Dealt(Event("buy_shares", Equity), Equity, 0, 1)
    <3>1. u <= w + 1
      BY <1>2
    <3> HIDE DEF u, w
    <3> QED
      BY <1>3, <2>1, <3>1, LotWorths
  <2>2. CASE Free(broker) /\ Dealt(Event("sell_shares", Equity), Equity, 0, -1)
    <3>1. u <= w + (-1)
      BY <1>2, <2>2
    <3> HIDE DEF u, w
    <3> QED
      BY <1>3, <2>2, <3>1, LotWorths
  <2> QED
    BY <1>4, <2>1, <2>2 DEF DealShares
<1>5. ASSUME NEW c \in Contracts, DealCall(c) PROVE Paid'
  <2>0. broker[c] \in Nat /\ c.exp \in Expiries /\ expday[c.exp] \in Nat
    BY <1>1 DEF Counted, BookOK
  <2>1. ASSUME NEW h, NEW n \in {1, -1}, Dealt(h, c, n, 0), u + n <= w,
               \A X : LotWorth(h, X) = 0 /\ One(h, Away(X)) = 0,
               ~Past(c.exp) \/ ~CalledAway(c)
        PROVE  Paid'
    <3>1. u + (IF c \in Contracts THEN n ELSE 0) <= w + 0
      BY <1>2, <2>1
    <3>2. \A d \in Nat : ~k(c, d)
      BY <2>0, <2>1 DEF PassedBy, Past, CalledAway
    <3>3. \A d \in Nat : One(h, Away(PassedBy(expday, d))) =
            (IF c \in Contracts /\ c.exp \in PassedBy(expday, d) /\ c.strike \in itm[c.exp] THEN - n ELSE 0)
      BY <2>1, <3>2
    <3>4. LotWorth(h, Expiries) = 0 /\ n \in Int /\ 0 \in Int
      BY <2>1
    <3> QED
      BY <2>1, <3>1, <3>3, <3>4, PaidAfter
  <2>2. CASE Free(broker) /\ ~Past(c.exp) /\ Dealt(Sold(c), c, 1, 0)
    <3>1. u + 1 <= w
      BY <1>2, <2>2
    <3> HIDE DEF u, w
    <3> QED
      BY <2>1, <2>2, <3>1, LotWorths
  <2>6. u + (-1) <= w
    BY <1>2
  <2>3. CASE broker[c] > 0 /\ ~Past(c.exp) /\ Dealt(Back(c), c, -1, 0)
    <3> HIDE DEF u, w
    <3> QED
      BY <2>1, <2>3, <2>6, LotWorths
  <2>4. CASE ~CalledAway(c) /\ Dealt(Event("expired", c), c, -1, 0)
    <3> HIDE DEF u, w
    <3> QED
      BY <2>1, <2>4, <2>6, LotWorths
  <2>5. CASE Past(c.exp) /\ CalledAway(c) /\ Dealt(Event("called_away", c), c, -1, -1)
    <3> DEFINE h == Event("called_away", c)
    <3>1. LotWorth(h, Expiries) = -1 /\ \A X : One(h, Away(X)) = IF c.exp \in X THEN 1 ELSE 0
      BY <2>0, LotWorths
    <3> HIDE DEF h
    <3>2. \A d \in Nat : One(h, Away(PassedBy(expday, d))) =
            (IF c \in Contracts /\ c.exp \in PassedBy(expday, d) /\ c.strike \in itm[c.exp] THEN - (-1) ELSE 0)
      BY <2>5, <3>1 DEF CalledAway
    <3>3. u + (IF c \in Contracts THEN -1 ELSE 0) <= w + (-1)
      BY <1>2
    <3>4. Dealt(h, c, -1, -1) /\ -1 \in Int
      BY <2>5 DEF h
    <3> QED
      BY <3>1, <3>2, <3>3, <3>4, PaidAfter
  <2> QED
    BY <1>5, <2>2, <2>3, <2>4, <2>5 DEF DealCall
<1> QED
  BY <1>4, <1>5

LEMMA AccountNext ==
  ASSUME BookOK, Account, BrokerStep
  PROVE  Account'
<1>1. Counted' /\ Dated'
  BY CountedNext DEF Account
<1>2. itm \in [Expiries -> SUBSET Strikes] /\ Counted /\ (PutFree => Paid)
  BY DEF Account
<1>3. PutFree' => PutFree
  <2>1. Grown
    BY Trading DEF BookOK, Grown
  <2>2. DOMAIN history \subseteq DOMAIN history' /\ \A i \in DOMAIN history : history'[i] = history[i]
    BY <2>1, Remembered
  <2> QED
    BY <2>2 DEF PutFree
<1>4. CASE DealShares \/ \E c \in Contracts : DealCall(c)
  <2>1. itm' = itm
    BY <1>4 DEF DealShares, DealCall, Dealt
  <2>2. Paid => Paid'
    BY <1>1, <1>2, <1>4, PaidNext
  <2> QED
    BY <1>1, <1>2, <1>3, <2>1, <2>2 DEF Account
<1>5. CASE DealPut
  <2>1. PICK act \in {"put_opened", "put_closed", "put_assigned"}, m \in Int : Dealt(Event(act, Put), Put, 0, m)
    BY <1>5 DEF DealPut
  <2>2. itm' = itm
    BY <2>1 DEF Dealt
  <2>3. history'[Len(history) + 1] = Event(act, Put) /\ Len(history) + 1 \in DOMAIN history'
    BY <2>1, DealtGrows
  <2>4. ~PutFree'
    BY <2>3 DEF PutFree, PutTrade, Event
  <2> QED
    BY <1>1, <1>2, <2>2, <2>4 DEF Account
<1>6. ASSUME NEW e \in Expiries, Expire(e) PROVE Account'
  <2>1. itm' \in [Expiries -> SUBSET Strikes]
    BY <1>2, <1>6 DEF Expire
  <2>2. Paid => Paid'
    BY <1>2, <1>6, PaidExpire
  <2> QED
    BY <1>1, <1>2, <1>3, <2>1, <2>2 DEF Account
<1> QED
  BY <1>4, <1>5, <1>6, Deals

-----------------------------------------------------------------------------
(* The differences of a report, in their order.                             *)

Lower(a, b) ==
  \/ a[1] < b[1] \/ (a[1] = b[1] /\ a[2] < b[2])
  \/ (a[1] = b[1] /\ a[2] = b[2] /\ a[3] < b[3])
  \/ (a[1] = b[1] /\ a[2] = b[2] /\ a[3] = b[3] /\ a[4] < b[4])
Ranks(r) == \A i \in 1..4 : r[i] \in Nat

LEMMA BeforeIs == \A a, b : Before(a, b) <=> Lower(Rank(a), Rank(b))
<1> SUFFICES ASSUME NEW a, NEW b PROVE Before(a, b) <=> Lower(Rank(a), Rank(b))
  OBVIOUS
<1> DEFINE r == Rank(a)
           s == Rank(b)
<1>1. Before(a, b) <=> \E k \in 1..4 : r[k] < s[k] /\ \A j \in 1..(k - 1) : r[j] = s[j]
  BY DEF Before
<1> HIDE DEF r, s
<1>2. 1..4 = {1, 2, 3, 4} /\ 1..(1 - 1) = {} /\ 1..(2 - 1) = {1} /\ 1..(3 - 1) = {1, 2} /\ 1..(4 - 1) = {1, 2, 3}
  OBVIOUS
<1>3. (\E k \in 1..4 : r[k] < s[k] /\ \A j \in 1..(k - 1) : r[j] = s[j]) <=> Lower(r, s)
  BY <1>2 DEF Lower
<1> QED
  BY <1>1, <1>3 DEF r, s

LEMMA LowerIs ==
  ASSUME NEW a, NEW b, Ranks(a), Ranks(b)
  PROVE  /\ ~Lower(a, a) /\ (Lower(a, b) => ~Lower(b, a))
         /\ Lower(a, b) \/ Lower(b, a) \/ (a[1] = b[1] /\ a[2] = b[2] /\ a[3] = b[3] /\ a[4] = b[4])
         /\ \A c : Ranks(c) /\ Lower(c, a) /\ Lower(a, b) => Lower(c, b)
<1>1. \A x : Ranks(x) => x[1] \in Nat /\ x[2] \in Nat /\ x[3] \in Nat /\ x[4] \in Nat
  BY DEF Ranks
<1>2. a[1] \in Nat /\ a[2] \in Nat /\ a[3] \in Nat /\ a[4] \in Nat
      /\ b[1] \in Nat /\ b[2] \in Nat /\ b[3] \in Nat /\ b[4] \in Nat
  BY <1>1
<1>3. ASSUME NEW c, Ranks(c), Lower(c, a), Lower(a, b) PROVE Lower(c, b)
  <2>1. c[1] \in Nat /\ c[2] \in Nat /\ c[3] \in Nat /\ c[4] \in Nat
    BY <1>1, <1>3
  <2> QED
    BY <1>2, <1>3, <2>1 DEF Lower
<1> QED
  BY <1>2, <1>3 DEF Lower

\* A set of differences, one to an instrument, is ordered by their ranks.
Distinct(diffs) ==
  /\ IsFiniteSet(diffs) /\ \A d \in diffs : d.inst \in Inst
  /\ \A a, b \in diffs : a.inst = b.inst => a = b

LEMMA RankIs ==
  ASSUME NEW diffs, Distinct(diffs)
  PROVE  /\ \A d \in diffs : Ranks(Rank(d))
         /\ \A a, b \in diffs : a # b => Before(a, b) \/ Before(b, a)
         /\ \A a, b \in diffs : ~Before(a, a) /\ (Before(a, b) => ~Before(b, a))
         /\ \A a, b, c \in diffs : Before(c, a) /\ Before(a, b) => Before(c, b)
<1>1. \A i \in Inst : i.strike \in Nat /\ i.exp \in Nat /\ i = [strike |-> i.strike, exp |-> i.exp]
  <2>1. Strikes \subseteq Nat /\ Expiries \subseteq Nat
    BY MirrorAssumption
  <2>2. \A c \in Contracts : c.strike \in Nat /\ c.exp \in Nat /\ c = [strike |-> c.strike, exp |-> c.exp]
    <3>1. \A c \in Contracts : c.strike \in Strikes /\ c.exp \in Expiries /\ c = [strike |-> c.strike, exp |-> c.exp]
      BY DEF Contracts
    <3> QED
      BY <2>1, <3>1
  <2>3. \A i \in {Equity, Put, PutAsCall} :
          i.strike \in Nat /\ i.exp \in Nat /\ i = [strike |-> i.strike, exp |-> i.exp]
    BY DEF Equity, Put, PutAsCall
  <2> QED
    BY <2>2, <2>3 DEF Inst
<1>2. \A d \in diffs : d.inst \in Inst
  BY DEF Distinct
<1>3. ASSUME NEW d \in diffs
      PROVE  Ranks(Rank(d)) /\ Rank(d)[3] = d.inst.strike /\ Rank(d)[4] = d.inst.exp
  <2> DEFINE r == Rank(d)
  <2>1. /\ r[1] = (IF d.exp # 0 THEN 0 ELSE 1)
        /\ r[2] = (IF d.inst = Equity THEN 2 ELSE IF d.inst = Put THEN 1 ELSE 0)
        /\ r[3] = d.inst.strike /\ r[4] = d.inst.exp
    BY DEF Rank
  <2>2. d.inst.strike \in Nat /\ d.inst.exp \in Nat
    BY <1>1, <1>2
  <2> HIDE DEF r
  <2>3. r[1] \in Nat /\ r[2] \in Nat /\ r[3] \in Nat /\ r[4] \in Nat
    BY <2>1, <2>2
  <2>4. \A i \in 1..4 : i = 1 \/ i = 2 \/ i = 3 \/ i = 4
    OBVIOUS
  <2>5. Ranks(r)
    BY <2>3, <2>4 DEF Ranks
  <2> QED
    BY <2>1, <2>5 DEF r
<1>4. ASSUME NEW a \in diffs, NEW b \in diffs, a # b PROVE Before(a, b) \/ Before(b, a)
  <2>1. a.inst # b.inst
    BY <1>4 DEF Distinct
  <2>2. ~(Rank(a)[3] = Rank(b)[3] /\ Rank(a)[4] = Rank(b)[4])
    BY <1>1, <1>2, <1>3, <2>1
  <2>3. Ranks(Rank(a)) /\ Ranks(Rank(b))
    BY <1>3
  <2>4. Lower(Rank(a), Rank(b)) \/ Lower(Rank(b), Rank(a))
    BY <2>2, <2>3, LowerIs
  <2> QED
    BY <2>4, BeforeIs
<1>5. \A a, b \in diffs : ~Before(a, a) /\ (Before(a, b) => ~Before(b, a))
  BY <1>3, LowerIs, BeforeIs
<1>6. \A a, b, c \in diffs : Before(c, a) /\ Before(a, b) => Before(c, b)
  BY <1>3, LowerIs, BeforeIs
<1> QED
  BY <1>3, <1>4, <1>5, <1>6

LEMMA PlaceExists ==
  ASSUME NEW diffs, Distinct(diffs), NEW k \in 1..Cardinality(diffs)
  PROVE  \E d \in diffs : Place(diffs, d) = k
<1> DEFINE n == Cardinality(diffs)
           below(d) == {x \in diffs : Before(x, d)}
           upto(d) == below(d) \union {d}
           place == [d \in diffs |-> Place(diffs, d)]
<1>1. IsFiniteSet(diffs)
  BY DEF Distinct
<1>2. n \in Nat /\ IsFiniteSet(1..n) /\ Cardinality(1..n) = n
  <2>1. n \in Nat
    BY <1>1, FS_CardinalityType
  <2> HIDE DEF n
  <2> QED
    BY <2>1, FS_Interval
<1>3. /\ \A a, b \in diffs : a # b => Before(a, b) \/ Before(b, a)
      /\ \A a, b \in diffs : ~Before(a, a) /\ (Before(a, b) => ~Before(b, a))
      /\ \A a, b, c \in diffs : Before(c, a) /\ Before(a, b) => Before(c, b)
  BY RankIs
<1>4. ASSUME NEW d \in diffs
      PROVE  /\ Place(diffs, d) = Cardinality(upto(d)) /\ IsFiniteSet(upto(d)) /\ upto(d) \in SUBSET diffs
             /\ Place(diffs, d) \in 1..n
  <2>1. below(d) \in SUBSET diffs /\ d \notin below(d) /\ upto(d) \in SUBSET diffs
    BY <1>3
  <2>2. Place(diffs, d) = Cardinality(below(d)) + 1
    BY DEF Place
  <2>3. upto(d) = below(d) \union {d}
    OBVIOUS
  <2> HIDE DEF below, upto, n
  <2>4. IsFiniteSet(below(d)) /\ IsFiniteSet(upto(d))
    BY <1>1, <2>1, FS_Subset
  <2>5. Cardinality(upto(d)) = Cardinality(below(d)) + 1
    BY <2>1, <2>3, <2>4, FS_AddElement
  <2>6. Cardinality(upto(d)) <= n
    BY <1>1, <2>1, FS_Subset DEF n
  <2>7. Cardinality(below(d)) \in Nat
    BY <2>4, FS_CardinalityType
  <2> QED
    BY <1>2, <2>1, <2>2, <2>4, <2>5, <2>6, <2>7
<1>5. ASSUME NEW a \in diffs, NEW b \in diffs, Before(a, b) PROVE Place(diffs, a) # Place(diffs, b)
  <2>1. upto(a) \in SUBSET upto(b) /\ b \notin upto(a) /\ b \in upto(b)
    BY <1>3, <1>5
  <2>2. upto(a) \in SUBSET upto(b) /\ upto(a) # upto(b)
    BY <2>1
  <2> HIDE DEF upto
  <2>3. Cardinality(upto(b)) # Cardinality(upto(a))
    BY <1>4, <2>2, FS_Subset
  <2> QED
    BY <1>4, <2>3
<1>6. \A a, b \in diffs : a # b => Place(diffs, a) # Place(diffs, b)
  BY <1>3, <1>5
<1>7. place \in [diffs -> 1..n] /\ \A a, b \in diffs : place[a] = place[b] => a = b
  BY <1>4, <1>6
<1> HIDE DEF place, n
<1>8. place \in Injection(diffs, 1..n)
  BY <1>7 DEF Injection, IsInjective
<1>9. place \in Surjection(diffs, 1..n)
  BY <1>2, <1>8, FS_Injection DEF n
<1>10. \E d \in diffs : place[d] = k
  BY <1>9 DEF Surjection, n
<1> QED
  BY <1>10 DEF place

LEMMA SortedIs ==
  ASSUME NEW diffs, Distinct(diffs)
  PROVE  \A k \in DOMAIN Sorted(diffs) : Sorted(diffs)[k] \in diffs
<1> SUFFICES ASSUME NEW k \in DOMAIN Sorted(diffs) PROVE Sorted(diffs)[k] \in diffs
  OBVIOUS
<1>1. k \in 1..Cardinality(diffs) /\ Sorted(diffs)[k] = CHOOSE d \in diffs : Place(diffs, d) = k
  BY DEF Sorted
<1>2. \E d \in diffs : Place(diffs, d) = k
  BY <1>1, PlaceExists
<1> QED
  BY <1>1, <1>2

LEMMA AccountInit == Init => Account
<1> SUFFICES ASSUME Init PROVE Account
  OBVIOUS
<1>1. /\ history = << >> /\ \A i \in Inst : broker[i] = 0
      /\ \A x \in Expiries : expday[x] = 0 /\ itm \in [Expiries -> SUBSET Strikes]
  BY DEF Init, Nothing
<1>2. itm \in [Expiries -> SUBSET Strikes]
  BY DEF Init
<1>3. \A C : Tally(history, C) = 0
  BY <1>1, TallyNone
<1>4. \A c \in Contracts : broker[c] = 0
  BY <1>1, Instruments
<1>5. Counted
  BY <1>3, <1>4 DEF Counted
<1>6. Len(history) = 0 /\ 1..0 = {} /\ history \in Seq(Events)
  BY <1>1
<1>7. Dated
  BY <1>1, <1>6, MirrorAssumption DEF Dated
<1>8. SumOf(broker, Contracts) = 0
  BY <1>4, SumZero
<1>9. broker[Equity] = 0
  BY <1>1, Instruments
<1>10. broker[Equity] = Tally(history, Buys) - Tally(history, Sells) - Tally(history, Away(Expiries))
       /\ SumOf(broker, Contracts) <= broker[Equity]
  BY <1>3, <1>8, <1>9
<1>11. ASSUME NEW d \in Nat PROVE Left(history, d, PassedBy(expday, d)) >= Due(broker, itm, PassedBy(expday, d))
  <2> DEFINE X == PassedBy(expday, d)
  <2>1. X \in SUBSET Expiries /\ 2 * Len(history) <= d /\ \A c \in Contracts : broker[c] \in Nat
    BY <1>4, <1>6 DEF PassedBy
  <2> HIDE DEF X
  <2>2. Left(history, d, X) >= Due(broker, itm, X)
    BY <1>6, <1>10, <2>1, LeftAll
  <2> QED
    BY <2>2 DEF X
<1> QED
  BY <1>2, <1>5, <1>7, <1>10, <1>11 DEF Account, Paid

-----------------------------------------------------------------------------
(* What a report finds different.                                           *)

LEMMA InstFinite == IsFiniteSet(Inst)
<1>1. IsFiniteSet({Equity}) /\ IsFiniteSet({Put}) /\ IsFiniteSet({PutAsCall})
  BY FS_Singleton
<1>2. IsFiniteSet(Contracts \union {Equity} \union {Put} \union {PutAsCall})
  BY <1>1, ContractsFinite, FS_Union
<1>3. Inst = Contracts \union {Equity} \union {Put} \union {PutAsCall}
  BY DEF Inst
<1> QED
  BY <1>2, <1>3

DiffOK(d) ==
  /\ d.inst # Put => d.exp \in Int /\ d.brk \in Int
  /\ d.class = "EXPIRED_WORTHLESS_PENDING" => d.exp \in Nat
Expected(x) == x[Equity] \in Int /\ x[PutAsCall] \in Int /\ \A c \in Contracts : x[c] \in Nat

LEMMA DifferencesAre ==
  ASSUME NEW b \in [Inst -> Int], NEW x, NEW closes, Expected(x)
  PROVE  \A k \in DOMAIN reconcile(b, x, closes) : DiffOK(reconcile(b, x, closes)[k])
<1> DEFINE I == {j \in Inst : x[j] # b[j]}
           f == [i \in I |-> [class |-> Classify(i, x[i], b[i], closes), inst |-> i, exp |-> x[i], brk |-> b[i]]]
           D == Differences(b, x, closes)
<1>1. D = {f[i] : i \in I}
  BY DEF Differences
<1>2. \A i \in I : i \in Inst /\ f[i].inst = i /\ f[i].exp = x[i] /\ f[i].brk = b[i] /\ f[i].class = Classify(i, x[i], b[i], closes)
  OBVIOUS
<1>3. IsFiniteSet(I)
  <2>1. I \in SUBSET Inst
    OBVIOUS
  <2> HIDE DEF I
  <2> QED
    BY <2>1, InstFinite, FS_Subset
<1>4. f \in Surjection(I, D)
  BY <1>1 DEF Surjection
<1> HIDE DEF f, D, I
<1>5. IsFiniteSet(D)
  BY <1>3, <1>4, FS_Surjection
<1>6. Distinct(D)
  BY <1>1, <1>2, <1>5 DEF Distinct
<1>7. ASSUME NEW i \in I PROVE DiffOK(f[i])
  <2>1. i # Put => x[i] \in Int
    BY <1>2 DEF Expected, Inst
  <2>2. b[i] \in Int
    BY <1>2
  <2>3. Classify(i, x[i], b[i], closes) = "EXPIRED_WORTHLESS_PENDING" => i \in Contracts
    BY DEF Classify, Worthless
  <2> QED
    BY <1>2, <2>1, <2>2, <2>3 DEF DiffOK, Expected
<1>8. \A d \in D : DiffOK(d)
  BY <1>1, <1>7
<1>9. reconcile(b, x, closes) = Sorted(D)
  BY DEF reconcile, D
<1> QED
  BY <1>6, <1>8, <1>9, SortedIs

LEMMA ViewIs ==
  ASSUME pos.shares \in Int
  PROVE  Expected(expected_view_from_state)
<1>1. /\ Equity \in Inst /\ PutAsCall \in Inst /\ Contracts \subseteq Inst /\ Equity # PutAsCall /\ Put # PutAsCall
      /\ Equity # Put /\ \A c \in Contracts : c # Equity /\ c # Put
  BY Instruments DEF Equity, Put
<1>2. CASE pos.status \in {None, "closed"} \/ ~_ticker_liveness
  <2>1. \A i \in Inst : Nothing[i] = 0
    BY DEF Nothing
  <2>2. expected_view_from_state = Nothing
    BY <1>2 DEF expected_view_from_state
  <2> QED
    BY <1>1, <2>1, <2>2 DEF Expected
<1>3. CASE ~(pos.status \in {None, "closed"} \/ ~_ticker_liveness)
  <2> DEFINE x == expected_view_from_state
  <2>1. /\ x[Equity] = pos.shares
        /\ \A i \in Inst : i # Equity /\ i # Put => x[i] \in {0, 1}
    BY <1>1, <1>3 DEF expected_view_from_state
  <2> HIDE DEF x
  <2>2. Expected(x)
    BY <1>1, <2>1 DEF Expected
  <2> QED
    BY <2>2 DEF x
<1> QED
  BY <1>2, <1>3

-----------------------------------------------------------------------------
(* What is in the log and among the writes to come.                         *)

In(l) == {l[k] : k \in DOMAIN l}

LEMMA InShort ==
  /\ In(<< >>) = {}
  /\ \A a, b : In(<<a>>) = {a} /\ In(<<a, b>>) = {a, b}
<1>1. In(<< >>) = {}
  BY DEF In
<1>2. ASSUME NEW a, NEW b PROVE In(<<a>>) = {a} /\ In(<<a, b>>) = {a, b}
  <2>1. DOMAIN <<a>> = {1} /\ <<a>>[1] = a
    OBVIOUS
  <2>2. DOMAIN <<a, b>> = {1, 2} /\ <<a, b>>[1] = a /\ <<a, b>>[2] = b
    OBVIOUS
  <2> DEFINE s == <<a>>
             t == <<a, b>>
  <2>3. DOMAIN s = {1} /\ s[1] = a /\ DOMAIN t = {1, 2} /\ t[1] = a /\ t[2] = b
    BY <2>1, <2>2
  <2> HIDE DEF s, t
  <2>4. In(s) = {a} /\ In(t) = {a, b}
    BY <2>3 DEF In
  <2> QED
    BY <2>4 DEF s, t
<1> QED
  BY <1>1, <1>2

LEMMA InAppend ==
  ASSUME NEW l, IsSeq(l), NEW x
  PROVE  In(Append(l, x)) = In(l) \union {x}
<1> DEFINE g == Append(l, x)
<1>1. /\ IsSeq(g) /\ Len(g) = Len(l) + 1 /\ \A i \in 1..Len(l) : g[i] = l[i]
      /\ g[Len(l) + 1] = x
  BY AnyAppend
<1>2. Len(l) \in Nat /\ DOMAIN l = 1..Len(l) /\ DOMAIN g = 1..Len(g)
  BY <1>1, AnySeq
<1> HIDE DEF g
<1>3. \A i : i \in 1..Len(l) + 1 <=> i \in 1..Len(l) \/ i = Len(l) + 1
  BY <1>2
<1>4. In(g) = In(l) \union {x}
  BY <1>1, <1>2, <1>3 DEF In
<1> QED
  BY <1>4 DEF g

LEMMA InTail ==
  ASSUME NEW l, IsSeq(l), l # << >>
  PROVE  Head(l) \in In(l) /\ In(Tail(l)) \subseteq In(l)
<1> DEFINE g == Tail(l)
<1>1. /\ IsSeq(g) /\ Len(g) = Len(l) - 1 /\ Len(l) >= 1 /\ Head(l) = l[1]
      /\ \A i \in 1..Len(l) - 1 : g[i] = l[i + 1]
  BY AnyTail
<1>2. Len(l) \in Nat /\ DOMAIN l = 1..Len(l) /\ DOMAIN g = 1..Len(g)
  BY <1>1, AnySeq
<1> HIDE DEF g
<1>3. 1 \in DOMAIN l /\ \A i \in DOMAIN g : i + 1 \in DOMAIN l /\ g[i] = l[i + 1]
  BY <1>1, <1>2
<1>4. Head(l) \in In(l) /\ In(g) \subseteq In(l)
  BY <1>1, <1>3 DEF In
<1> QED
  BY <1>4 DEF g

LEMMA InJoined ==
  ASSUME NEW l, NEW m, IsSeq(l), IsSeq(m)
  PROVE  IsSeq(l \o m) /\ In(l \o m) \subseteq In(l) \union In(m)
         /\ (l # << >> => l \o m # << >> /\ Head(l \o m) = Head(l))
<1>1. PICK X : l \in Seq(X)
  BY DEF IsSeq
<1>2. PICK Y : m \in Seq(Y)
  BY DEF IsSeq
<1> DEFINE Z == X \union Y
           g == l \o m
<1>3. l \in Seq(Z) /\ m \in Seq(Z)
  BY <1>1, <1>2
<1> HIDE DEF Z
<1>4. /\ g \in Seq(Z) /\ Len(g) = Len(l) + Len(m)
      /\ \A i \in 1 .. Len(l) + Len(m) : g[i] = IF i <= Len(l) THEN l[i] ELSE m[i - Len(l)]
  BY <1>3, ConcatProperties
<1>5. Len(l) \in Nat /\ Len(m) \in Nat /\ DOMAIN l = 1..Len(l) /\ DOMAIN m = 1..Len(m) /\ DOMAIN g = 1..Len(l) + Len(m)
  BY <1>3, <1>4, SeqFacts
<1> HIDE DEF g
<1>6. ASSUME NEW i \in DOMAIN g PROVE (i \in DOMAIN l /\ g[i] = l[i]) \/ (i - Len(l) \in DOMAIN m /\ g[i] = m[i - Len(l)])
  BY <1>4, <1>5
<1>7. In(g) \subseteq In(l) \union In(m)
  BY <1>6 DEF In
<1>8. IsSeq(g)
  BY <1>4 DEF IsSeq
<1>9. ASSUME l # << >> PROVE g # << >> /\ Head(g) = Head(l)
  <2>1. Len(l) >= 1 /\ Head(l) = l[1]
    BY <1>9, AnyTail
  <2>2. Len(g) # 0 /\ g[1] = l[1] /\ Len(<< >>) = 0
    BY <1>4, <1>5, <2>1
  <2>3. g # << >>
    BY <2>2
  <2>4. Head(g) = g[1]
    BY <1>8, <2>3, AnyTail
  <2> QED
    BY <2>1, <2>2, <2>3, <2>4
<1> QED
  BY <1>7, <1>8, <1>9 DEF g

LEMMA InWritten ==
  ASSUME NEW l, IsSeq(l), NEW k \in DOMAIN l, NEW x
  PROVE  In([l EXCEPT ![k] = x]) \subseteq In(l) \union {x} /\ x \in In([l EXCEPT ![k] = x])
         /\ \A y \in In(l) : y = l[k] \/ y \in In([l EXCEPT ![k] = x])
<1> DEFINE g == [l EXCEPT ![k] = x]
<1>1. /\ IsSeq(g) /\ Len(g) = Len(l)
      /\ \A i \in 1..Len(l) : g[i] = IF i = k THEN x ELSE l[i]
  BY AnyWritten
<1>2. DOMAIN l = 1..Len(l) /\ DOMAIN g = 1..Len(g)
  BY <1>1, AnySeq
<1> HIDE DEF g
<1>3. In(g) \subseteq In(l) \union {x} /\ x \in In(g) /\ \A y \in In(l) : y = l[k] \/ y \in In(g)
  BY <1>1, <1>2 DEF In
<1> QED
  BY <1>3 DEF g

\* The lots of a replay are a number, whatever the log.
LEMMA LotsTyped ==
  ASSUME NEW l, LogOK(l), \A e \in In(l) : e.n \in Int
  PROVE  Lots(l) \in Int
<1> DEFINE n == Len(l)
           S == Standing(l)
<1>1. n \in Nat /\ DOMAIN l = 1..n /\ \A i \in 1..n : Entry(l[i]) /\ l[i].n \in Int
  BY AnySeq DEF LogOK, In
<1>2. S \in SUBSET (1..n) /\ Ordered("lots", l, n)
  BY <1>1 DEF Standing, Ordered, Entry
<1>3. PICK g : Folds(g, "lots", 0, l, S) /\ Lots(l) = g[S]
  BY <1>2, LotsAre
<1> DEFINE c == Cardinality(S)
           Bad == {m \in 0..c : ~\A ks \in SUBSET S : Cardinality(ks) = m => g[ks] \in Int}
<1> HIDE DEF S, n
<1>4. IsFiniteSet(S) /\ c \in Nat /\ c = Cardinality(S) /\ \A ks \in SUBSET S : ks \in SUBSET (1..n) /\ IsFiniteSet(ks)
  BY <1>1, <1>2, FinitePart
<1> HIDE DEF c
<1>5. 0 \notin Bad
  <2>1. ASSUME NEW ks \in SUBSET S, Cardinality(ks) = 0 PROVE g[ks] = 0
    <3>1. ks = {}
      BY <1>4, <2>1, FS_EmptySet
    <3> QED
      BY <1>3, <3>1 DEF Folds, Undone, Base
  <2> QED
    BY <2>1
<1>6. ASSUME NEW m \in 0..c - 1, m \notin Bad PROVE m + 1 \notin Bad
  <2>1. ASSUME NEW ks \in SUBSET S, Cardinality(ks) = m + 1 PROVE g[ks] \in Int
    <3> DEFINE t == Top("lots", l, ks)
               q == g[ks \ {t}]
               e == l[t]
    <3>1. m \in Nat /\ m \in 0..c
      BY <1>4
    <3>2. ks # {}
      <4>1. Cardinality({}) = 0 /\ m + 1 # 0
        BY <3>1, FS_EmptySet
      <4> QED
        BY <2>1, <4>1
    <3>3. ks \in SUBSET (1..n)
      BY <1>4
    <3>4. t \in ks /\ Cardinality(ks \ {t}) = Cardinality(ks) - 1
      BY <1>2, <3>2, <3>3, TopIs, Fewer
    <3>5. ks \ {t} \in SUBSET S /\ Cardinality(ks \ {t}) = m
      BY <2>1, <3>1, <3>4
    <3>6. q \in Int
      BY <1>6, <3>1, <3>5
    <3>7. e.n \in Int
      BY <1>1, <3>3, <3>4
    <3>8. g[ks] = ReplayLot(q, e)
      BY <1>3, <3>2 DEF Folds, Undone, Step
    <3> HIDE DEF t, q, e
    <3> QED
      BY <3>6, <3>7, <3>8 DEF ReplayLot
  <2> QED
    BY <2>1
<1>7. Bad \in SUBSET (0..c) /\ c \in 0..c
  BY <1>4
<1> HIDE DEF Bad
<1>8. Bad = {}
  BY <1>4, <1>5, <1>6, <1>7, UpTo
<1>9. \A ks \in SUBSET S : Cardinality(ks) = c => g[ks] \in Int
  BY <1>7, <1>8 DEF Bad
<1> QED
  BY <1>3, <1>4, <1>9

-----------------------------------------------------------------------------
(* Where the entries come from, and what a closed position holds.           *)

\* An entry is a trade of the history, a settlement or a correction.
Told(e) ==
  \/ /\ e.why = "trade" /\ e.n = 1
     /\ \E i \in DOMAIN history : e.day = 2 * i /\ history[i].act \in Trades /\ history[i] = Event(e.act, e.c)
  \/ e.why # "trade" /\ e.act \in {"adjustment", "position_rebuild"} /\ e.day = 0 /\ e.n \in Int
  \/ e.why # "trade" /\ e.act \in {"close_short", "close_shares_assigned"} /\ e.n \in Nat
ToldStep(s) == s.do \in {"append", "apply"} => Told(s.e)
\* A closed position is bare as long as no put and no adjustment was booked.
Adjusted == \E e \in In(log) : e.act = "adjustment"
Untouched == PutFree /\ ~Adjusted
Bare(p) == p.puts = 0 /\ (p.status = "closed" => p.shares = 0 /\ p.calls = << >>)
Sound(p, untouched) == p.shares \in Int /\ (untouched => Bare(p))

LEMMA NoLegsTaken == \A s, n : TakeStrike(<< >>, s, n) = << >>
<1> SUFFICES ASSUME NEW s, NEW n PROVE TakeStrike(<< >>, s, n) = << >>
  OBVIOUS
<1>1. << >> \in Seq(Legs) /\ Len(<< >>) = 0
  OBVIOUS
<1>2. PICK R : Runs(R, "legs", Taken(StrikeLegs(s), n), << >>, Len(<< >>)) /\ TakeStrike(<< >>, s, n) = R[Len(<< >>)].kept
  BY <1>1, TakeStrikeRun
<1>3. R[0] = Base("legs", Taken(StrikeLegs(s), n))
  BY <1>2 DEF Runs
<1>4. R[0].kept = << >>
  BY <1>3 DEF Base
<1> QED
  BY <1>1, <1>2, <1>4

LEMMA SoundRestated ==
  ASSUME NEW p, Whole(p), NEW u, p.shares \in Int, u => p.puts = 0
  PROVE  /\ Sound(Reopened(p), u) /\ Sound(Rederived(p), u)
         /\ Sound(p, u) => /\ Sound(CloseIfNoCalls(p), u) /\ Sound(_close_if_empty(p), u)
                           /\ Sound(_ensure_position(p), u)
                           /\ \A rep, res : Sound(reevaluate_freezes(p, rep, res), u)
<1>1. \A x : LET q == [p EXCEPT !.status = x] IN
        q.status = x /\ q.shares = p.shares /\ q.calls = p.calls /\ q.puts = p.puts
  <2>1. \A x : [p EXCEPT !.status = x] = Made(x, p.shares, p.calls, p.puts, p.review)
    BY Rewritten
  <2> QED
    BY <2>1, MadeIs
<1>2. Sound([p EXCEPT !.status = "active"], u)
  BY <1>1 DEF Sound, Bare
<1>3. p.shares = 0 /\ p.calls = << >> => Sound([p EXCEPT !.status = "closed"], u)
  BY <1>1 DEF Sound, Bare
<1>4. Sound(Reopened(p), u) /\ Sound(Rederived(p), u)
  BY <1>2, <1>3 DEF Reopened, Rederived, Empty
<1>5. ASSUME Sound(p, u)
      PROVE  Sound(CloseIfNoCalls(p), u) /\ Sound(_close_if_empty(p), u) /\ Sound(_ensure_position(p), u)
  BY <1>2, <1>3, <1>5 DEF CloseIfNoCalls, _close_if_empty, _ensure_position, Empty
<1>6. ASSUME Sound(p, u), NEW rep, NEW res PROVE Sound(reevaluate_freezes(p, rep, res), u)
  <2> DEFINE q == reevaluate_freezes(p, rep, res)
  <2>1. q.status = p.status /\ q.shares = p.shares /\ q.calls = p.calls /\ q.puts = p.puts
    BY Reevaluated
  <2> HIDE DEF q
  <2>2. Sound(q, u)
    BY <1>6, <2>1 DEF Sound, Bare
  <2> QED
    BY <2>2 DEF q
<1> QED
  BY <1>4, <1>5, <1>6

LEMMA SoundUpdate ==
  ASSUME NEW p, Whole(p), p.calls \in Seq(Legs), NEW u, Sound(p, u), u => PutFree,
         NEW e, Entry(e), e.act \in Acts, Told(e), e.act = "adjustment" => ~u
  PROVE  Sound(position_update(p, e), u)
<1>0. p.shares \in Int /\ (u => Bare(p)) /\ (u => p.puts = 0)
  BY DEF Sound, Bare
<1>1. e.n \in Int /\ (e.act # "adjustment" => e.n \in Nat)
  BY DEF Told, Acts, Trades
<1>2. \A x : LET q == WithShares(p, x) IN
        Whole(q) /\ q.status = p.status /\ q.shares = x /\ q.calls = p.calls /\ q.puts = p.puts
  BY Fields
<1>3. \A x : LET q == WithCalls(p, x) IN
        Whole(q) /\ q.status = p.status /\ q.shares = p.shares /\ q.calls = x /\ q.puts = p.puts
  BY Fields
<1>4. CASE e.act = "buy_shares"
  <2> DEFINE q == WithShares(p, p.shares + e.n)
  <2>1. position_update(p, e) = Reopened(q)
    BY <1>4 DEF position_update, _buy_shares, ShareSales, WithShares
  <2>2. Whole(q) /\ q.shares \in Int /\ (u => q.puts = 0)
    BY <1>0, <1>1, <1>2
  <2> HIDE DEF q
  <2> QED
    BY <2>1, <2>2, SoundRestated
<1>5. CASE e.act \in ShareSales
  <2> DEFINE x == IF e.n < p.shares THEN p.shares - e.n ELSE 0
             q == WithShares(p, x)
  <2>1. position_update(p, e) = CloseIfNoCalls(q)
    BY <1>5 DEF position_update, _reduce_shares, ShareSales, WithShares
  <2>2. x \in Int /\ (p.shares = 0 => x = 0)
    BY <1>0, <1>1, <1>5 DEF ShareSales
  <2> HIDE DEF x
  <2>3. Whole(q) /\ q.shares \in Int /\ (u => q.puts = 0) /\ Sound(q, u)
    BY <1>0, <1>2, <2>2 DEF Sound, Bare
  <2> HIDE DEF q
  <2> QED
    BY <2>1, <2>3, SoundRestated
<1>6. CASE e.act = "sell_short"
  <2> DEFINE q == WithCalls(p, Append(p.calls, e.c))
  <2>1. position_update(p, e) = Reopened(q)
    BY <1>6 DEF position_update, _sell_short, ShareSales, WithCalls
  <2>2. Whole(q) /\ q.shares \in Int /\ (u => q.puts = 0)
    BY <1>0, <1>3
  <2> HIDE DEF q
  <2> QED
    BY <2>1, <2>2, SoundRestated
<1>7. ASSUME NEW s, NEW n PROVE Sound(CloseLegs(p, s, n), u)
  <2> DEFINE q == WithCalls(p, TakeStrike(p.calls, s, n))
  <2>1. CloseLegs(p, s, n) = q
    BY DEF CloseLegs, TakeStrike, WithCalls
  <2>2. q.status = p.status /\ q.shares = p.shares /\ q.calls = TakeStrike(p.calls, s, n) /\ q.puts = p.puts
    BY <1>3
  <2> HIDE DEF q
  <2>3. p.calls = << >> => q.calls = << >>
    BY <2>2, NoLegsTaken
  <2>4. Sound(q, u)
    BY <1>0, <2>2, <2>3 DEF Sound, Bare
  <2> QED
    BY <2>1, <2>4
<1>8. CASE e.act = "close_short"
  BY <1>7, <1>8 DEF position_update, _close_short, ShareSales
<1>9. CASE e.act \in {"put_opened", "put_closed", "put_assigned"}
  <2>1. ~u
    <3>1. PICK i \in DOMAIN history : history[i] = Event(e.act, e.c)
      BY <1>9 DEF Told
    <3>2. history[i].act = e.act
      BY <3>1 DEF Event
    <3> QED
      BY <1>9, <3>1, <3>2 DEF PutFree, PutTrade
  <2> DEFINE r == WithPuts(p, p.puts - 1)
             t == WithShares(r, p.shares + 1)
  <2>2. \/ position_update(p, e) = WithPuts(p, p.puts + 1)
        \/ position_update(p, e) = _close_if_empty(r)
        \/ position_update(p, e) = Reopened([p EXCEPT !.puts = p.puts - 1, !.shares = p.shares + 1])
    BY <1>9 DEF position_update, _put_opened, _put_closed, _put_assigned, ShareSales, WithPuts
  <2>3. [p EXCEPT !.puts = p.puts - 1, !.shares = p.shares + 1] = t
    BY DEF Whole, Made, WithPuts, WithShares
  <2>4. \A x : Whole(WithPuts(p, x)) /\ WithPuts(p, x).shares = p.shares
    BY Fields
  <2>5. Whole(r) /\ r.shares \in Int
    BY <1>0, <2>4
  <2> HIDE DEF r
  <2>6. Whole(t) /\ t.shares = p.shares + 1
    BY <2>5, Fields
  <2> HIDE DEF t
  <2>7. t.shares \in Int
    BY <1>0, <2>6
  <2>8. Sound(WithPuts(p, p.puts + 1), u) /\ Sound(r, u)
    BY <1>0, <2>1, <2>4, <2>5 DEF Sound
  <2>9. Sound(_close_if_empty(r), u)
    BY <2>1, <2>5, <2>8, SoundRestated
  <2>10. Sound(Reopened(t), u)
    BY <2>1, <2>6, <2>7, SoundRestated
  <2> QED
    BY <2>2, <2>3, <2>8, <2>9, <2>10
<1>10. CASE e.act = "adjustment"
  <2>0. ~u
    BY <1>10
  <2>1. position_update(p, e) = _apply_adjustment(p, e)
    BY <1>10 DEF position_update, ShareSales
  <2>2. CASE e.c = Equity
    <3> DEFINE q == WithShares(p, p.shares + e.n)
    <3>1. _apply_adjustment(p, e) = CloseIfNoCalls(q)
      BY <2>2 DEF _apply_adjustment, WithShares
    <3>2. Whole(q) /\ q.shares \in Int
      BY <1>0, <1>1, <1>2
    <3> HIDE DEF q
    <3>3. Sound(q, u)
      BY <2>0, <3>2 DEF Sound
    <3> QED
      BY <2>0, <2>1, <3>1, <3>2, <3>3, SoundRestated
  <2>3. CASE e.c # Equity
    BY <1>7, <2>1, <2>3 DEF _apply_adjustment
  <2> QED
    BY <2>2, <2>3
<1> QED
  BY <1>4, <1>5, <1>6, <1>8, <1>9, <1>10 DEF Acts, Trades, ShareSales

LEMMA SoundRebuilt ==
  ASSUME BookOK, Lots(log) \in Int, NEW p, Whole(p), NEW u, Sound(p, u)
  PROVE  /\ Sound(RebuiltShares(p), u) /\ Sound(RebuiltCalls(p), u)
         /\ \A q : Sound(Rederived(WithCalls(p, q)), u)
<1>1. RebuiltShares(p) = Rederived(WithShares(p, Lots(log)))
  BY ReplayIs DEF RebuiltShares, WithShares
<1>2. RebuiltCalls(p) = Rederived(WithCalls(p, Calls(log)))
  BY ReplayIs DEF RebuiltCalls, WithCalls
<1>3. p.shares \in Int /\ (u => p.puts = 0)
  BY DEF Sound, Bare
<1>4. Sound(Rederived(WithShares(p, Lots(log))), u)
  <2> DEFINE x == Lots(log)
             q == WithShares(p, x)
  <2>1. x \in Int
    OBVIOUS
  <2> HIDE DEF x
  <2>2. Whole(q) /\ q.shares = x /\ q.puts = p.puts
    BY Fields
  <2> HIDE DEF q
  <2>3. Sound(Rederived(q), u)
    BY <1>3, <2>1, <2>2, SoundRestated
  <2> QED
    BY <2>3 DEF q, x
<1>5. ASSUME NEW x PROVE Sound(Rederived(WithCalls(p, x)), u)
  <2> DEFINE q == WithCalls(p, x)
  <2>1. Whole(q) /\ q.shares = p.shares /\ q.puts = p.puts
    BY Fields
  <2> HIDE DEF q
  <2>2. Sound(Rederived(q), u)
    BY <1>3, <2>1, SoundRestated
  <2> QED
    BY <2>2 DEF q
<1> QED
  BY <1>1, <1>2, <1>4, <1>5

-----------------------------------------------------------------------------
(* The writes that an operation begins.                                     *)

Adjusts(s) == s.do = "apply" /\ s.e.act = "adjustment"
AllTold(j) == \A s \in In(j) : ToldStep(s)
Quiet(j) == \A s \in In(j) : ~Adjusts(s)
\* The adjustment is in the log before it is in the position.
Ahead(j) == j # << >> /\ Head(j).do = "append" /\ Head(j).e.act = "adjustment"
Begun(j) == AllTold(j) /\ (Quiet(j) \/ Ahead(j))

LEMMA StepsTold ==
  /\ \A e : Told(e) => ToldStep(AppendStep(e)) /\ ~Adjusts(AppendStep(e))
  /\ \A e, t, i, s : Told(e) => /\ ToldStep(ApplyStep(e, t, i, s))
                                /\ e.act # "adjustment" => ~Adjusts(ApplyStep(e, t, i, s))
  /\ \A x : x.do \notin {"append", "apply"} => ToldStep(x) /\ ~Adjusts(x)
<1>1. \A e : AppendStep(e).do = "append" /\ AppendStep(e).e = e
  BY DEF AppendStep
<1>2. \A e, t, i, s : ApplyStep(e, t, i, s).do = "apply" /\ ApplyStep(e, t, i, s).e = e
  BY DEF ApplyStep
<1> QED
  BY <1>1, <1>2 DEF ToldStep, Adjusts

LEMMA BegunShort ==
  /\ AllTold(<< >>) /\ Quiet(<< >>) /\ AllTold(HealStep) /\ Quiet(HealStep)
  /\ \A a, b : ToldStep(a) /\ ToldStep(b) =>
       /\ AllTold(<<a>>) /\ AllTold(<<a, b>>)
       /\ ~Adjusts(a) /\ ~Adjusts(b) => Quiet(<<a>>) /\ Quiet(<<a, b>>)
  /\ \A e, t : Told(e) /\ e.act # "adjustment" => AllTold(Booking(e, t)) /\ Quiet(Booking(e, t))
<1>1. AllTold(<< >>) /\ Quiet(<< >>)
  BY InShort DEF AllTold, Quiet
<1>2. ASSUME NEW a, NEW b, ToldStep(a), ToldStep(b)
      PROVE  /\ AllTold(<<a>>) /\ AllTold(<<a, b>>)
             /\ ~Adjusts(a) /\ ~Adjusts(b) => Quiet(<<a>>) /\ Quiet(<<a, b>>)
  <2>1. In(<<a>>) = {a} /\ In(<<a, b>>) = {a, b}
    BY InShort
  <2> DEFINE s == <<a>>
             t == <<a, b>>
  <2>2. In(s) = {a} /\ In(t) = {a, b}
    BY <2>1
  <2> HIDE DEF s, t
  <2>3. /\ AllTold(s) /\ AllTold(t)
        /\ ~Adjusts(a) /\ ~Adjusts(b) => Quiet(s) /\ Quiet(t)
    BY <1>2, <2>2 DEF AllTold, Quiet
  <2> QED
    BY <2>3 DEF s, t
<1>3. AllTold(HealStep) /\ Quiet(HealStep)
  <2> DEFINE h == [do |-> "heal"]
  <2>1. h.do \notin {"append", "apply"} /\ HealStep = <<h>>
    BY DEF HealStep
  <2> HIDE DEF h
  <2>2. ToldStep(h) /\ ~Adjusts(h)
    BY <2>1, StepsTold
  <2> QED
    BY <1>2, <2>1, <2>2
<1>4. ASSUME NEW e, NEW t, Told(e), e.act # "adjustment" PROVE AllTold(Booking(e, t)) /\ Quiet(Booking(e, t))
  <2>1. /\ ToldStep(AppendStep(e)) /\ ~Adjusts(AppendStep(e))
        /\ ToldStep(ApplyStep(e, t, {}, FALSE)) /\ ~Adjusts(ApplyStep(e, t, {}, FALSE))
    BY <1>4, StepsTold
  <2> QED
    BY <1>2, <2>1 DEF Booking
<1> QED
  BY <1>1, <1>2, <1>3, <1>4

LEMMA BegunJoined ==
  ASSUME NEW l, NEW m, JobOK(l), JobOK(m), AllTold(l), AllTold(m), Quiet(l), Quiet(m)
  PROVE  AllTold(l \o m) /\ Quiet(l \o m) /\ JobOK(l \o m)
<1>1. In(l \o m) \subseteq In(l) \union In(m)
  BY InJoined DEF JobOK
<1> DEFINE g == l \o m
<1>2. In(g) \subseteq In(l) \union In(m)
  BY <1>1
<1> HIDE DEF g
<1>3. AllTold(g) /\ Quiet(g)
  BY <1>2 DEF AllTold, Quiet
<1> QED
  BY <1>3, Joined DEF g

LEMMA ExecutionTold ==
  /\ \A c : \A n \in Int : Told(Execution(0, "adjustment", c, n, "adjustment"))
  /\ Told(Execution(0, "position_rebuild", Equity, 0, "broker"))
  /\ \A day, c : \A n \in Nat : \A why \in {"expired_worthless", "assigned"} :
       /\ Told(Execution(day, "close_short", c, n, why))
       /\ Told(Execution(day, "close_shares_assigned", c, n, why))
<1>1. \A day, act, c, n, why : LET e == Execution(day, act, c, n, why) IN
        e.day = day /\ e.act = act /\ e.n = n /\ e.why = why
  BY DEF Execution
<1>2. \A e : e.why # "trade" /\ e.act \in {"adjustment", "position_rebuild"} /\ e.day = 0 /\ e.n \in Int => Told(e)
  BY DEF Told
<1>3. \A e : e.why # "trade" /\ e.act \in {"close_short", "close_shares_assigned"} /\ e.n \in Nat => Told(e)
  BY DEF Told
<1>4. \A c : \A n \in Int : Told(Execution(0, "adjustment", c, n, "adjustment"))
  BY <1>1, <1>2
<1>5. Told(Execution(0, "position_rebuild", Equity, 0, "broker"))
  BY <1>1, <1>2
<1>6. \A day, c : \A n \in Nat : \A why \in {"expired_worthless", "assigned"} :
       /\ Told(Execution(day, "close_short", c, n, why))
       /\ Told(Execution(day, "close_shares_assigned", c, n, why))
  BY <1>1, <1>3
<1> QED
  BY <1>4, <1>5, <1>6

LEMMA CommitTold ==
  ASSUME BookOK, NEW i \in DOMAIN history, _commit(i) \/ adopt_broker_trade(i)
  PROVE  Begun(job')
<1>1. i \in 1..Len(history) /\ history[i] \in Events /\ i \in Nat
  BY SeqFacts DEF BookOK
<1>2. history[i].act \in Trades
  BY DEF _commit, adopt_broker_trade, Unbooked
<1> DEFINE e == TradeExecution(i)
<1>3. e.why = "trade" /\ e.n = 1 /\ e.day = 2 * i /\ e.act = history[i].act /\ e.c = history[i].c
      /\ history[i] = Event(history[i].act, history[i].c)
  BY <1>1 DEF TradeExecution, Execution, Events, Event
<1>4. history[i].act \in Acts /\ (history[i].act = "sell_short" => history[i].c \in Contracts)
  BY <1>1, <1>2 DEF Events, Acts
<1>5. Entry(e) /\ e.act \in Acts
  <2>1. 2 * i \in Nat
    BY <1>1
  <2> QED
    BY <1>4, <2>1, ExecutionIs DEF TradeExecution
<1> HIDE DEF e
<1>6. Told(e)
  BY <1>2, <1>3 DEF Told
<1>7. e.act # "adjustment"
  BY <1>2, <1>3 DEF Trades
<1>8. ASSUME NEW t PROVE JobOK(Booking(e, t)) /\ AllTold(Booking(e, t)) /\ Quiet(Booking(e, t))
  BY <1>5, <1>6, <1>7, Jobs, BegunShort
<1>9. CASE _commit(i)
  <2>1. \E t : job' = Booking(e, t)
    BY <1>9 DEF _commit, Start, e
  <2> QED
    BY <1>8, <2>1 DEF Begun
<1>10. CASE adopt_broker_trade(i)
  <2>1. job' = Booking(e, TRUE) \o HealStep
    BY <1>10 DEF adopt_broker_trade, Start, e
  <2>2. AllTold(Booking(e, TRUE) \o HealStep) /\ Quiet(Booking(e, TRUE) \o HealStep)
    BY <1>8, BegunShort, Jobs, BegunJoined
  <2> QED
    BY <2>1, <2>2 DEF Begun
<1> QED
  BY <1>9, <1>10

LEMMA AdjustmentTold ==
  ASSUME BookOK, NEW k \in DOMAIN report.diffs, DiffOK(report.diffs[k]), _adjustment(k)
  PROVE  Begun(job')
<1>0. Equity # Put
  BY DEF Equity, Put
<1>1. PICK c, n, i : n \in Int /\ LET e == Execution(0, "adjustment", c, n, "adjustment") IN
        job' = <<AppendStep(e), ApplyStep(e, FALSE, i, FALSE)>>
  <2> DEFINE d == report.diffs[k]
             c == d.inst
             n == IF d.inst = Equity THEN d.brk - d.exp ELSE 1
  <2>1. n \in Int
    BY <1>0 DEF DiffOK
  <2>2. LET e == Execution(0, "adjustment", c, n, "adjustment") IN
        job' = <<AppendStep(e), ApplyStep(e, FALSE, {k}, FALSE)>>
    BY DEF _adjustment, Fix, Start, Diff
  <2> HIDE DEF n, c
  <2> QED
    BY <2>1, <2>2
<1> DEFINE e == Execution(0, "adjustment", c, n, "adjustment")
           a == AppendStep(e)
           b == ApplyStep(e, FALSE, i, FALSE)
<1>2. Told(e) /\ e.act = "adjustment"
  <2>1. n \in Int
    BY <1>1
  <2>2. e.act = "adjustment"
    BY DEF Execution
  <2> QED
    BY <2>1, <2>2, ExecutionTold
<1>3. job' = <<a, b>>
  BY <1>1
<1> HIDE DEF e
<1>4. ToldStep(a) /\ ToldStep(b)
  BY <1>2, StepsTold
<1>5. AllTold(<<a, b>>)
  BY <1>4, BegunShort
<1>6. a.do = "append" /\ a.e = e
  BY DEF AppendStep
<1> HIDE DEF a, b
<1>7. <<a, b>> # << >> /\ Head(<<a, b>>) = a
  OBVIOUS
<1>8. Ahead(<<a, b>>)
  BY <1>2, <1>6, <1>7 DEF Ahead
<1> QED
  BY <1>3, <1>5, <1>8 DEF Begun

LEMMA ExpiryTold ==
  ASSUME BookOK, NEW k \in DOMAIN report.diffs, DiffOK(report.diffs[k]), resolve_expiry(k)
  PROVE  Begun(job')
<1>1. PICK day, c, n, i : n \in Nat /\ LET e == Execution(day, "close_short", c, n, "expired_worthless") IN
        job' = <<AppendStep(e), ApplyStep(e, FALSE, i, TRUE)>>
  <2> DEFINE d == report.diffs[k]
             c == [strike |-> d.inst.strike, exp |-> FirstExpiry(d.inst.strike)]
             n == d.exp
             day == DayOf(d.inst.exp)
  <2>1. d.class = "EXPIRED_WORTHLESS_PENDING"
    BY DEF resolve_expiry, Diff
  <2>2. n \in Nat
    BY <2>1 DEF DiffOK
  <2>3. LET e == Execution(day, "close_short", c, n, "expired_worthless") IN
        job' = <<AppendStep(e), ApplyStep(e, FALSE, {k}, TRUE)>>
    BY DEF resolve_expiry, Fix, Start, Diff
  <2> HIDE DEF n, c, day
  <2> QED
    BY <2>2, <2>3
<1> DEFINE e == Execution(day, "close_short", c, n, "expired_worthless")
           a == AppendStep(e)
           b == ApplyStep(e, FALSE, i, TRUE)
<1>2. Told(e) /\ e.act # "adjustment"
  <2>1. n \in Nat
    BY <1>1
  <2>2. e.act # "adjustment"
    BY DEF Execution
  <2> QED
    BY <2>1, <2>2, ExecutionTold
<1>3. job' = <<a, b>>
  BY <1>1
<1> HIDE DEF e
<1>4. ToldStep(a) /\ ToldStep(b) /\ ~Adjusts(a) /\ ~Adjusts(b)
  BY <1>2, StepsTold
<1> HIDE DEF a, b
<1>5. AllTold(<<a, b>>) /\ Quiet(<<a, b>>)
  BY <1>4, BegunShort
<1> QED
  BY <1>3, <1>5 DEF Begun

LEMMA CalledAwayTold ==
  ASSUME BookOK, NEW k \in DOMAIN report.diffs, DiffOK(report.diffs[k]), NEW asked, record_called_away(k, asked)
  PROVE  Begun(job')
<1>0. Equity # Put
  BY DEF Equity, Put
<1>1. PICK c, n, i : n \in Nat /\ job' = _commit_assignment(c, n) \o <<[do |-> "mark", ids |-> i]>> \o HealStep
  <2> DEFINE d == report.diffs[k]
             n == d.exp - d.brk
  <2>1. d.inst = Equity /\ d.brk < d.exp
    BY DEF record_called_away, Diff, _is_share_reduction
  <2>2. n \in Nat
    BY <1>0, <2>1 DEF DiffOK
  <2>3. \E c, i : job' = _commit_assignment(c, n) \o <<[do |-> "mark", ids |-> i]>> \o HealStep
    BY DEF record_called_away, Diff
  <2> HIDE DEF n
  <2> QED
    BY <2>2, <2>3
<1> DEFINE close == Execution(DayOf(c.exp), "close_short", [strike |-> c.strike, exp |-> FirstExpiry(c.strike)],
                              n, "assigned")
           delivery == Execution(DayOf(c.exp), "close_shares_assigned", Equity, n, "assigned")
           x == [do |-> "mark", ids |-> i]
<1>2. DayOf(c.exp) \in Nat
  BY DayOfIs
<1>3. Entry(close) /\ close.act \in Acts /\ Told(close) /\ close.act # "adjustment"
  <2>1. Entry(close) /\ close.act = "close_short"
    BY <1>2, ExecutionIs DEF Acts, Trades
  <2>2. Told(close)
    BY <1>1, ExecutionTold
  <2> QED
    BY <2>1, <2>2 DEF Acts, Trades
<1>4. Entry(delivery) /\ delivery.act \in Acts /\ Told(delivery) /\ delivery.act # "adjustment"
  <2>1. Entry(delivery) /\ delivery.act = "close_shares_assigned"
    BY <1>2, ExecutionIs DEF Acts, Trades
  <2>2. Told(delivery)
    BY <1>1, ExecutionTold
  <2> QED
    BY <2>1, <2>2 DEF Acts, Trades
<1>5. _commit_assignment(c, n) = Booking(close, FALSE) \o Booking(delivery, FALSE)
      \/ _commit_assignment(c, n) = << >> \o Booking(delivery, FALSE)
  BY DEF _commit_assignment
<1>10. ToDo(x) /\ ToldStep(x) /\ ~Adjusts(x)
  <2>1. x.do = "mark"
    OBVIOUS
  <2>2. ToDo(x)
    BY Steps
  <2> QED
    BY <2>1, <2>2, StepsTold
<1> HIDE DEF close, delivery, x
<1>6. JobOK(Booking(close, FALSE)) /\ JobOK(Booking(delivery, FALSE)) /\ JobOK(<< >>)
  BY <1>3, <1>4, Jobs
<1>7. /\ AllTold(Booking(close, FALSE)) /\ AllTold(Booking(delivery, FALSE)) /\ AllTold(<< >>)
      /\ Quiet(Booking(close, FALSE)) /\ Quiet(Booking(delivery, FALSE)) /\ Quiet(<< >>)
  BY <1>3, <1>4, BegunShort
<1> DEFINE p == _commit_assignment(c, n)
<1>8. JobOK(p) /\ AllTold(p) /\ Quiet(p)
  BY <1>5, <1>6, <1>7, BegunJoined
<1>9. JobOK(<<x>>) /\ JobOK(HealStep) /\ AllTold(<<x>>) /\ AllTold(HealStep) /\ Quiet(<<x>>) /\ Quiet(HealStep)
  BY <1>10, Jobs, BegunShort
<1>11. job' = p \o <<x>> \o HealStep
  BY <1>1 DEF x
<1> HIDE DEF p
<1>12. JobOK(p \o <<x>>) /\ AllTold(p \o <<x>>) /\ Quiet(p \o <<x>>)
  BY <1>8, <1>9, BegunJoined
<1>13. AllTold((p \o <<x>>) \o HealStep) /\ Quiet((p \o <<x>>) \o HealStep)
  BY <1>9, <1>12, BegunJoined
<1> QED
  BY <1>11, <1>13 DEF Begun

LEMMA LegsTold ==
  ASSUME BookOK, rebuild_position_from_broker
  PROVE  Begun(job')
<1>1. PICK legs, i :
        job' = <<AppendStep(Execution(0, "position_rebuild", Equity, 0, "broker")),
                 [do |-> "legs", legs |-> legs, ids |-> i]>>
  BY DEF rebuild_position_from_broker, Fix, Start
<1> DEFINE e == Execution(0, "position_rebuild", Equity, 0, "broker")
           a == AppendStep(e)
           b == [do |-> "legs", legs |-> legs, ids |-> i]
<1>2. Told(e) /\ e.act # "adjustment" /\ b.do = "legs"
  BY ExecutionTold DEF Execution
<1>3. job' = <<a, b>>
  BY <1>1
<1> HIDE DEF e, b
<1>4. ToldStep(a) /\ ToldStep(b) /\ ~Adjusts(a) /\ ~Adjusts(b)
  BY <1>2, StepsTold
<1> HIDE DEF a
<1>5. AllTold(<<a, b>>) /\ Quiet(<<a, b>>)
  BY <1>4, BegunShort
<1> QED
  BY <1>3, <1>5 DEF Begun

-----------------------------------------------------------------------------
(* Every step keeps the entries told and a closed position bare.            *)

InTold(l) == \A e \in In(l) : Told(e)
Reported ==
  /\ fetched # << >> => Head(fetched) \in [Inst -> Int]
  /\ \A k \in DOMAIN report.diffs : DiffOK(report.diffs[k])
\* The writes to come are told; the first adjustment is appended before it is applied.
Begins(j) == AllTold(j) /\ (Adjusted \/ Quiet(j) \/ Ahead(j))
Kept == InTold(log) /\ Begins(job) /\ Reported /\ Sound(pos, Untouched)

LEMMA KeptBy ==
  ASSUME Kept, UNCHANGED <<history, log>>, Sound(pos', Untouched), Begins(job'), Reported'
  PROVE  Kept'
<1>1. \A e : Told(e) => Told(e)'
  BY DEF Told
<1>2. (Adjusted <=> Adjusted') /\ (PutFree <=> PutFree')
  BY DEF Adjusted, PutFree
<1>3. InTold(log)'
  BY <1>1 DEF Kept, InTold
<1>4. Begins(job)'
  <2>1. AllTold(job)'
    BY <1>1 DEF Begins, AllTold, ToldStep
  <2> QED
    BY <1>2, <2>1 DEF Begins, Quiet, Ahead
<1>5. Sound(pos, Untouched)'
  <2>1. Untouched' => Untouched
    BY <1>2 DEF Untouched
  <2> QED
    BY <2>1 DEF Sound, Bare
<1> QED
  BY <1>3, <1>4, <1>5 DEF Kept

LEMMA ReportKept ==
  ASSUME Kept, BookOK
  PROVE  /\ UNCHANGED <<report, fetched>> => Reported'
         /\ UNCHANGED report /\ fetched' = << >> => Reported'
         /\ UNCHANGED report /\ fetched' = <<broker>> => Reported'
         /\ Begun(job') => Begins(job')
         /\ job' = job \/ job' = << >> \/ job' = HealStep => Begins(job')
<1>1. UNCHANGED <<report, fetched>> => Reported'
  BY DEF Kept, Reported
<1>2. UNCHANGED report /\ fetched' = << >> => Reported'
  BY DEF Kept, Reported
<1>3. ASSUME UNCHANGED report, fetched' = <<broker>> PROVE Reported'
  <2>1. Head(fetched') \in [Inst -> Int]
    BY <1>3 DEF BookOK
  <2> QED
    BY <1>3, <2>1 DEF Kept, Reported
<1>4. Begun(job') => Begins(job')
  BY DEF Begun, Begins
<1>5. job' = job \/ job' = << >> \/ job' = HealStep => Begins(job')
  BY BegunShort DEF Kept, Begins
<1> QED
  BY <1>1, <1>2, <1>3, <1>4, <1>5

\* The writes left when the first is done.
LEMMA TailTold ==
  ASSUME BookOK, Kept, job # << >>
  PROVE  /\ ToldStep(Head(job)) /\ AllTold(Tail(job))
         /\ Head(job).do # "append" => Begins(Tail(job))
         /\ Adjusts(Head(job)) => Adjusted
         /\ Head(job).do = "append" /\ Head(job).e.act # "adjustment" => Adjusted \/ Quiet(Tail(job))
<1> DEFINE j == job
           t == Tail(job)
<1>1. Head(j) \in In(j) /\ In(t) \subseteq In(j)
  BY InTail DEF BookOK, JobOK
<1>2. AllTold(j) /\ (Adjusted \/ Quiet(j) \/ Ahead(j))
  BY DEF Kept, Begins
<1> HIDE DEF j, t
<1>3. ToldStep(Head(j)) /\ AllTold(t) /\ (Quiet(j) => Quiet(t) /\ ~Adjusts(Head(j)))
  BY <1>1, <1>2 DEF AllTold, Quiet
<1>4. Head(j).do # "append" => ~Ahead(j)
  BY DEF Ahead
<1>5. Adjusts(Head(j)) => ~Ahead(j)
  BY DEF Ahead, Adjusts
<1>6. Head(j).e.act # "adjustment" => ~Ahead(j)
  BY DEF Ahead
<1>7. /\ ToldStep(Head(j)) /\ AllTold(t)
      /\ Head(j).do # "append" => Begins(t)
      /\ Adjusts(Head(j)) => Adjusted
      /\ Head(j).do = "append" /\ Head(j).e.act # "adjustment" => Adjusted \/ Quiet(t)
  BY <1>2, <1>3, <1>4, <1>5, <1>6 DEF Begins
<1> QED
  BY <1>7 DEF j, t

LEMMA SoundHere ==
  ASSUME BookOK, Kept
  PROVE  /\ Whole(pos) /\ pos.calls \in Seq(Legs) /\ pos.shares \in Int
         /\ Sound(pos, Untouched)
         /\ Untouched => PutFree
         /\ \A rep, res : Sound(reevaluate_freezes(pos, rep, res), Untouched)
<1>1. Whole(pos) /\ pos.calls \in Seq(Legs) /\ Sound(pos, Untouched)
  BY DEF BookOK, Kept
<1>2. pos.shares \in Int /\ (Untouched => pos.puts = 0)
  BY <1>1 DEF Sound, Bare
<1>3. Untouched => PutFree
  BY DEF Untouched
<1> DEFINE u == Untouched
<1>4. Sound(pos, u) /\ (u => pos.puts = 0)
  BY <1>1, <1>2
<1> HIDE DEF u
<1>5. \A rep, res : Sound(reevaluate_freezes(pos, rep, res), u)
  BY <1>1, <1>2, <1>4, SoundRestated
<1> QED
  BY <1>1, <1>2, <1>3, <1>5 DEF u

LEMMA KeptTrading == ASSUME BookOK, Kept, BrokerStep PROVE Kept'
<1>1. UNCHANGED <<log, pos, report, job, fetched>> /\ Grown
  BY Trading DEF BookOK, Grown, book, recon
<1>2. /\ DOMAIN history \subseteq DOMAIN history' /\ \A i \in DOMAIN history : history'[i] = history[i]
  BY <1>1, Remembered
<1>3. \A e : Told(e) => Told(e)'
  <2> SUFFICES ASSUME NEW e, Told(e) PROVE Told(e)'
    OBVIOUS
  <2>1. CASE \E i \in DOMAIN history : e.day = 2 * i /\ history[i].act \in Trades /\ history[i] = Event(e.act, e.c)
    <3>1. \E i \in DOMAIN history' : e.day = 2 * i /\ history'[i].act \in Trades /\ history'[i] = Event(e.act, e.c)
      BY <1>2, <2>1
    <3> QED
      BY <3>1 DEF Told
  <2>2. CASE ~\E i \in DOMAIN history : e.day = 2 * i /\ history[i].act \in Trades /\ history[i] = Event(e.act, e.c)
    BY <2>2 DEF Told
  <2> QED
    BY <2>1, <2>2
<1>4. (Adjusted <=> Adjusted') /\ (PutFree' => PutFree)
  BY <1>1, <1>2 DEF Adjusted, PutFree
<1>5. InTold(log)' /\ AllTold(job)'
  BY <1>1, <1>3 DEF Kept, Begins, InTold, AllTold, ToldStep
<1>6. Begins(job)'
  BY <1>1, <1>4, <1>5 DEF Kept, Begins, Quiet, Ahead
<1>7. Sound(pos, Untouched)'
  <2>1. Untouched' => Untouched
    BY <1>4 DEF Untouched
  <2> QED
    BY <1>1, <2>1 DEF Kept, Sound, Bare
<1>8. Reported'
  BY <1>1 DEF Kept, Reported
<1> QED
  BY <1>5, <1>6, <1>7, <1>8 DEF Kept

LEMMA KeptRun == ASSUME BookOK, Kept, run_reconciliation PROVE Kept'
<1>1. /\ UNCHANGED <<history, log>> /\ fetched # << >> /\ fetched' = << >>
      /\ pos' = reevaluate_freezes(pos, report', resolutions)
      /\ job' = job \/ job' = HealStep
      /\ \E closes \in SUBSET Expiries :
           report'.diffs = reconcile(Head(fetched), expected_view_from_state, closes)
  BY DEF run_reconciliation, market, HealStep
<1>2. Expected(expected_view_from_state) /\ Head(fetched) \in [Inst -> Int]
  BY <1>1, ViewIs, SoundHere DEF Kept, Reported
<1> DEFINE b == Head(fetched)
           x == expected_view_from_state
           diffs == report'.diffs
<1>3. b \in [Inst -> Int] /\ Expected(x) /\ \E closes \in SUBSET Expiries : diffs = reconcile(b, x, closes)
  BY <1>1, <1>2
<1> HIDE DEF b, x
<1>4. \A k \in DOMAIN diffs : DiffOK(diffs[k])
  BY <1>3, DifferencesAre
<1> HIDE DEF diffs
<1>5. Reported'
  BY <1>1, <1>4 DEF Reported, diffs
<1>6. Sound(pos', Untouched)
  BY <1>1, SoundHere
<1> QED
  BY <1>1, <1>5, <1>6, ReportKept, KeptBy

LEMMA KeptAppend == ASSUME BookOK, Kept, append_execution PROVE Kept'
<1> DEFINE s == Head(job)
<1>1. /\ job # << >> /\ s.do = "append" /\ log' = Append(log, s.e) /\ job' = Tail(job)
      /\ UNCHANGED <<history, pos, report, fetched>>
  BY DEF append_execution, market
<1>2. ToldStep(s) /\ AllTold(job') /\ (s.e.act # "adjustment" => Adjusted \/ Quiet(job'))
  BY <1>1, TailTold
<1> HIDE DEF s
<1>3. Told(s.e)
  BY <1>1, <1>2 DEF ToldStep
<1>4. In(log') = In(log) \union {s.e}
  BY <1>1, InAppend DEF BookOK, LogOK
<1>5. \A e : Told(e) => Told(e)'
  BY <1>1 DEF Told
<1>6. InTold(log)'
  BY <1>3, <1>4, <1>5 DEF Kept, InTold
<1>7. AllTold(job)'
  BY <1>2, <1>5 DEF AllTold, ToldStep
<1>8. (Adjusted => Adjusted') /\ (s.e.act = "adjustment" => Adjusted')
  BY <1>4 DEF Adjusted
<1>9. Begins(job)'
  BY <1>2, <1>7, <1>8 DEF Begins, Quiet
<1>10. Sound(pos, Untouched)'
  <2>1. Untouched' => Untouched
    BY <1>1, <1>8 DEF Untouched, PutFree
  <2> QED
    BY <1>1, <2>1 DEF Kept, Sound, Bare
<1>11. Reported'
  BY <1>1 DEF Kept, Reported
<1> QED
  BY <1>6, <1>9, <1>10, <1>11 DEF Kept

LEMMA KeptApply == ASSUME BookOK, Kept, apply PROVE Kept'
<1> DEFINE s == Head(job)
<1>1. /\ job # << >> /\ s.do = "apply" /\ UNCHANGED <<history, log, report, fetched>>
      /\ \/ job' = << >> /\ UNCHANGED pos
         \/ pos' = Applied(s, resolutions') /\ job' = Tail(job)
  BY DEF apply, market
<1>2. /\ ToDo(s) /\ ToldStep(s) /\ (Adjusts(s) => Adjusted) /\ Begins(Tail(job))
  BY <1>1, NextStep, TailTold DEF BookOK
<1> HIDE DEF s
<1>3. Entry(s.e) /\ s.e.act \in Acts /\ Told(s.e) /\ (s.e.act = "adjustment" => Adjusted)
  BY <1>1, <1>2 DEF ToDo, ToldStep, Adjusts
<1> DEFINE u == Untouched
           start == _ensure_position(pos)
           p == position_update(start, s.e)
           q == IF s.tidy THEN _close_if_empty(p) ELSE p
<1>4. /\ Whole(pos) /\ pos.calls \in Seq(Legs) /\ pos.shares \in Int /\ Sound(pos, u) /\ (u => PutFree)
      /\ (u => ~Adjusted)
  BY SoundHere DEF Untouched
<1> HIDE DEF u
<1>5. u => pos.puts = 0
  BY <1>4 DEF Sound, Bare
<1>6. Whole(start) /\ start.calls \in Seq(Legs) /\ Sound(start, u)
  <2>1. Restated(start, pos)
    BY <1>4, Restates
  <2>2. Sound(start, u)
    BY <1>4, <1>5, SoundRestated
  <2> QED
    BY <1>4, <2>1, <2>2 DEF Restated
<1> HIDE DEF start
<1>7. s.e.act = "adjustment" => ~u
  BY <1>3, <1>4
<1>8. Sound(p, u)
  BY <1>3, <1>4, <1>6, <1>7, SoundUpdate
<1>9. Whole(p)
  BY <1>3, <1>6, Updates DEF Updated
<1> HIDE DEF p
<1>10. p.shares \in Int /\ (u => p.puts = 0)
  BY <1>8 DEF Sound, Bare
<1>11. Sound(_close_if_empty(p), u) /\ Whole(_close_if_empty(p))
  BY <1>8, <1>9, <1>10, SoundRestated, Restates DEF Restated
<1>12. Sound(q, u) /\ Whole(q)
  BY <1>8, <1>9, <1>11
<1>13. Applied(s, resolutions') = q \/ Applied(s, resolutions') = reevaluate_freezes(q, report, resolutions')
  BY DEF Applied, q, p, start
<1> HIDE DEF q
<1>14. q.shares \in Int /\ (u => q.puts = 0)
  BY <1>12 DEF Sound, Bare
<1>15. Sound(reevaluate_freezes(q, report, resolutions'), u)
  BY <1>12, <1>14, SoundRestated
<1>16. Sound(pos', u)
  BY <1>1, <1>4, <1>12, <1>13, <1>15
<1>17. Begins(job') /\ Reported'
  BY <1>1, <1>2, ReportKept
<1> QED
  BY <1>1, <1>16, <1>17, KeptBy DEF u

LEMMA LotsHere == ASSUME BookOK, Kept PROVE Lots(log) \in Int
<1>1. \A e : Told(e) => e.n \in Int
  BY DEF Told
<1>2. \A e \in In(log) : e.n \in Int
  BY <1>1 DEF Kept, InTold
<1> QED
  BY <1>2, LotsTyped DEF BookOK

LEMMA KeptSet == ASSUME BookOK, Kept, set_legs PROVE Kept'
<1> DEFINE s == Head(job)
           u == Untouched
           q == Rederived(WithCalls(pos, s.legs))
<1>1. /\ job # << >> /\ s.do = "legs" /\ job' = Tail(job) /\ UNCHANGED <<history, log, report, fetched>>
      /\ pos' = reevaluate_freezes(q, report, resolutions')
  BY DEF set_legs, WithCalls, market
<1>2. Begins(job')
  BY <1>1, TailTold
<1>3. Whole(pos) /\ Sound(pos, u)
  BY SoundHere
<1> HIDE DEF s, u
<1>4. Sound(q, u)
  BY <1>3, LotsHere, SoundRebuilt
<1>5. Whole(q)
  BY <1>3, Fields, Restates DEF Restated
<1> HIDE DEF q
<1>6. q.shares \in Int /\ (u => q.puts = 0)
  BY <1>4 DEF Sound, Bare
<1>7. Sound(pos', u)
  BY <1>1, <1>4, <1>5, <1>6, SoundRestated
<1> QED
  BY <1>1, <1>2, <1>7, ReportKept, KeptBy DEF u

LEMMA KeptHeal == ASSUME BookOK, Kept, heal PROVE Kept'
<1> DEFINE u == Untouched
           a == RebuiltShares(pos)
           b == RebuiltCalls(pos)
           d == RebuiltCalls(a)
<1>1. /\ job # << >> /\ Head(job).do = "heal" /\ job' = Tail(job) /\ UNCHANGED <<history, log, report, fetched>>
      /\ pos' = pos \/ \E q \in {a, b, d} : pos' = reevaluate_freezes(q, report, resolutions)
  BY DEF heal, market, recon
<1>2. Begins(job')
  BY <1>1, TailTold
<1>3. Whole(pos) /\ Sound(pos, u) /\ pos.calls \in Seq(Legs)
  BY SoundHere
<1> HIDE DEF u
<1>4. Sound(a, u) /\ Sound(b, u) /\ Whole(a) /\ Whole(b) /\ a.calls \in Seq(Legs)
  BY <1>3, LotsHere, SoundRebuilt, RebuiltIs
<1> HIDE DEF a, b
<1>5. Sound(d, u) /\ Whole(d)
  BY <1>4, LotsHere, SoundRebuilt, RebuiltIs
<1> HIDE DEF d
<1>6. ASSUME NEW q \in {a, b, d} PROVE Sound(reevaluate_freezes(q, report, resolutions), u)
  <2>1. Sound(q, u) /\ Whole(q)
    BY <1>4, <1>5
  <2>2. q.shares \in Int /\ (u => q.puts = 0)
    BY <2>1 DEF Sound, Bare
  <2> QED
    BY <2>1, <2>2, SoundRestated
<1>7. Sound(pos', u)
  BY <1>1, <1>3, <1>6
<1> QED
  BY <1>1, <1>2, <1>7, ReportKept, KeptBy DEF u

LEMMA KeptRebuild == ASSUME BookOK, Kept, rebuild_from_log PROVE Kept'
<1> DEFINE u == Untouched
           a == RebuiltShares(pos)
           b == RebuiltCalls(pos)
<1>1. /\ UNCHANGED <<history, log, report, fetched, job>>
      /\ \E q \in {a, b} : pos' = reevaluate_freezes(q, report, resolutions)
  BY DEF rebuild_from_log, market, recon
<1>2. Whole(pos) /\ Sound(pos, u) /\ pos.calls \in Seq(Legs)
  BY SoundHere
<1> HIDE DEF u
<1>3. Sound(a, u) /\ Sound(b, u) /\ Whole(a) /\ Whole(b)
  BY <1>2, LotsHere, SoundRebuilt, RebuiltIs
<1> HIDE DEF a, b
<1>4. ASSUME NEW q \in {a, b} PROVE Sound(reevaluate_freezes(q, report, resolutions), u)
  <2>1. Sound(q, u) /\ Whole(q)
    BY <1>3
  <2>2. q.shares \in Int /\ (u => q.puts = 0)
    BY <2>1 DEF Sound, Bare
  <2> QED
    BY <2>1, <2>2, SoundRestated
<1>5. Sound(pos', u)
  BY <1>1, <1>4
<1> QED
  BY <1>1, <1>5, ReportKept, KeptBy DEF u

LEMMA KeptVoid ==
  ASSUME BookOK, Kept, NEW k \in DOMAIN log, NEW v, SetVoid(k, v)
  PROVE  Kept'
<1> DEFINE x == [log[k] EXCEPT !.void = v]
<1>1. /\ UNCHANGED <<history, pos, report, fetched>> /\ job' = HealStep
      /\ log' = [log EXCEPT ![k] = x]
  BY DEF SetVoid, market, recon
<1>2. Entry(log[k]) /\ log[k] \in In(log)
  BY AnySeq DEF BookOK, LogOK, In
<1>3. x.day = log[k].day /\ x.act = log[k].act /\ x.c = log[k].c /\ x.n = log[k].n /\ x.why = log[k].why
  OBVIOUS
<1> HIDE DEF x
<1>4. In(log') \subseteq In(log) \union {x} /\ x \in In(log') /\ \A y \in In(log) : y = log[k] \/ y \in In(log')
  BY <1>1, InWritten DEF BookOK, LogOK
<1>5. Told(log[k]) => Told(x)
  BY <1>3 DEF Told
<1>6. \A e : Told(e) => Told(e)'
  BY <1>1 DEF Told
<1>7. InTold(log)'
  BY <1>2, <1>4, <1>5, <1>6 DEF Kept, InTold
<1>8. Adjusted => Adjusted'
  BY <1>3, <1>4 DEF Adjusted
<1>9. Begins(job)'
  <2>1. AllTold(HealStep) /\ Quiet(HealStep)
    BY BegunShort
  <2>2. AllTold(job)'
    BY <1>1, <1>6, <2>1 DEF AllTold, ToldStep
  <2> QED
    BY <1>1, <2>1, <2>2 DEF Begins, Quiet
<1>10. Sound(pos, Untouched)'
  <2>1. Untouched' => Untouched
    BY <1>1, <1>8 DEF Untouched, PutFree
  <2> QED
    BY <1>1, <2>1 DEF Kept, Sound, Bare
<1>11. Reported'
  BY <1>1 DEF Kept, Reported
<1> QED
  BY <1>7, <1>9, <1>10, <1>11 DEF Kept

LEMMA KeptInit == Init => Kept
<1> SUFFICES ASSUME Init PROVE Kept
  OBVIOUS
<1>1. /\ log = << >> /\ job = << >> /\ fetched = << >> /\ report = NoReport
      /\ pos.status = None /\ pos.shares = 0 /\ pos.puts = 0
  BY DEF Init
<1>2. InTold(log)
  BY <1>1, InShort DEF InTold
<1>3. Begins(job)
  BY <1>1, BegunShort DEF Begins
<1>4. Reported
  BY <1>1 DEF Reported, NoReport
<1>5. Sound(pos, Untouched)
  BY <1>1 DEF Sound, Bare, None
<1> QED
  BY <1>2, <1>3, <1>4, <1>5 DEF Kept

LEMMA KeptNext == ASSUME BookOK, Kept, Next PROVE Kept'
<1>0. Sound(pos, Untouched) /\ \A rep, res : Sound(reevaluate_freezes(pos, rep, res), Untouched)
  BY SoundHere
<1>1. ASSUME UNCHANGED <<history, log, report>>, Sound(pos', Untouched), Begins(job'),
             UNCHANGED fetched \/ fetched' = << >> \/ fetched' = <<broker>>
      PROVE  Kept'
  BY <1>1, ReportKept, KeptBy
<1>2. ASSUME UNCHANGED <<market, book, fetched>>, Begun(job') PROVE Kept'
  <2>1. UNCHANGED <<history, log, report, pos, fetched>>
    BY <1>2 DEF market, book, recon
  <2> QED
    BY <1>0, <1>1, <1>2, <2>1, ReportKept
<1>3. CASE Fetch
  <2>1. UNCHANGED <<history, log, report, pos, job>> /\ fetched' = <<broker>>
    BY <1>3 DEF Fetch, market, book, recon
  <2> QED
    BY <1>0, <1>1, <2>1, ReportKept
<1>4. CASE FetchFails
  <2>1. UNCHANGED <<history, log, pos, job, fetched>> /\ report' = NoReport
    BY <1>4 DEF FetchFails, FailedRun, market
  <2>2. Reported'
    BY <2>1 DEF Kept, Reported, NoReport
  <2> QED
    BY <1>0, <2>1, <2>2, ReportKept, KeptBy
<1>5. CASE mark_diff_resolved
  <2>1. /\ UNCHANGED <<history, log, report, fetched>> /\ job # << >> /\ Head(job).do = "mark" /\ job' = Tail(job)
        /\ pos' = pos \/ pos' = reevaluate_freezes(pos, report, resolutions')
    BY <1>5 DEF mark_diff_resolved, market
  <2>2. Begins(job')
    BY <2>1, TailTold
  <2>3. Sound(pos', Untouched)
    BY <1>0, <2>1
  <2> QED
    BY <1>1, <2>1, <2>2, <2>3
<1>6. ASSUME NEW k \in DOMAIN report.diffs, acknowledge_diff(k) PROVE Kept'
  <2>1. /\ UNCHANGED <<history, log, report, fetched, job>>
        /\ pos' = reevaluate_freezes(pos, report, resolutions')
    BY <1>6 DEF acknowledge_diff, market
  <2>2. Sound(pos', Untouched)
    BY <1>0, <2>1
  <2> QED
    BY <1>1, <2>1, <2>2, ReportKept
<1>7. CASE Crash
  <2>1. UNCHANGED <<history, log, pos, report>> /\ job' = << >> /\ fetched' = << >>
    BY <1>7 DEF Crash, market, book, recon
  <2> QED
    BY <1>0, <1>1, <2>1, ReportKept
<1>8. ASSUME NEW i \in DOMAIN history, _commit(i) \/ adopt_broker_trade(i) PROVE Kept'
  BY <1>2, <1>8, CommitIs, CommitTold
<1>9. CASE rebuild_position_from_broker
  BY <1>2, <1>9, LegsIs, LegsTold
<1>10. ASSUME NEW k \in DOMAIN report.diffs PROVE DiffOK(report.diffs[k])
  BY DEF Kept, Reported
<1>11. ASSUME NEW k \in DOMAIN report.diffs, _adjustment(k) \/ resolve_expiry(k) PROVE Kept'
  BY <1>2, <1>10, <1>11, AdjustmentIs, ExpiryIs, AdjustmentTold, ExpiryTold
<1>12. ASSUME NEW k \in DOMAIN report.diffs, NEW asked, record_called_away(k, asked) PROVE Kept'
  BY <1>2, <1>10, <1>12, CalledAwayIs, CalledAwayTold
<1> QED
  BY <1>3, <1>4, <1>5, <1>6, <1>7, <1>8, <1>9, <1>11, <1>12, KeptTrading, KeptRun, KeptAppend, KeptApply, KeptSet,
     KeptHeal, KeptRebuild, KeptVoid
     DEF Next, JobStep, Repair

LEMMA KeptSame == ASSUME BookOK, Kept, UNCHANGED vars PROVE Kept'
<1>1. UNCHANGED <<history, log, report, pos, job, fetched>>
  BY DEF vars
<1>2. Sound(pos', Untouched)
  BY <1>1, SoundHere
<1> QED
  BY <1>1, <1>2, ReportKept, KeptBy

LEMMA ClosedIsBare == ASSUME BookOK, Kept PROVE ClosedHoldsNothing
<1> SUFFICES ASSUME pos.status = "closed", PutFree, \A k \in DOMAIN log : log[k].act # "adjustment"
             PROVE  Empty(pos)
  BY DEF ClosedHoldsNothing
<1>1. Untouched
  BY DEF Untouched, Adjusted, In
<1> QED
  BY <1>1 DEF Kept, Sound, Bare, Empty

-----------------------------------------------------------------------------
(* The entries of a true log against the history.                           *)

OfHistory(e) ==
  /\ e.why = "trade" /\ e.n = 1
  /\ \E i \in 1..Len(history) : e.day = 2 * i /\ history[i].act \in Trades /\ history[i] = Event(e.act, e.c)
Settles(e) ==
  /\ e.why # "trade" /\ e.n \in Nat
  /\ \/ e.act = "close_short" /\ e.c \in Contracts /\ e.day = expday[e.c.exp]
     \/ e.act = "close_shares_assigned" /\ \E x \in Expiries : Past(x) /\ e.day = expday[x]
Fixes(e) == e.why # "trade" /\ e.act \in {"adjustment", "position_rebuild"} /\ e.day = 0
\* An entry of a true log, and the one entry of a trade.
TrueEntry(e) == OfHistory(e) \/ Settles(e) \/ Fixes(e)
OneOf(i) == \E k \in 1..Len(log) : /\ log[k].day = 2 * i /\ log[k].why = "trade"
                                   /\ history[i] = Event(log[k].act, log[k].c)
                                   /\ \A j \in 1..Len(log) : log[j].day = 2 * i => j = k
\* A true log with the account it is about.
Facts ==
  /\ Len(log) \in Nat /\ DOMAIN log = 1..Len(log) /\ Standing(log) = 1..Len(log)
  /\ Len(history) \in Nat /\ DOMAIN history = 1..Len(history) /\ history \in Seq(Events)
  /\ \A k \in 1..Len(log) : Entry(log[k]) /\ TrueEntry(log[k])
  /\ \A i \in 1..Len(history) : history[i].act \in Trades => OneOf(i)
  /\ expday \in [Expiries -> Nat]
  /\ Counted /\ Dated

LEMMA SettledOdd ==
  ASSUME BookOK, Dated, NEW e, Settles(e) \/ Fixes(e), NEW i \in 1..Len(history)
  PROVE  e.day # 2 * i
<1>1. i \in Nat /\ i >= 1 /\ Len(history) \in Nat
  BY SeqFacts DEF BookOK
<1>2. CASE e.day = 0
  BY <1>1, <1>2
<1>3. CASE \E x \in Expiries : e.day = expday[x]
  <2>1. e.day = 0 \/ \E m \in 0..Len(history) : e.day = 2 * m + 1
    BY <1>3 DEF Dated
  <2> DEFINE d == e.day
  <2>2. ASSUME NEW m \in 0..Len(history), d = 2 * m + 1 PROVE d # 2 * i
    BY <1>1, <2>2
  <2> QED
    BY <1>2, <2>1, <2>2
<1> QED
  BY <1>2, <1>3 DEF Settles, Fixes, Contracts

LEMMA FactsAre ==
  ASSUME BookOK, Account, InTold(log), TrueLog
  PROVE  Facts
<1>0. Counted /\ Dated /\ expday \in [Expiries -> Nat]
  BY DEF Account, BookOK
<1>1. Len(log) \in Nat /\ DOMAIN log = 1..Len(log) /\ \A k \in 1..Len(log) : Entry(log[k])
  BY AnySeq DEF BookOK, LogOK
<1>2. Len(history) \in Nat /\ DOMAIN history = 1..Len(history) /\ history \in Seq(Events)
  BY SeqFacts DEF BookOK
<1>3. Standing(log) = 1..Len(log)
  BY <1>1 DEF TrueLog, Standing
<1>4. ASSUME NEW k \in 1..Len(log) PROVE TrueEntry(log[k])
  <2> DEFINE e == log[k]
  <2>1. /\ Told(e)
        /\ e.act \in {"close_short", "close_shares_assigned"} => e.why = "trade" \/ Settlement(e)
    BY <1>1 DEF InTold, In, TrueLog
  <2> HIDE DEF e
  <2>2. TrueEntry(e)
    BY <1>2, <2>1 DEF Told, TrueEntry, OfHistory, Settles, Fixes, Settlement
  <2> QED
    BY <2>2 DEF e
<1>5. ASSUME NEW i \in 1..Len(history), history[i].act \in Trades PROVE OneOf(i)
  <2> DEFINE K == {k \in DOMAIN log : log[k].day = 2 * i}
  <2>1. Cardinality(K) = 1
    BY <1>2, <1>5 DEF TrueLog
  <2>2. IsFiniteSet(K)
    <3>1. IsFiniteSet(1..Len(log)) /\ K \in SUBSET (1..Len(log))
      BY <1>1, FS_Interval
    <3> HIDE DEF K
    <3> QED
      BY <3>1, FS_Subset
  <2>3. \E k : K = {k}
    <3> HIDE DEF K
    <3> QED
      BY <2>1, <2>2, FS_Singleton
  <2>4. PICK k : K = {k}
    BY <2>3
  <2>5. k \in 1..Len(log) /\ log[k].day = 2 * i /\ \A j \in 1..Len(log) : log[j].day = 2 * i => j = k
    <3>1. k \in K /\ \A j \in K : j = k
      BY <2>4
    <3> QED
      BY <1>1, <3>1
  <2>6. OfHistory(log[k])
    BY <1>0, <1>4, <2>5, SettledOdd DEF TrueEntry
  <2> DEFINE e == log[k]
  <2>7. PICK j \in 1..Len(history) : e.day = 2 * j /\ history[j] = Event(e.act, e.c)
    BY <2>6 DEF OfHistory
  <2>8. j = i
    BY <1>2, <2>5, <2>7
  <2> QED
    BY <2>5, <2>6, <2>7, <2>8 DEF OneOf, OfHistory
<1> QED
  BY <1>0, <1>1, <1>2, <1>3, <1>4, <1>5 DEF Facts

\* The trades of the log that are in C, up to a day.
Trading0(C, d) == {k \in 1..Len(log) : log[k].why = "trade" /\ Event(log[k].act, log[k].c) \in C /\ log[k].day <= d}

LEMMA TradesByDay ==
  ASSUME Facts, NEW C, \A x \in C : x.act \in Trades, NEW d \in Nat
  PROVE  /\ SumOf(Sizes(log), Trading0(C, d)) = By(history, C, d)
         /\ Numbers(Sizes(log), Trading0(C, d))
<1> DEFINE I == {i \in DOMAIN history : history[i] \in C /\ 2 * i <= d}
           K == Trading0(C, d)
           g == [k \in K |-> CHOOSE i \in 1..Len(history) : log[k].day = 2 * i /\ history[i] = Event(log[k].act, log[k].c)]
<1>0. /\ DOMAIN history = 1..Len(history) /\ Len(history) \in Nat /\ Len(log) \in Nat /\ DOMAIN log = 1..Len(log)
      /\ \A k \in 1..Len(log) : TrueEntry(log[k])
  BY DEF Facts
<1>1. ASSUME NEW k \in K
      PROVE  /\ log[k].n = 1 /\ k \in 1..Len(log)
             /\ g[k] \in I /\ log[k].day = 2 * g[k]
  <2>1. k \in 1..Len(log) /\ log[k].why = "trade" /\ Event(log[k].act, log[k].c) \in C /\ log[k].day <= d
    BY DEF Trading0
  <2>2. OfHistory(log[k])
    BY <1>0, <2>1 DEF TrueEntry, Settles, Fixes
  <2>3. \E i \in 1..Len(history) : log[k].day = 2 * i /\ history[i] = Event(log[k].act, log[k].c)
    BY <2>2 DEF OfHistory
  <2>4. g[k] \in 1..Len(history) /\ log[k].day = 2 * g[k] /\ history[g[k]] = Event(log[k].act, log[k].c)
    BY <2>3
  <2> HIDE DEF g
  <2>5. g[k] \in I
    BY <1>0, <2>1, <2>4
  <2> QED
    BY <2>1, <2>2, <2>4, <2>5 DEF OfHistory
<1>2. ASSUME NEW i \in I PROVE \E k \in K : g[k] = i
  <2>1. i \in 1..Len(history) /\ history[i] \in C /\ 2 * i <= d /\ history[i].act \in Trades
    BY <1>0
  <2>2. PICK k \in 1..Len(log) : /\ log[k].day = 2 * i /\ log[k].why = "trade"
                                 /\ history[i] = Event(log[k].act, log[k].c)
    BY <2>1 DEF Facts, OneOf
  <2>3. k \in K
    BY <2>1, <2>2 DEF Trading0
  <2>4. g[k] \in 1..Len(history) /\ 2 * g[k] = 2 * i
    BY <1>0, <1>1, <2>2, <2>3
  <2> DEFINE a == g[k]
  <2>5. a = i
    <3>1. a \in 1..Len(history) /\ 2 * a = 2 * i
      BY <2>4
    <3> HIDE DEF a
    <3> QED
      BY <1>0, <2>1, <3>1
  <2> QED
    BY <2>3, <2>5
<1>3. ASSUME NEW j \in K, NEW k \in K, g[j] = g[k] PROVE j = k
  <2>1. log[j].day = 2 * g[k] /\ log[k].day = 2 * g[k] /\ g[k] \in I
    BY <1>1, <1>3
  <2> DEFINE i == g[k]
  <2>2. i \in 1..Len(history) /\ history[i] \in C /\ log[j].day = 2 * i /\ log[k].day = 2 * i
    BY <1>0, <2>1
  <2> HIDE DEF i
  <2>3. history[i].act \in Trades
    BY <2>2
  <2>4. OneOf(i)
    BY <2>2, <2>3 DEF Facts
  <2> QED
    BY <1>1, <2>2, <2>4 DEF OneOf
<1>4. g \in Bijection(K, I)
  <2>1. g \in [K -> I]
    <3>1. \A k \in K : g[k] \in I
      BY <1>1
    <3>2. g = [k \in K |-> g[k]]
      OBVIOUS
    <3> HIDE DEF g, K, I
    <3> QED
      BY <3>1, <3>2
  <2> HIDE DEF g, K, I
  <2>2. \A a, b \in K : g[a] = g[b] => a = b
    BY <1>3
  <2>3. \A i \in I : \E k \in K : g[k] = i
    BY <1>2
  <2>4. g \in Injection(K, I)
    BY <2>1, <2>2 DEF Injection, IsInjective
  <2>5. g \in Surjection(K, I)
    BY <2>1, <2>3 DEF Surjection
  <2> QED
    BY <2>4, <2>5 DEF Bijection
<1>5. IsFiniteSet(K)
  <2>1. IsFiniteSet(1..Len(log)) /\ K \in SUBSET (1..Len(log))
    BY <1>0, FS_Interval DEF Trading0
  <2> HIDE DEF K
  <2> QED
    BY <2>1, FS_Subset
<1> HIDE DEF g
<1>6. \A k \in K : Sizes(log)[k] = 1
  BY <1>0, <1>1 DEF Sizes
<1> HIDE DEF K, I
<1>7. Cardinality(I) = Cardinality(K)
  BY <1>4, <1>5, FS_Bijection DEF ExistsBijection
<1>8. SumOf(Sizes(log), K) = Cardinality(K) /\ Numbers(Sizes(log), K)
  BY <1>5, <1>6, SumOnes
<1> QED
  BY <1>7, <1>8 DEF By, I, K

-----------------------------------------------------------------------------
(* What the log closes, by contract and by day.                             *)

\* What the log settles of a contract up to a day.
Settling(c, d) ==
  {k \in 1..Len(log) : log[k].why # "trade" /\ log[k].act = "close_short" /\ log[k].c = c /\ log[k].day <= d}
Spread == 1..Len(log)

LEMMA NumbersOf ==
  ASSUME Facts, NEW K \in SUBSET Spread, \A k \in K : log[k].act \notin {"adjustment", "position_rebuild"}
  PROVE  Numbers(Sizes(log), K)
<1>1. Len(log) \in Nat /\ DOMAIN log = Spread
  BY DEF Facts, Spread
<1>2. IsFiniteSet(K)
  <2>1. IsFiniteSet(Spread)
    BY <1>1, FS_Interval DEF Spread
  <2> QED
    BY <2>1, FS_Subset
<1>3. \A k \in K : log[k].n \in Int
  BY DEF Facts, TrueEntry, OfHistory, Settles, Fixes, Spread
<1> QED
  BY <1>1, <1>2, <1>3 DEF Numbers, Sizes

LEMMA ShutAll ==
  ASSUME Facts, TrueLog, NEW c \in Contracts
  PROVE  SumOf(Sizes(log), Shut(log, Spread, c)) = Tally(history, {Back(c)}) + Tally(history, Gone(c))
<1> DEFINE K == {j \in DOMAIN log : log[j].act \in {"close_short"} /\ log[j].c = c}
           g == [k \in K |-> log[k].n]
           I == {i \in DOMAIN history : history[i].act \in {"close_short", "called_away", "expired"} /\ history[i].c = c}
<1>1. Total(g) = Cardinality(I)
  BY DEF TrueLog, Booked, Happened
<1>2. K = Shut(log, Spread, c)
  BY DEF Facts, Shut, Spread
<1>3. Total(g) = SumOf(Sizes(log), K)
  <2>1. \A x \in DOMAIN g : g[x] = Sizes(log)[x]
    BY DEF Sizes
  <2>2. DOMAIN g = K
    OBVIOUS
  <2> HIDE DEF g, K
  <2> QED
    BY <2>1, <2>2, TotalIs
<1>4. Cardinality(I) = Tally(history, {Back(c)} \union Gone(c))
  <2>1. ASSUME NEW i \in DOMAIN history
        PROVE  history[i].act \in {"close_short", "called_away", "expired"} /\ history[i].c = c
                 <=> history[i] \in {Back(c)} \union Gone(c)
    <3>1. history[i] \in Events
      BY SeqFacts DEF Facts
    <3> DEFINE h == history[i]
    <3>2. h = Event(h.act, h.c)
      BY <3>1 DEF Events, Event
    <3> HIDE DEF h
    <3>3. h.act \in {"close_short", "called_away", "expired"} /\ h.c = c <=> h \in {Back(c)} \union Gone(c)
      <4>1. \A act, x : /\ Event(act, c).act = act /\ Event(act, c).c = c
        BY DEF Event
      <4>2. Back(c) = Event("close_short", c)
        BY DEF Back, Event
      <4> QED
        BY <3>2, <4>1, <4>2 DEF Gone
    <3> QED
      BY <3>3 DEF h
  <2>2. I = {i \in DOMAIN history : history[i] \in {Back(c)} \union Gone(c)}
    BY <2>1
  <2> QED
    BY <2>2 DEF Tally
<1>5. Tally(history, {Back(c)} \union Gone(c)) = Tally(history, {Back(c)}) + Tally(history, Gone(c))
  <2>1. {Back(c)} \cap Gone(c) = {}
    BY DEF Back, Gone, Event
  <2> QED
    BY <2>1, TallyBoth DEF Facts
<1> QED
  BY <1>1, <1>2, <1>3, <1>4, <1>5

LEMMA SettledSum ==
  ASSUME Facts, TrueLog, NEW c \in Contracts, NEW d \in Nat
  PROVE  /\ Numbers(Sizes(log), Settling(c, d))
         /\ expday[c.exp] <= d => SumOf(Sizes(log), Settling(c, d)) = Tally(history, Gone(c))
         /\ ~(expday[c.exp] <= d) => Settling(c, d) = {}
<1> DEFINE Z == Settling(c, d)
           f == Sizes(log)
           N == 2 * Len(history)
           T == Trading0({Back(c)}, N)
<1>1. Numbers(f, Z)
  BY NumbersOf DEF Settling, Spread
<1>2. \A k \in 1..Len(log) : log[k].why # "trade" /\ log[k].act = "close_short" => log[k].day = expday[log[k].c.exp]
  BY DEF Facts, TrueEntry, OfHistory, Settles, Fixes
<1>3. ~(expday[c.exp] <= d) => Z = {}
  BY <1>2 DEF Settling
<1>4. ASSUME expday[c.exp] <= d PROVE SumOf(f, Z) = Tally(history, Gone(c))
  <2>1. \A k \in 1..Len(log) : log[k].why = "trade" => log[k].day <= N
    <3>1. ASSUME NEW k \in 1..Len(log), log[k].why = "trade" PROVE log[k].day <= N
      <4>1. PICK i \in 1..Len(history) : log[k].day = 2 * i
        BY <3>1 DEF Facts, TrueEntry, OfHistory, Settles, Fixes
      <4>2. Len(history) \in Nat
        BY DEF Facts
      <4> DEFINE x == log[k].day
      <4>3. x = 2 * i
        BY <4>1
      <4> HIDE DEF x
      <4>4. x <= N
        BY <4>2, <4>3
      <4> QED
        BY <4>4 DEF x
    <3> QED
      BY <3>1
  <2>2. \A k : Event(log[k].act, log[k].c) \in {Back(c)} <=> log[k].act = "close_short" /\ log[k].c = c
    BY DEF Event, Back
  <2>3. Shut(log, Spread, c) = T \union Z /\ T \cap Z = {}
    <3>1. ASSUME NEW k \in 1..Len(log), log[k].act = "close_short", log[k].c = c PROVE k \in T \/ k \in Z
      <4>1. CASE log[k].why = "trade"
        BY <2>1, <2>2, <3>1, <4>1 DEF Trading0
      <4>2. CASE log[k].why # "trade"
        <5>1. log[k].day <= d
          BY <1>2, <1>4, <3>1, <4>2
        <5> QED
          BY <3>1, <4>2, <5>1 DEF Settling
      <4> QED
        BY <4>1, <4>2
    <3>2. \A k \in T \union Z : k \in 1..Len(log) /\ log[k].act = "close_short" /\ log[k].c = c
      BY <2>2 DEF Trading0, Settling
    <3>3. T \cap Z = {}
      BY DEF Trading0, Settling
    <3> HIDE DEF T, Z
    <3> QED
      BY <3>1, <3>2, <3>3 DEF Shut, Spread
  <2>4. N \in Nat /\ 2 * Len(history) <= N /\ history \in Seq(Events)
    BY DEF Facts
  <2>5. SumOf(f, T) = Tally(history, {Back(c)}) /\ Numbers(f, T)
    <3>1. \A x \in {Back(c)} : x.act \in Trades
      BY DEF Back, Trades
    <3>2. By(history, {Back(c)}, N) = Tally(history, {Back(c)})
      BY <2>4, ByAll
    <3> HIDE DEF N
    <3> QED
      BY <2>4, <3>1, <3>2, TradesByDay
  <2> HIDE DEF T, Z, f
  <2>6. SumOf(f, T \union Z) = SumOf(f, T) + SumOf(f, Z)
    BY <1>1, <2>3, <2>5, SumBoth
  <2>7. SumOf(f, T \union Z) = Tally(history, {Back(c)}) + Tally(history, Gone(c))
    BY <2>3, ShutAll DEF f
  <2>8. Tally(history, {Back(c)}) \in Nat /\ Tally(history, Gone(c)) \in Nat /\ SumOf(f, Z) \in Nat
    BY <1>1, <2>4, TallyIs, SumIs
  <2> QED
    BY <2>5, <2>6, <2>7, <2>8
<1> QED
  BY <1>1, <1>3, <1>4

-----------------------------------------------------------------------------
(* What the log delivers, by day.                                           *)

DeliveredOn(d) == {k \in 1..Len(log) : log[k].act = "close_shares_assigned" /\ log[k].day = d}
Delivered(d) == {k \in 1..Len(log) : log[k].act = "close_shares_assigned" /\ log[k].day <= d}
PassedOn(d) == {x \in Expiries : expday[x] = d}

LEMMA DeliveryDays ==
  ASSUME Facts, NEW k \in 1..Len(log), log[k].act = "close_shares_assigned"
  PROVE  \E x \in Expiries : expday[x] > 0 /\ log[k].day = expday[x]
<1>1. ~OfHistory(log[k])
  <2> DEFINE e == log[k]
  <2>1. \A i \in 1..Len(history) : history[i] = Event(e.act, e.c) => history[i].act = "close_shares_assigned"
    BY DEF Event
  <2> QED
    BY <2>1 DEF OfHistory, Trades
<1>2. Settles(log[k])
  BY <1>1 DEF Facts, TrueEntry, Fixes
<1> QED
  BY <1>2 DEF Settles, Past

LEMMA DeliveredOnIs ==
  ASSUME Facts, TrueLog, NEW x \in Expiries, expday[x] > 0
  PROVE  SumOf(Sizes(log), DeliveredOn(expday[x])) = Tally(history, Away(PassedOn(expday[x])))
<1> DEFINE d == expday[x]
           K == {j \in DOMAIN log : log[j].act \in {"close_shares_assigned"} /\ log[j].day = expday[x]}
           g == [k \in K |-> log[k].n]
           I == {i \in DOMAIN history : history[i].act \in {"called_away"} /\ expday[history[i].c.exp] = expday[x]}
<1>1. Total(g) = Cardinality(I)
  BY DEF TrueLog, Booked, Happened
<1>2. K = DeliveredOn(d)
  BY DEF Facts, DeliveredOn
<1>3. Total(g) = SumOf(Sizes(log), K)
  <2>1. \A y \in DOMAIN g : g[y] = Sizes(log)[y]
    BY DEF Sizes
  <2>2. DOMAIN g = K
    OBVIOUS
  <2> HIDE DEF g, K
  <2> QED
    BY <2>1, <2>2, TotalIs
<1>4. I = {i \in DOMAIN history : history[i] \in Away(PassedOn(d))}
  <2>1. ASSUME NEW i \in DOMAIN history
        PROVE  history[i].act \in {"called_away"} /\ expday[history[i].c.exp] = d <=> history[i] \in Away(PassedOn(d))
    <3>1. history[i] \in Events /\ i \in 1..Len(history)
      BY SeqFacts DEF Facts
    <3>2. history[i].act = "called_away" => history[i].c.exp \in Expiries
      <4>1. history[i].act = "called_away" => history[i].c \in Contracts
        BY <3>1 DEF Facts, Dated
      <4> QED
        BY <4>1 DEF Contracts
    <3> HIDE DEF d
    <3> QED
      BY <3>1, <3>2 DEF Away, PassedOn
  <2> QED
    BY <2>1
<1> QED
  BY <1>1, <1>2, <1>3, <1>4 DEF Tally

LEMMA DeliveredIs ==
  ASSUME Facts, TrueLog, NEW d \in Nat
  PROVE  /\ SumOf(Sizes(log), Delivered(d)) = Tally(history, Away(PassedBy(expday, d)))
         /\ Numbers(Sizes(log), Delivered(d))
<1> DEFINE f == Sizes(log)
           Good(m) == SumOf(f, Delivered(m)) = Tally(history, Away(PassedBy(expday, m)))
           Bad == {m \in 0..d : ~Good(m)}
<1>1. \A m : Numbers(f, Delivered(m)) /\ Numbers(f, DeliveredOn(m))
  BY NumbersOf DEF Delivered, DeliveredOn, Spread
<1>2. \A k \in 1..Len(log) : log[k].act = "close_shares_assigned" =>
        \E x \in Expiries : expday[x] > 0 /\ log[k].day = expday[x]
  BY DeliveryDays
<1>3. /\ \A x \in Expiries : expday[x] \in Nat
      /\ \A k \in 1..Len(log) : log[k].day \in Nat
      /\ history \in Seq(Events)
  BY DEF Facts, Entry
<1>4. 0 \notin Bad
  <2>1. Delivered(0) = {}
    BY <1>2, <1>3 DEF Delivered
  <2>2. \A i \in DOMAIN history : history[i] \notin Away(PassedBy(expday, 0))
    <3>1. PassedBy(expday, 0) = {}
      BY DEF PassedBy
    <3> QED
      BY <3>1 DEF Away
  <2>3. Tally(history, Away(PassedBy(expday, 0))) = 0
    BY <2>2, TallyEmpty
  <2>4. SumOf(f, {}) = 0
    BY SumNone
  <2> QED
    BY <2>1, <2>3, <2>4
<1>5. ASSUME NEW m \in 0..d - 1, m \notin Bad PROVE m + 1 \notin Bad
  <2>1. m \in Nat /\ m \in 0..d
    OBVIOUS
  <2>2. Good(m)
    BY <1>5, <2>1
  <2> DEFINE D == Delivered(m)
             E == DeliveredOn(m + 1)
             X == PassedBy(expday, m)
             Y == PassedOn(m + 1)
  <2>3. Delivered(m + 1) = D \union E /\ D \cap E = {}
    <3>1. \A k \in 1..Len(log) : /\ log[k].day <= m + 1 <=> log[k].day <= m \/ log[k].day = m + 1
                                 /\ ~(log[k].day <= m /\ log[k].day = m + 1)
      BY <1>3, <2>1
    <3> QED
      BY <3>1 DEF Delivered, DeliveredOn
  <2>4. PassedBy(expday, m + 1) = X \union Y /\ X \cap Y = {}
    <3>1. \A x \in Expiries : /\ expday[x] \in 1..m + 1 <=> expday[x] \in 1..m \/ expday[x] = m + 1
                              /\ ~(expday[x] \in 1..m /\ expday[x] = m + 1)
      BY <1>3, <2>1
    <3> QED
      BY <3>1 DEF PassedBy, PassedOn
  <2>5. SumOf(f, E) = Tally(history, Away(Y))
    <3>1. CASE \E x \in Expiries : expday[x] = m + 1
      <4>1. PICK x \in Expiries : expday[x] = m + 1
        BY <3>1
      <4>2. expday[x] > 0
        BY <2>1, <4>1
      <4> QED
        BY <4>1, <4>2, DeliveredOnIs
    <3>2. CASE ~\E x \in Expiries : expday[x] = m + 1
      <4>1. E = {} /\ Y = {}
        BY <1>2, <3>2 DEF DeliveredOn, PassedOn
      <4>2. Tally(history, Away(Y)) = 0
        <5>1. \A i \in DOMAIN history : history[i] \notin Away(Y)
          BY <4>1 DEF Away
        <5> HIDE DEF Y
        <5> QED
          BY <5>1, TallyEmpty
      <4>3. SumOf(f, {}) = 0
        BY SumNone
      <4> QED
        BY <4>1, <4>2, <4>3
    <3> QED
      BY <3>1, <3>2
  <2>6. Away(X \union Y) = Away(X) \union Away(Y) /\ (X \cap Y = {} => Away(X) \cap Away(Y) = {})
    <3> HIDE DEF X, Y
    <3> QED
      BY DEF Away
  <2>8. Numbers(f, D) /\ Numbers(f, E)
    BY <1>1
  <2>9. SumOf(f, D) = Tally(history, Away(X))
    BY <2>2
  <2> DEFINE next == Delivered(m + 1)
             passed == PassedBy(expday, m + 1)
  <2>10. next = D \union E /\ passed = X \union Y /\ D \cap E = {} /\ Away(X) \cap Away(Y) = {}
    BY <2>3, <2>4, <2>6
  <2> HIDE DEF D, E, X, Y, f, next, passed
  <2>11. SumOf(f, D \union E) = SumOf(f, D) + SumOf(f, E)
    BY <2>8, <2>10, SumBoth
  <2>12. Tally(history, Away(X) \union Away(Y)) = Tally(history, Away(X)) + Tally(history, Away(Y))
    BY <1>3, <2>10, TallyBoth
  <2>13. SumOf(f, next) = Tally(history, Away(passed))
    BY <2>5, <2>6, <2>9, <2>10, <2>11, <2>12
  <2>14. Good(m + 1)
    BY <2>13 DEF next, passed
  <2> QED
    BY <2>14
<1>6. Bad \in SUBSET (0..d) /\ d \in 0..d
  OBVIOUS
<1> HIDE DEF Bad
<1>7. Bad = {}
  BY <1>4, <1>5, <1>6, UpTo
<1>8. Good(d)
  BY <1>6, <1>7 DEF Bad
<1> QED
  BY <1>1, <1>8

-----------------------------------------------------------------------------
(* No prefix of the replay closes or sells what is not there.               *)

LEMMA NetKeeps ==
  ASSUME BookOK, Covered, NEW c \in Contracts, NEW m \in 0..Len(history)
  PROVE  TallyTo(history, {Back(c)}, m) <= TallyTo(history, {Sold(c)}, m)
<1> DEFINE S(i) == TallyTo(history, {Sold(c)}, i)
           B(i) == TallyTo(history, {Back(c)}, i)
           Bad == {i \in 0..m : ~(B(i) <= S(i))}
<1>1. m \in Nat /\ Len(history) \in Nat /\ m <= Len(history)
  BY SeqFacts DEF BookOK
<1>2. \A i \in Nat : /\ S(i) \in Nat /\ B(i) \in Nat /\ S(0) = 0 /\ B(0) = 0
                     /\ S(i + 1) = S(i) + One(history[i + 1], {Sold(c)})
                     /\ B(i + 1) = B(i) + One(history[i + 1], {Back(c)})
  BY TallyNext
<1>3. \A x, C : One(x, C) \in {0, 1} /\ (x \notin C => One(x, C) = 0)
  BY DEF One
<1>4. \A i \in 1..Len(history) : history[i] = Back(c) => S(i - 1) - B(i - 1) > 0
  BY DEF Covered, Net
<1> HIDE DEF S, B
<1>5. 0 \notin Bad
  BY <1>2
<1>6. ASSUME NEW i \in 0..m - 1, i \notin Bad PROVE i + 1 \notin Bad
  <2>1. i \in Nat /\ i \in 0..m /\ i + 1 \in 1..Len(history) /\ (i + 1) - 1 = i
    BY <1>1
  <2>2. B(i) <= S(i)
    BY <1>6, <2>1
  <2> DEFINE s == S(i)
             b == B(i)
             x == One(history[i + 1], {Sold(c)})
             y == One(history[i + 1], {Back(c)})
  <2>3. /\ s \in Nat /\ b \in Nat /\ b <= s /\ x \in {0, 1} /\ y \in {0, 1}
        /\ S(i + 1) = s + x /\ B(i + 1) = b + y
    BY <1>2, <1>3, <2>1, <2>2
  <2>4. y = 1 => s - b > 0
    <3>1. history[i + 1] = Back(c) => S(i) - B(i) > 0
      BY <1>4, <2>1
    <3>2. history[i + 1] # Back(c) => y = 0
      BY <1>3
    <3> QED
      BY <3>1, <3>2
  <2> HIDE DEF s, b, x, y
  <2> QED
    BY <2>3, <2>4
<1>7. Bad \in SUBSET (0..m) /\ m \in 0..m
  BY <1>1
<1> HIDE DEF Bad
<1>8. Bad = {}
  BY <1>1, <1>5, <1>6, <1>7, UpTo
<1>9. B(m) <= S(m)
  BY <1>7, <1>8 DEF Bad
<1> QED
  BY <1>9 DEF B, S

LEMMA BacksFit ==
  ASSUME BookOK, Covered, NEW c \in Contracts, NEW d \in Nat
  PROVE  By(history, {Back(c)}, d) <= By(history, {Sold(c)}, d)
<1>1. PICK m \in 0..Len(history) : \A C : By(history, C, d) = TallyTo(history, C, m)
  BY ByTo DEF BookOK
<1> QED
  BY <1>1, NetKeeps

LEMMA ByPassed ==
  ASSUME Facts, NEW c \in Contracts, expday[c.exp] > 0, NEW d \in Nat, expday[c.exp] <= d
  PROVE  /\ By(history, {Sold(c)}, d) = Tally(history, {Sold(c)})
         /\ By(history, {Back(c)}, d) = Tally(history, {Back(c)})
<1>1. ASSUME NEW i \in DOMAIN history, history[i] \in {Sold(c), Back(c)} PROVE 2 * i <= d
  <2>1. c.exp \in Expiries /\ expday[c.exp] \in Nat
    BY DEF Contracts, Facts
  <2>2. i \in 1..Len(history) /\ i \in Nat
    BY DEF Facts
  <2>3. 2 * i < expday[c.exp]
    BY <1>1, <2>2 DEF Facts, Dated, Past
  <2> DEFINE x == expday[c.exp]
  <2>4. x \in Nat /\ 2 * i < x /\ x <= d
    BY <2>1, <2>3
  <2> HIDE DEF x
  <2> QED
    BY <2>2, <2>4
<1>2. /\ {i \in DOMAIN history : history[i] \in {Sold(c)} /\ 2 * i <= d} = {i \in DOMAIN history : history[i] \in {Sold(c)}}
      /\ {i \in DOMAIN history : history[i] \in {Back(c)} /\ 2 * i <= d} = {i \in DOMAIN history : history[i] \in {Back(c)}}
  BY <1>1
<1> QED
  BY <1>2 DEF By, Tally

\* Of a part that is closed downwards: what it has, and the trades it cannot miss.
LEMMA Below ==
  ASSUME Facts, NEW ks, DownIn(log, Spread, ks), ks # {}
  PROVE  \E d \in Nat : /\ \A j \in ks : log[j].day <= d
                        /\ \A j \in 1..Len(log) : log[j].why = "trade" /\ log[j].day <= d => j \in ks
<1> DEFINE t == Top("lots", log, ks)
<1>1. Len(log) \in Nat /\ \A j \in 1..Len(log) : log[j].day \in Nat /\ TrueEntry(log[j])
  BY DEF Facts, Entry
<1>2. Ordered("lots", log, Len(log)) /\ Spread \in SUBSET (1..Len(log)) /\ "lots" # "legs"
  BY <1>1 DEF Ordered, Spread
<1>3. /\ t \in ks /\ ks \in SUBSET (1..Len(log))
      /\ \A y \in ks \ {t} : After(log, y, t)
  <2>1. /\ Top("lots", log, ks) \in ks /\ ks \in SUBSET (1..Len(log))
        /\ \A y \in ks \ {Top("lots", log, ks)} : After(log, y, Top("lots", log, ks))
    BY <1>2, DownFewer
  <2> QED
    BY <2>1
<1> HIDE DEF t
<1> DEFINE d == log[t].day
<1>4. d \in Nat
  BY <1>1, <1>3
<1>5. ASSUME NEW j \in ks PROVE log[j].day <= d
  <2>1. CASE j = t
    BY <1>4, <2>1
  <2>2. CASE j # t
    BY <1>1, <1>3, <1>4, <2>2 DEF After
  <2> QED
    BY <2>1, <2>2
<1>6. ASSUME NEW j \in 1..Len(log), log[j].why = "trade", log[j].day <= d PROVE j \in ks
  <2>1. CASE log[j].day < d
    <3>1. After(log, j, t)
      BY <2>1 DEF After
    <3> QED
      BY <1>3, <3>1 DEF DownIn, Spread
  <2>2. CASE log[j].day = d
    <3>1. PICK i \in 1..Len(history) : log[j].day = 2 * i /\ history[i].act \in Trades
      BY <1>1, <1>6 DEF TrueEntry, OfHistory, Settles, Fixes
    <3>2. OneOf(i)
      BY <3>1 DEF Facts
    <3>3. log[t].day = 2 * i /\ t \in 1..Len(log)
      BY <1>3, <2>2, <3>1
    <3>4. j = t
      BY <3>1, <3>2, <3>3 DEF OneOf
    <3> QED
      BY <1>3, <3>4
  <2> QED
    BY <1>1, <1>4, <1>6, <2>1, <2>2
<1> QED
  BY <1>4, <1>5, <1>6

\* Which entries are trades.
LEMMA TradesAre ==
  ASSUME Facts, NEW k \in 1..Len(log)
  PROVE  /\ log[k].act \in {"buy_shares", "sell_shares", "sell_short"} => log[k].why = "trade"
         /\ log[k].why = "trade" => /\ Event(log[k].act, log[k].c) \in Events /\ log[k].n = 1
                                    /\ log[k].act \in Trades /\ log[k].day <= 2 * Len(history)
<1> DEFINE e == log[k]
<1>1. TrueEntry(e) /\ Len(history) \in Nat /\ \A i \in 1..Len(history) : history[i] \in Events
  BY SeqFacts DEF Facts
<1> HIDE DEF e
<1>2. e.act \in {"buy_shares", "sell_shares", "sell_short"} => e.why = "trade"
  BY <1>1 DEF TrueEntry, OfHistory, Settles, Fixes
<1>3. ASSUME e.why = "trade"
      PROVE  Event(e.act, e.c) \in Events /\ e.n = 1 /\ e.act \in Trades /\ e.day <= 2 * Len(history)
  <2>1. PICK i \in 1..Len(history) : e.day = 2 * i /\ history[i].act \in Trades /\ history[i] = Event(e.act, e.c)
    BY <1>1, <1>3 DEF TrueEntry, OfHistory, Settles, Fixes
  <2>2. history[i].act = e.act /\ e.n = 1
    BY <1>1, <1>3, <2>1 DEF Event, TrueEntry, OfHistory, Settles, Fixes
  <2> DEFINE x == e.day
  <2>3. x = 2 * i
    BY <2>1
  <2> HIDE DEF x
  <2>4. x <= 2 * Len(history)
    BY <1>1, <2>3
  <2> QED
    BY <1>1, <2>1, <2>2, <2>4 DEF x
<1> QED
  BY <1>2, <1>3 DEF e

-----------------------------------------------------------------------------
(* The replays of a true log.                                               *)

LEMMA TradeSums ==
  ASSUME Facts, NEW d \in Nat
  PROVE  /\ SumOf(Sizes(log), Trading0(Buys, d)) = By(history, Buys, d)
         /\ SumOf(Sizes(log), Trading0(Sells, d)) = By(history, Sells, d)
         /\ Numbers(Sizes(log), Trading0(Buys, d)) /\ Numbers(Sizes(log), Trading0(Sells, d))
         /\ \A c \in Contracts :
              /\ SumOf(Sizes(log), Trading0({Sold(c)}, d)) = By(history, {Sold(c)}, d)
              /\ SumOf(Sizes(log), Trading0({Back(c)}, d)) = By(history, {Back(c)}, d)
              /\ Numbers(Sizes(log), Trading0({Sold(c)}, d)) /\ Numbers(Sizes(log), Trading0({Back(c)}, d))
<1>1. (\A x \in Buys : x.act \in Trades) /\ (\A x \in Sells : x.act \in Trades)
  BY DEF Buys, Sells, Trades
<1>2. \A c : (\A x \in {Sold(c)} : x.act \in Trades) /\ (\A x \in {Back(c)} : x.act \in Trades)
  BY DEF Sold, Back, Trades
<1> QED
  BY <1>1, <1>2, TradesByDay

LEMMA LotsSplit ==
  ASSUME Facts, NEW d \in Nat, NEW ks \in SUBSET Spread, \A j \in ks : log[j].day <= d,
         \A j \in 1..Len(log) : log[j].why = "trade" /\ log[j].day <= d => j \in ks
  PROVE  /\ Bought(log, ks) = Trading0(Buys, d)
         /\ Parted(log, ks) \in SUBSET (Trading0(Sells, d) \union Delivered(d))
         /\ Delivered(d) \subseteq ks => Parted(log, ks) = Trading0(Sells, d) \union Delivered(d)
         /\ Trading0(Sells, d) \cap Delivered(d) = {}
<1>1. \A k \in 1..Len(log) : /\ log[k].act \in {"buy_shares", "sell_shares", "sell_short"} => log[k].why = "trade"
                             /\ log[k].why = "trade" => Event(log[k].act, log[k].c) \in Events
  BY TradesAre
<1>2. \A act, c : Event(act, c).act = act
  BY DEF Event
<1>3. \A k \in 1..Len(log) : /\ k \in Trading0(Buys, d) <=> log[k].act = "buy_shares" /\ log[k].day <= d
                             /\ k \in Trading0(Sells, d) <=> log[k].act = "sell_shares" /\ log[k].day <= d
  BY <1>1, <1>2 DEF Trading0, Buys, Sells
<1>4. Trading0(Buys, d) \subseteq 1..Len(log) /\ Trading0(Sells, d) \subseteq 1..Len(log)
  BY DEF Trading0
<1>5. Bought(log, ks) = Trading0(Buys, d)
  BY <1>1, <1>3, <1>4 DEF Bought, Spread
<1>6. Parted(log, ks) \in SUBSET (Trading0(Sells, d) \union Delivered(d))
  BY <1>3 DEF Parted, ShareSales, Delivered, Spread
<1>7. ASSUME Delivered(d) \subseteq ks PROVE Trading0(Sells, d) \union Delivered(d) \subseteq Parted(log, ks)
  BY <1>1, <1>3, <1>4, <1>7 DEF Parted, ShareSales, Delivered
<1>8. Trading0(Sells, d) \cap Delivered(d) = {}
  BY <1>3 DEF Delivered
<1> QED
  BY <1>5, <1>6, <1>7, <1>8

LEMMA LotsFit ==
  ASSUME Facts, TrueLog, Paid, NEW ks, DownIn(log, Spread, ks)
  PROVE  SumOf(Sizes(log), Parted(log, ks)) <= SumOf(Sizes(log), Bought(log, ks))
<1> DEFINE f == Sizes(log)
<1>1. CASE ks = {}
  <2>1. Bought(log, ks) = {} /\ Parted(log, ks) = {}
    BY <1>1 DEF Bought, Parted
  <2>2. SumOf(f, {}) = 0
    BY SumNone
  <2> QED
    BY <2>1, <2>2
<1>2. CASE ks # {}
  <2>1. PICK d \in Nat : /\ \A j \in ks : log[j].day <= d
                         /\ \A j \in 1..Len(log) : log[j].why = "trade" /\ log[j].day <= d => j \in ks
    BY <1>2, Below
  <2> DEFINE T == Trading0(Sells, d)
             D == Delivered(d)
             P == Parted(log, ks)
             X == PassedBy(expday, d)
  <2>2. Bought(log, ks) = Trading0(Buys, d) /\ P \in SUBSET (T \union D) /\ T \cap D = {}
    BY <2>1, LotsSplit DEF DownIn
  <2>3. /\ SumOf(f, Trading0(Buys, d)) = By(history, Buys, d)
        /\ SumOf(f, T) = By(history, Sells, d) /\ Numbers(f, T)
    BY TradeSums
  <2>4. SumOf(f, D) = Tally(history, Away(X)) /\ Numbers(f, D)
    BY DeliveredIs
  <2>5. By(history, Buys, d) - By(history, Sells, d) - Tally(history, Away(X)) >= 0
    <3>1. Left(history, d, X) >= Due(broker, itm, X)
      BY DEF Paid
    <3>2. Due(broker, itm, X) \in Nat
      BY DueParts DEF Facts, Counted
    <3>3. By(history, Buys, d) \in Nat /\ By(history, Sells, d) \in Nat /\ Tally(history, Away(X)) \in Nat
      BY ByIs, TallyIs DEF Facts
    <3> HIDE DEF X
    <3> QED
      BY <3>1, <3>2, <3>3 DEF Left
  <2>6. By(history, Buys, d) \in Nat /\ By(history, Sells, d) \in Nat /\ Tally(history, Away(X)) \in Nat
    BY ByIs, TallyIs DEF Facts
  <2> HIDE DEF f, T, D, P, X
  <2>7. SumOf(f, T \union D) = SumOf(f, T) + SumOf(f, D) /\ Numbers(f, T \union D)
    BY <2>2, <2>3, <2>4, SumBoth
  <2>8. SumOf(f, P) <= SumOf(f, T \union D) /\ Numbers(f, P)
    BY <2>2, <2>7, SumMore
  <2>9. SumOf(f, P) \in Nat
    BY <2>8, SumIs
  <2>10. SumOf(f, P) <= SumOf(f, Trading0(Buys, d))
    BY <2>3, <2>4, <2>5, <2>6, <2>7, <2>8, <2>9
  <2> QED
    BY <2>2, <2>10 DEF f, P
<1> QED
  BY <1>1, <1>2

LEMMA LotsTrue ==
  ASSUME Facts, TrueLog, Paid
  PROVE  Lots(log) = broker[Equity]
<1> DEFINE f == Sizes(log)
           n == Len(log)
           N == 2 * Len(history) + 1
           T == Trading0(Sells, N)
           D == Delivered(N)
           X == PassedBy(expday, N)
<1>1. n \in Nat /\ DOMAIN log = 1..n /\ Standing(log) = 1..n /\ Ordered("lots", log, n)
  BY DEF Facts, Ordered, Entry
<1>2. N \in Nat /\ 2 * Len(history) <= N /\ history \in Seq(Events) /\ Len(history) \in Nat
  BY DEF Facts
<1>3. \A x \in Expiries : expday[x] \in Nat /\ expday[x] <= N
  <2>1. ASSUME NEW x \in Expiries PROVE expday[x] <= N
    <3> DEFINE y == expday[x]
    <3>1. y = 0 \/ \E m \in 0..Len(history) : y = 2 * m + 1
      BY DEF Facts, Dated
    <3> HIDE DEF y
    <3>2. y <= N
      BY <1>2, <3>1
    <3> QED
      BY <3>2 DEF y
  <2> QED
    BY <2>1 DEF Facts
<1>4. \A j \in 1..n : log[j].why = "trade" => log[j].day <= N
  <2> SUFFICES ASSUME NEW j \in 1..n, log[j].why = "trade" PROVE log[j].day <= N
    OBVIOUS
  <2>1. log[j].day <= 2 * Len(history) /\ log[j].day \in Nat
    BY TradesAre DEF Facts, Entry
  <2> DEFINE x == log[j].day
  <2>2. x <= 2 * Len(history) /\ x \in Nat
    BY <2>1
  <2> HIDE DEF x
  <2>3. x <= N
    BY <1>2, <2>2
  <2> QED
    BY <2>3 DEF x
<1>5. \A j \in 1..n : log[j].day <= N
  <2> SUFFICES ASSUME NEW j \in 1..n PROVE log[j].day <= N
    OBVIOUS
  <2>1. TrueEntry(log[j])
    BY DEF Facts
  <2>2. CASE log[j].why = "trade"
    BY <1>4, <2>2
  <2>3. CASE log[j].day = 0
    BY <1>2, <2>3
  <2>4. CASE \E x \in Expiries : log[j].day = expday[x]
    BY <1>3, <2>4
  <2> QED
    BY <2>1, <2>2, <2>3, <2>4 DEF TrueEntry, OfHistory, Settles, Fixes, Contracts
<1>6. Bought(log, Spread) = Trading0(Buys, N) /\ Parted(log, Spread) = T \union D /\ T \cap D = {}
  <2>1. D \subseteq Spread
    BY DEF Delivered, Spread
  <2>2. Spread \in SUBSET Spread /\ (\A j \in Spread : log[j].day <= N)
        /\ \A j \in 1..Len(log) : log[j].why = "trade" /\ log[j].day <= N => j \in Spread
    BY <1>5 DEF Spread
  <2> HIDE DEF N
  <2> QED
    BY <1>2, <2>1, <2>2, LotsSplit
<1>7. PICK g : Folds(g, "lots", 0, log, Standing(log)) /\ Lots(log) = g[Standing(log)]
  BY <1>1, LotsAre
<1>8. \A k \in 1..n : log[k].act \in _SHARE_ACTIONS => log[k].n \in Nat
  <2>1. ASSUME NEW k \in 1..n, log[k].act \in _SHARE_ACTIONS PROVE log[k].n \in Nat
    <3>1. TrueEntry(log[k])
      BY DEF Facts
    <3> QED
      BY <2>1, <3>1 DEF TrueEntry, OfHistory, Settles, Fixes, _SHARE_ACTIONS, ShareSales
  <2> QED
    BY <2>1
<1>9. g[1..n] = SumOf(f, Bought(log, 1..n)) - SumOf(f, Parted(log, 1..n))
  <2>1. Folds(g, "lots", 0, log, 1..n)
    BY <1>1, <1>7
  <2>2. \A ks : DownIn(log, 1..n, ks) => SumOf(Sizes(log), Parted(log, ks)) <= SumOf(Sizes(log), Bought(log, ks))
    BY LotsFit DEF Spread
  <2> HIDE DEF n
  <2>3. 1..n \in SUBSET (1..n)
    OBVIOUS
  <2> QED
    BY <1>1, <1>8, <2>1, <2>2, <2>3, LotsSum
<1>10. /\ SumOf(f, Trading0(Buys, N)) = Tally(history, Buys)
       /\ SumOf(f, T) = Tally(history, Sells) /\ Numbers(f, T)
  <2>1. /\ SumOf(f, Trading0(Buys, N)) = By(history, Buys, N)
        /\ SumOf(f, T) = By(history, Sells, N) /\ Numbers(f, T)
    <3> HIDE DEF N
    <3> QED
      BY <1>2, TradeSums
  <2>2. By(history, Buys, N) = Tally(history, Buys) /\ By(history, Sells, N) = Tally(history, Sells)
    <3> HIDE DEF N
    <3> QED
      BY <1>2, ByAll
  <2> QED
    BY <2>1, <2>2
<1>11. SumOf(f, D) = Tally(history, Away(Expiries)) /\ Numbers(f, D)
  <2>1. SumOf(f, D) = Tally(history, Away(X)) /\ Numbers(f, D)
    <3> HIDE DEF N
    <3> QED
      BY <1>2, DeliveredIs
  <2>2. ASSUME NEW i \in DOMAIN history, history[i] \in Away(Expiries) PROVE history[i] \in Away(X)
    <3>1. history[i].act = "called_away" /\ i \in 1..Len(history)
      BY <2>2 DEF Away, Facts
    <3>2. expday[history[i].c.exp] > 0 /\ history[i].c.exp \in Expiries
      BY <2>2, <3>1 DEF Facts, Dated, Past, Contracts
    <3> DEFINE x == history[i].c.exp
               y == expday[x]
    <3>3. y \in Nat /\ y <= N /\ y > 0 /\ x \in Expiries
      BY <1>3, <3>2
    <3> HIDE DEF y, N
    <3>4. y \in 1..N
      BY <1>2, <3>3
    <3>5. x \in PassedBy(expday, N)
      BY <3>3, <3>4 DEF PassedBy, y
    <3> QED
      BY <2>2, <3>5 DEF Away
  <2>3. Away(X) \subseteq Away(Expiries)
    BY DEF Away, PassedBy
  <2> HIDE DEF X
  <2>4. Tally(history, Away(X)) = Tally(history, Away(Expiries))
    BY <2>2, <2>3, TallyAlike
  <2> QED
    BY <2>1, <2>4
<1>12. broker[Equity] = Tally(history, Buys) - Tally(history, Sells) - Tally(history, Away(Expiries))
  BY DEF Paid
<1>13. Tally(history, Buys) \in Nat /\ Tally(history, Sells) \in Nat /\ Tally(history, Away(Expiries)) \in Nat
  BY <1>2, TallyIs
<1>14. g[1..n] = SumOf(f, Trading0(Buys, N)) - SumOf(f, T \union D)
  BY <1>6, <1>9 DEF Spread
<1> HIDE DEF f, T, D, N
<1>15. SumOf(f, T \union D) = SumOf(f, T) + SumOf(f, D)
  BY <1>6, <1>10, <1>11, SumBoth
<1>16. Lots(log) = g[1..n]
  BY <1>1, <1>7
<1> QED
  BY <1>10, <1>11, <1>12, <1>13, <1>14, <1>15, <1>16

LEMMA CallsSplit ==
  ASSUME Facts, NEW d \in Nat, NEW ks \in SUBSET Spread, \A j \in ks : log[j].day <= d,
         \A j \in 1..Len(log) : log[j].why = "trade" /\ log[j].day <= d => j \in ks, NEW c \in Contracts
  PROVE  /\ Opened(log, ks, c) = Trading0({Sold(c)}, d)
         /\ Shut(log, ks, c) \in SUBSET (Trading0({Back(c)}, d) \union Settling(c, d))
         /\ Trading0({Back(c)}, d) \cap Settling(c, d) = {}
<1>1. \A k \in 1..Len(log) : log[k].act = "sell_short" => log[k].why = "trade"
  BY TradesAre
<1>2. \A k : /\ Event(log[k].act, log[k].c) \in {Sold(c)} <=> log[k].act = "sell_short" /\ log[k].c = c
             /\ Event(log[k].act, log[k].c) \in {Back(c)} <=> log[k].act = "close_short" /\ log[k].c = c
  BY DEF Event, Sold, Back
<1>3. Opened(log, ks, c) = Trading0({Sold(c)}, d)
  BY <1>1, <1>2 DEF Opened, Trading0, Spread
<1>4. Shut(log, ks, c) \in SUBSET (Trading0({Back(c)}, d) \union Settling(c, d))
  <2>1. ASSUME NEW k \in Shut(log, ks, c) PROVE k \in Trading0({Back(c)}, d) \/ k \in Settling(c, d)
    <3>1. k \in ks /\ k \in 1..Len(log) /\ log[k].act = "close_short" /\ log[k].c = c /\ log[k].day <= d
      BY DEF Shut, Spread
    <3> QED
      BY <1>2, <3>1 DEF Trading0, Settling
  <2> QED
    BY <2>1
<1>5. Trading0({Back(c)}, d) \cap Settling(c, d) = {}
  BY DEF Trading0, Settling
<1> QED
  BY <1>3, <1>4, <1>5

\* What was closed of a contract up to a day was opened up to that day.
LEMMA ShutByDay ==
  ASSUME BookOK, Covered, Facts, TrueLog, NEW c \in Contracts, NEW d \in Nat
  PROVE  /\ Numbers(Sizes(log), Settling(c, d))
         /\ By(history, {Back(c)}, d) + SumOf(Sizes(log), Settling(c, d)) <= By(history, {Sold(c)}, d)
<1> DEFINE x == expday[c.exp]
           b == By(history, {Back(c)}, d)
           o == By(history, {Sold(c)}, d)
           s == SumOf(Sizes(log), Settling(c, d))
           tb == Tally(history, {Back(c)})
           to == Tally(history, {Sold(c)})
           g == Tally(history, Gone(c))
           v == broker[c]
<1>1. /\ Numbers(Sizes(log), Settling(c, d))
      /\ x <= d => s = g
      /\ ~(x <= d) => Settling(c, d) = {}
  BY SettledSum
<1>2. b \in Nat /\ o \in Nat /\ tb \in Nat /\ to \in Nat /\ g \in Nat /\ b <= o
  BY ByIs, TallyIs, BacksFit DEF Facts
<1>3. v \in Nat /\ v = to - tb - g
  BY DEF Facts, Counted
<1>4. x \in Nat
  BY DEF Facts, Contracts
<1>5. CASE ~(x <= d)
  <2>1. s = 0
    BY <1>1, <1>5, SumNone
  <2> HIDE DEF b, o, s
  <2> QED
    BY <1>1, <1>2, <2>1 DEF b, o, s
<1>6. CASE x = 0
  <2>1. g = 0
    <3>1. ASSUME NEW i \in DOMAIN history, history[i] \in Gone(c) PROVE FALSE
      <4>1. history[i].act \in {"called_away", "expired"} /\ history[i].c = c /\ i \in 1..Len(history)
        BY <3>1 DEF Gone, Event, Facts
      <4>2. expday[c.exp] > 0
        BY <4>1 DEF Facts, Dated, Past
      <4> QED
        BY <1>6, <4>2
    <3> QED
      BY <3>1, TallyEmpty
  <2>2. s = 0
    <3> HIDE DEF x, s, g
    <3> QED
      BY <1>1, <1>6, <2>1
  <2> HIDE DEF b, o, s
  <2> QED
    BY <1>1, <1>2, <2>2 DEF b, o, s
<1>7. CASE x > 0 /\ x <= d
  <2>1. o = to /\ b = tb
    BY <1>7, ByPassed
  <2>2. s = g
    BY <1>1, <1>7
  <2> HIDE DEF b, o, s, to, tb, g, v
  <2>3. b + s <= o
    BY <1>2, <1>3, <2>1, <2>2
  <2> QED
    BY <1>1, <2>3 DEF b, o, s
<1> HIDE DEF x
<1> QED
  BY <1>4, <1>5, <1>6, <1>7

LEMMA CallsFit ==
  ASSUME BookOK, Covered, Facts, TrueLog, NEW c \in Contracts, NEW ks, DownIn(log, Spread, ks)
  PROVE  SumOf(Sizes(log), Shut(log, ks, c)) <= SumOf(Sizes(log), Opened(log, ks, c))
<1> DEFINE f == Sizes(log)
<1>1. CASE ks = {}
  <2>1. Opened(log, ks, c) = {} /\ Shut(log, ks, c) = {}
    BY <1>1 DEF Opened, Shut
  <2>2. SumOf(f, {}) = 0
    BY SumNone
  <2> QED
    BY <2>1, <2>2
<1>2. CASE ks # {}
  <2>1. PICK d \in Nat : /\ \A j \in ks : log[j].day <= d
                         /\ \A j \in 1..Len(log) : log[j].why = "trade" /\ log[j].day <= d => j \in ks
    BY <1>2, Below
  <2> DEFINE T == Trading0({Back(c)}, d)
             Z == Settling(c, d)
             P == Shut(log, ks, c)
  <2>2. Opened(log, ks, c) = Trading0({Sold(c)}, d) /\ P \in SUBSET (T \union Z) /\ T \cap Z = {}
    BY <2>1, CallsSplit DEF DownIn
  <2>3. /\ SumOf(f, Trading0({Sold(c)}, d)) = By(history, {Sold(c)}, d)
        /\ SumOf(f, T) = By(history, {Back(c)}, d) /\ Numbers(f, T)
    BY TradeSums
  <2>4. Numbers(f, Z) /\ By(history, {Back(c)}, d) + SumOf(f, Z) <= By(history, {Sold(c)}, d)
    BY ShutByDay
  <2>5. By(history, {Sold(c)}, d) \in Nat /\ By(history, {Back(c)}, d) \in Nat
    BY ByIs DEF Facts
  <2> HIDE DEF f, T, Z, P
  <2>6. SumOf(f, T \union Z) = SumOf(f, T) + SumOf(f, Z) /\ Numbers(f, T \union Z)
    BY <2>2, <2>3, <2>4, SumBoth
  <2>7. SumOf(f, P) <= SumOf(f, T \union Z) /\ Numbers(f, P)
    BY <2>2, <2>6, SumMore
  <2>8. SumOf(f, P) \in Nat /\ SumOf(f, Z) \in Nat
    BY <2>4, <2>7, SumIs
  <2>9. SumOf(f, P) <= SumOf(f, Trading0({Sold(c)}, d))
    BY <2>3, <2>4, <2>5, <2>6, <2>7, <2>8
  <2> QED
    BY <2>2, <2>9 DEF f, P
<1> QED
  BY <1>1, <1>2

\* All that was opened of a contract.
LEMMA OpenedAll ==
  ASSUME Facts, NEW c \in Contracts
  PROVE  SumOf(Sizes(log), Opened(log, Spread, c)) = Tally(history, {Sold(c)})
<1> DEFINE N == 2 * Len(history)
<1>1. N \in Nat /\ 2 * Len(history) <= N /\ history \in Seq(Events)
  BY DEF Facts
<1>2. \A k \in 1..Len(log) : /\ log[k].act = "sell_short" => log[k].why = "trade"
                             /\ log[k].why = "trade" => log[k].day <= N
  BY TradesAre
<1>3. \A k : Event(log[k].act, log[k].c) \in {Sold(c)} <=> log[k].act = "sell_short" /\ log[k].c = c
  BY DEF Event, Sold
<1>4. Opened(log, Spread, c) = Trading0({Sold(c)}, N)
  <2> HIDE DEF N
  <2> QED
    BY <1>2, <1>3 DEF Opened, Trading0, Spread
<1>5. SumOf(Sizes(log), Trading0({Sold(c)}, N)) = By(history, {Sold(c)}, N)
  <2> HIDE DEF N
  <2> QED
    BY <1>1, TradeSums
<1>6. By(history, {Sold(c)}, N) = Tally(history, {Sold(c)})
  <2> HIDE DEF N
  <2> QED
    BY <1>1, ByAll
<1> QED
  BY <1>4, <1>5, <1>6

LEMMA CallsTrue ==
  ASSUME BookOK, Covered, Facts, TrueLog
  PROVE  \A c \in Contracts : Tally(Calls(log), {c}) = broker[c]
<1> DEFINE n == Len(log)
<1>1. n \in Nat /\ DOMAIN log = 1..n /\ Standing(log) = 1..n /\ Ordered("calls", log, n)
  BY DEF Facts, Ordered, Entry
<1>2. PICK g : Folds(g, "calls", 0, log, Standing(log)) /\ Calls(log) = g[Standing(log)]
  BY <1>1, CallsAre
<1>3. ASSUME NEW k \in 1..n, log[k].act \in {"sell_short", "close_short"}
      PROVE  /\ log[k].n \in Nat /\ log[k].c \in Contracts
             /\ log[k].act = "sell_short" => log[k].n = 1
  <2>1. TrueEntry(log[k]) /\ log[k].act \notin {"adjustment", "position_rebuild"}
    BY <1>3 DEF Facts
  <2>2. CASE OfHistory(log[k])
    <3>1. log[k].n = 1 /\ log[k].why = "trade"
      BY <2>2 DEF OfHistory
    <3>2. Event(log[k].act, log[k].c) \in Events
      BY <3>1, TradesAre
    <3>3. log[k].c \in Contracts
      BY <1>3, <3>2 DEF Events, Event
    <3> QED
      BY <3>1, <3>3
  <2>3. CASE Settles(log[k])
    BY <1>3, <2>3 DEF Settles
  <2> QED
    BY <2>1, <2>2, <2>3 DEF TrueEntry, Fixes
<1>4. \A d \in Contracts :
        Tally(g[1..n], {d}) = SumOf(Sizes(log), Opened(log, 1..n, d)) - SumOf(Sizes(log), Shut(log, 1..n, d))
  <2>1. Folds(g, "calls", 0, log, 1..n)
    BY <1>1, <1>2
  <2>2. \A ks : \A c \in Contracts : DownIn(log, 1..n, ks) =>
          SumOf(Sizes(log), Shut(log, ks, c)) <= SumOf(Sizes(log), Opened(log, ks, c))
    BY CallsFit DEF Spread
  <2> HIDE DEF n
  <2>3. 1..n \in SUBSET (1..n)
    OBVIOUS
  <2> QED
    BY <1>1, <1>3, <2>1, <2>2, <2>3, CallsSum
<1> SUFFICES ASSUME NEW c \in Contracts PROVE Tally(Calls(log), {c}) = broker[c]
  OBVIOUS
<1> DEFINE o == Tally(history, {Sold(c)})
           b == Tally(history, {Back(c)})
           e == Tally(history, Gone(c))
           t == Tally(Calls(log), {c})
<1>5. t = SumOf(Sizes(log), Opened(log, Spread, c)) - SumOf(Sizes(log), Shut(log, Spread, c))
  BY <1>1, <1>2, <1>4 DEF Spread
<1>6. t = o - (b + e)
  BY <1>5, OpenedAll, ShutAll
<1>7. o \in Nat /\ b \in Nat /\ e \in Nat
  BY TallyIs DEF Facts
<1>8. broker[c] = o - b - e
  BY DEF Facts, Counted
<1> HIDE DEF o, b, e, t
<1>9. t = broker[c]
  BY <1>6, <1>7, <1>8
<1> QED
  BY <1>9 DEF t

LEMMA LogIsTruthHere ==
  ASSUME BookOK, Covered, Account, InTold(log)
  PROVE  LogIsTruth
<1> SUFFICES ASSUME TrueLog, PutFree
             PROVE  /\ replay_shares_from_log = broker[Equity]
                    /\ \A c \in Contracts : Count(replay_short_calls, LAMBDA leg : leg = c) = broker[c]
  BY DEF LogIsTruth
<1>1. Facts
  BY FactsAre
<1>2. Lots(log) = broker[Equity]
  BY <1>1, LotsTrue DEF Account
<1>3. \A c \in Contracts : Tally(Calls(log), {c}) = broker[c]
  BY <1>1, CallsTrue
<1>4. replay_shares_from_log = Lots(log) /\ replay_short_calls = Calls(log)
  BY ReplayIs
<1>5. \A c \in Contracts : Cardinality({i \in DOMAIN Calls(log) : Calls(log)[i] = c}) = Tally(Calls(log), {c})
  <2>1. \A c : {i \in DOMAIN Calls(log) : Calls(log)[i] = c} = {i \in DOMAIN Calls(log) : Calls(log)[i] \in {c}}
    OBVIOUS
  <2> QED
    BY <2>1 DEF Tally
<1> QED
  BY <1>2, <1>3, <1>4, <1>5 DEF Count

-----------------------------------------------------------------------------
(* Every step, and the theorem.                                            *)

LEMMA AccountSame == ASSUME Account, UNCHANGED market PROVE Account'
<1>1. UNCHANGED <<history, broker, expday, itm>>
  BY DEF market
<1>2. Counted' /\ Dated' /\ itm' \in [Expiries -> SUBSET Strikes]
  BY <1>1 DEF Account, Counted, Dated, Past
<1>3. PutFree' => Paid'
  BY <1>1 DEF Account, PutFree, Paid
<1> QED
  BY <1>2, <1>3 DEF Account

LEMMA MarketOnlyTrades == ASSUME Next PROVE BrokerStep \/ UNCHANGED market
<1>1. ASSUME Fetch \/ FetchFails \/ run_reconciliation PROVE UNCHANGED market
  BY <1>1 DEF Fetch, FetchFails, FailedRun, run_reconciliation
<1>2. ASSUME NEW i \in DOMAIN history, _commit(i) \/ adopt_broker_trade(i) PROVE UNCHANGED market
  BY <1>2 DEF _commit, adopt_broker_trade, Start
<1>3. ASSUME JobStep PROVE UNCHANGED market
  BY <1>3 DEF JobStep, append_execution, apply, mark_diff_resolved, set_legs, heal
<1>4. ASSUME rebuild_from_log \/ rebuild_position_from_broker PROVE UNCHANGED market
  BY <1>4 DEF rebuild_from_log, rebuild_position_from_broker, Fix, Start
<1>5. ASSUME NEW k, _adjustment(k) \/ resolve_expiry(k) \/ acknowledge_diff(k) PROVE UNCHANGED market
  BY <1>5 DEF _adjustment, resolve_expiry, acknowledge_diff, Fix, Start
<1>6. ASSUME NEW k, NEW asked, record_called_away(k, asked) PROVE UNCHANGED market
  BY <1>6 DEF record_called_away
<1>7. ASSUME NEW k, NEW v, SetVoid(k, v) PROVE UNCHANGED market
  BY <1>7 DEF SetVoid
<1>8. ASSUME Crash PROVE UNCHANGED market
  BY <1>8 DEF Crash
<1> QED
  BY <1>1, <1>2, <1>3, <1>4, <1>5, <1>6, <1>7, <1>8 DEF Next, Repair

LEMMA AccountAlways == Spec => []Account
<1>1. Init => Account
  BY AccountInit
<1>2. BookOK /\ Account /\ [Next]_vars => Account'
  <2>1. ASSUME BookOK, Account, UNCHANGED vars PROVE Account'
    BY <2>1, AccountSame DEF vars, market
  <2> QED
    BY <2>1, AccountNext, AccountSame, MarketOnlyTrades
<1> QED
  BY <1>1, <1>2, BookAlways, PTL DEF Spec

LEMMA KeptAlways == Spec => []Kept
<1>1. Init => Kept
  BY KeptInit
<1>2. BookOK /\ Kept /\ [Next]_vars => Kept'
  BY KeptNext, KeptSame
<1> QED
  BY <1>1, <1>2, BookAlways, PTL DEF Spec

(* What the account holds stays in sight: a log that holds what happened,   *)
(* each thing once and in whatever order it was written, replays to what    *)
(* the broker holds (replay_shares_from_log, replay_short_calls), and a     *)
(* closed position holds nothing for reconciliation to miss                 *)
(* (expected_view_from_state).                                              *)
THEOREM NothingHiddenAlways == Spec => []NothingHidden
<1>1. BookOK /\ InStep /\ Account /\ Kept => NothingHidden
  <2> SUFFICES ASSUME BookOK, InStep, Account, Kept PROVE LogIsTruth /\ ClosedHoldsNothing
    BY DEF NothingHidden
  <2>1. Covered /\ InTold(log)
    BY DEF InStep, Kept
  <2> QED
    BY <2>1, LogIsTruthHere, ClosedIsBare
<1> QED
  BY <1>1, BookAlways, InStepAlways, AccountAlways, KeptAlways, PTL
=============================================================================
