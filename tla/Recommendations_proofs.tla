------------------------ MODULE Recommendations_proofs ------------------------
(***************************************************************************)
(* What a fill, a dismissal or a successor resolved stays resolved, and an *)
(* open record proposes to buy back the call that is sold, for any market, *)
(* any number of passes, rolls, dismissals and freezes and any validity of *)
(* a record, as long as no state was saved over another write and no       *)
(* record is antedated or halfway.  Fills stay in the log by themselves,   *)
(* if no state is saved over another write.                                *)
(*                                                                         *)
(* Resolutions are not kept but computed anew, from all fills, on every    *)
(* write.  Each fill takes one record that was a live claim when it        *)
(* happened, by an order of preference; so taking a record out of the      *)
(* claims moves fills on to others but sets none free (Fewer).             *)
(*                                                                         *)
(* While a roll is half booked its fill has the date of the leg bought     *)
(* back, and gets that of the leg sold.  Then the state without that fill  *)
(* (Before) is kept coherent too, for the fill to be booked on anew.       *)
(***************************************************************************)
EXTENDS Recommendations, SequenceTheorems, WellFoundedInduction, TLAPS

Moves == Claims \cup {Clear}
Instants == 0..End + 1
Record == [claim : Moves, of : Nat, at : Instants, supersedes : Nat,
           settle : {"none", "PENDING_SETTLE", "EXPIRED", "RELEASED", "SELF_CANCELED"},
           due : Nat, seen : Nat]
Exec == [order : Nat, src : Nat, claim : Moves, at : Instants]
Order == [src : Nat, of : Nat, claim : Moves, status : {"working", "filled", "booked", "canceled"}]
Store == [recs : Seq(Record), dismissed : SUBSET Nat, execs : Seq(Exec), short : Nat,
          granted : BOOLEAN, on : BOOLEAN, frozen : BOOLEAN, subs : SUBSET Nat,
          resolved : SUBSET Nat]

Pass == [pc : {"idle", "release", "load", "emit", "stage", "auto", "act"},
         now : Instants, copy : Store, new : Nat, todo : SUBSET Nat]
PassTyped(p) ==
  p \in Pass /\ p.todo \subseteq Ids(p.copy) /\ (p.pc = "act" <=> p.todo # {})

Op == [pc : {"idle", "dismiss", "grant", "spread"}, copy : Store, rec : Nat]
Bookings == [pc : {"idle", "sell", "load", "save"}, order : Nat, copy : Store]

Typed ==
  /\ clock \in Instants /\ held \in Nat /\ orders \in Seq(Order) /\ store \in Store
  /\ PassTyped(pass) /\ op \in Op /\ booking \in Bookings
  /\ booking.pc = "sell" => booking.order \in DOMAIN orders
  /\ crossed \in BOOLEAN

-----------------------------------------------------------------------------
(* The invariant, of a state s of the file.                                 *)

\* Actions that nothing resolved.  Each was superseded, or out of date, when
\* the next record was written; and no fill its evaluation did not know
\* happened while it was valid.
Unanswered(s) == {r \in Ids(s) \ s.resolved : IsAction(s.recs[r])}
Coherent(s) ==
  /\ s.resolved = Resolved(s)
  /\ \A i, j \in DOMAIN s.execs : i <= j => s.execs[i].at <= s.execs[j].at
  /\ \A q, r \in Ids(s) : q < r => s.recs[q].at < s.recs[r].at
  /\ \A r \in Ids(s) : /\ s.recs[r].of = 1 + s.recs[r].seen /\ s.recs[r].seen <= Len(s.execs)
                       /\ s.recs[r].supersedes < r
  /\ \A q \in Unanswered(s), p \in Ids(s) : q < p => Until(s.recs[q]) < s.recs[p].at
  /\ \A r \in Unanswered(s) : \A i \in DOMAIN s.execs :
       s.recs[r].seen < i => Until(s.recs[r]) < s.execs[i].at

Timely ==
  /\ pass.now <= clock
  /\ \A i \in DOMAIN store.execs : store.execs[i].at <= clock
  /\ \A r \in Ids(store) : store.recs[r].at <= pass.now
  /\ pass.pc \in {"release", "load", "emit"} =>
       \A r \in Ids(store) : store.recs[r].at < pass.now

\* What a pass evaluates is the file, but for fills and dismissals since.
Prior(c, s, now) ==
  /\ Coherent(c) /\ c.short <= s.short
  /\ c.recs = s.recs /\ c.dismissed \subseteq s.dismissed
  /\ Len(c.execs) <= Len(s.execs)
  /\ \A i \in DOMAIN c.execs : c.execs[i] = s.execs[i]
  /\ \A i \in DOMAIN s.execs : Len(c.execs) < i => now <= s.execs[i].at

\* The call sold last is known to the position, or its booking is under way.
ShortIs ==
  /\ store.short = IF booking.pc = "idle" THEN 1 + Len(store.execs) ELSE Len(store.execs)
  /\ \A r \in Ids(store) : store.recs[r].of <= store.short

\* The state without its last fill.
Unfilled(s) == [s EXCEPT !.execs = SubSeq(@, 1, Len(@) - 1)]
Before(s) == Derived(Unfilled(s))
HalfBooked ==
  /\ Len(store.execs) > 0 /\ store.execs[Len(store.execs)].order = booking.order
  /\ Coherent(Before(store))

\* What a pass evaluates that did not load while a roll was being booked.
Whole(c) == c.short = 1 + Len(c.execs)

Good ==
  /\ Coherent(store) /\ Timely /\ ShortIs
  /\ booking.pc = "sell" => HalfBooked
  /\ pass.pc = "emit" /\ Whole(pass.copy) => Prior(pass.copy, store, pass.now)

Dated == \A i \in DOMAIN store.execs : store.execs[i].at <= clock
IInv == Typed /\ FillsKept /\ (~crossed => Dated) /\ (InOrder => Good)

-----------------------------------------------------------------------------
(* Least and latest.                                                        *)

\* A set of naturals that is not empty has a least member.
LEMMA Smallest == ASSUME NEW T \in SUBSET Nat, T # {} PROVE \E n \in T : \A m \in T : n <= m
<1> DEFINE R == OpToRel(<, Nat)
<1>1. IsWellFoundedOn(R, Nat)
  BY NatLessThanWellFounded
<1> HIDE DEF R
<1>2. PICK n \in T : \A m \in T : ~(<<m, n>> \in R)
  BY <1>1, WFMin
<1>3. \A m \in T : ~(m < n)
  BY <1>2 DEF R, OpToRel
<1> QED
  BY <1>2, <1>3

\* What holds of 0 and goes on from each number to the next holds up to n.
LEMMA UpTo ==
  ASSUME NEW n \in Nat, NEW Bad \in SUBSET (0..n), 0 \notin Bad,
         \A m \in 0..n - 1 : m \notin Bad => m + 1 \notin Bad
  PROVE  Bad = {}
<1> SUFFICES ASSUME Bad # {} PROVE FALSE
  OBVIOUS
<1>1. PICK k \in Bad : \A m \in Bad : k <= m
  <2>1. Bad \in SUBSET Nat
    OBVIOUS
  <2> QED
    BY <2>1, Smallest
<1>2. k - 1 \in 0..n - 1 /\ k - 1 \notin Bad /\ (k - 1) + 1 = k
  BY <1>1
<1> QED
  BY <1>1, <1>2

LEMMA StoreFacts ==
  ASSUME NEW s \in Store
  PROVE  /\ Len(s.recs) \in Nat /\ DOMAIN s.recs = 1..Len(s.recs) /\ Ids(s) = 1..Len(s.recs)
         /\ Ids(s) \subseteq Nat /\ \A r \in Ids(s) : s.recs[r] \in Record
         /\ Len(s.execs) \in Nat /\ DOMAIN s.execs = 1..Len(s.execs)
         /\ \A i \in DOMAIN s.execs : s.execs[i] \in Exec
         /\ \A r \in Ids(s) : Until(s.recs[r]) \in Nat /\ s.recs[r].at <= Until(s.recs[r])
<1>1. s.recs \in Seq(Record) /\ s.execs \in Seq(Exec)
  BY DEF Store
<1>2. \A r \in DOMAIN s.recs : s.recs[r] \in Record
  BY <1>1
<1>3. \A i \in DOMAIN s.execs : s.execs[i] \in Exec
  BY <1>1
<1>4. \A rec \in Record : Until(rec) \in Nat /\ rec.at <= Until(rec)
  BY RecommendationConstants DEF Until, Record, Moves, Instants
<1> QED
  BY <1>1, <1>2, <1>3, <1>4 DEF Ids

Later(s, q, r) ==
  s.recs[q].at < s.recs[r].at \/ (s.recs[q].at = s.recs[r].at /\ r < q)

LEMMA LatestIs ==
  ASSUME NEW s \in Store, NEW rs \in SUBSET Ids(s), rs # {}
  PROVE  /\ Latest(s, rs) \in rs /\ \A q \in rs \ {Latest(s, rs)} : Later(s, q, Latest(s, rs))
         /\ \A x \in rs : (\A q \in rs \ {x} : Later(s, q, x)) => x = Latest(s, rs)
<1>1. /\ rs \in SUBSET Nat /\ End + 1 \in Nat
      /\ \A r \in rs : s.recs[r].at \in Nat /\ s.recs[r].at <= End + 1
  <2>1. Ids(s) \subseteq Nat /\ \A r \in Ids(s) : s.recs[r] \in Record
    BY StoreFacts
  <2>2. End \in Nat
    BY RecommendationConstants
  <2>3. \A rec \in Record : rec.at \in Nat /\ rec.at <= End + 1
    BY <2>2 DEF Record, Instants
  <2> QED
    BY <2>1, <2>2, <2>3
<1> DEFINE left == {m \in Nat : \E r \in rs : m = (End + 1) - s.recs[r].at}
<1>2. left \in SUBSET Nat /\ left # {}
  <2>1. PICK r : r \in rs
    OBVIOUS
  <2>2. (End + 1) - s.recs[r].at \in Nat
    BY <1>1, <2>1
  <2> QED
    BY <2>1, <2>2
<1>3. PICK m \in left : \A k \in left : m <= k
  BY <1>2, Smallest
<1>4. PICK top \in rs : \A r \in rs : s.recs[r].at <= s.recs[top].at
  <2>1. PICK top \in rs : m = (End + 1) - s.recs[top].at
    BY <1>3
  <2>2. ASSUME NEW r \in rs PROVE s.recs[r].at <= s.recs[top].at
    <3>1. (End + 1) - s.recs[r].at \in left
      BY <1>1
    <3>2. m <= (End + 1) - s.recs[r].at
      BY <1>3, <3>1
    <3>3. \A a, b, c \in Nat : a <= c /\ b <= c /\ c - a <= c - b => b <= a
      OBVIOUS
    <3>4. s.recs[top].at \in Nat /\ s.recs[r].at \in Nat
      BY <1>1, <2>1
    <3>5. s.recs[top].at <= End + 1 /\ s.recs[r].at <= End + 1 /\ End + 1 \in Nat
      BY <1>1, <2>1
    <3> HIDE DEF left
    <3> QED
      BY <2>1, <3>2, <3>3, <3>4, <3>5
  <2> QED
    BY <2>2
<1> HIDE DEF left
<1>5. PICK x \in {r \in rs : s.recs[r].at = s.recs[top].at} :
        \A r \in {q \in rs : s.recs[q].at = s.recs[top].at} : x <= r
  <2>1. {r \in rs : s.recs[r].at = s.recs[top].at} \in SUBSET Nat
    BY <1>1
  <2>2. {r \in rs : s.recs[r].at = s.recs[top].at} # {}
    BY <1>4
  <2> QED
    BY <2>1, <2>2, Smallest
<1>6. x \in rs /\ \A q \in rs \ {x} : Later(s, q, x)
  <2>1. x \in rs /\ s.recs[x].at = s.recs[top].at /\ x \in Nat
    BY <1>1, <1>5
  <2>2. ASSUME NEW q \in rs \ {x} PROVE Later(s, q, x)
    <3>1. s.recs[q].at <= s.recs[x].at /\ s.recs[q].at \in Nat /\ s.recs[x].at \in Nat /\ q \in Nat
      BY <1>1, <1>4, <2>1
    <3>2. s.recs[q].at = s.recs[x].at => x <= q
      BY <1>5, <2>1
    <3>3. \A a, b, i, j \in Nat : a <= b /\ (a = b => i <= j) /\ i # j => a < b \/ (a = b /\ i < j)
      OBVIOUS
    <3> QED
      BY <2>1, <3>1, <3>2, <3>3 DEF Later
  <2> QED
    BY <2>1, <2>2
<1>7. Latest(s, rs) \in rs /\ \A q \in rs \ {Latest(s, rs)} : Later(s, q, Latest(s, rs))
  BY <1>6 DEF Latest, Later
<1>8. \A y, z \in rs : Later(s, y, z) => ~Later(s, z, y)
  BY <1>1 DEF Later
<1> QED
  BY <1>7, <1>8

\* The record a fill takes among those that are live, in the end.
Pick(s, e, live) == IF Chosen(s, e, live) # 0 THEN Chosen(s, e, live) ELSE Latest(s, live)

\* Records are compared by what they claim and when they were made.
Alike(s, t) ==
  Ids(s) \subseteq Ids(t) /\ \A r \in Ids(s) : /\ t.recs[r].claim = s.recs[r].claim
                                               /\ t.recs[r].at = s.recs[r].at

LEMMA LatestStable ==
  ASSUME NEW s \in Store, NEW t \in Store, Alike(s, t),
         NEW big \in SUBSET Ids(s), NEW rs \in SUBSET big, big # {}, Latest(s, big) \in rs
  PROVE  Latest(t, rs) = Latest(s, big)
<1>1. rs \in SUBSET Ids(t) /\ rs # {}
  BY DEF Alike
<1>2. \A q \in rs \ {Latest(s, big)} : Later(t, q, Latest(s, big))
  BY LatestIs DEF Alike, Later
<1> QED
  BY <1>1, <1>2, LatestIs

LEMMA PickIn ==
  ASSUME NEW s \in Store, NEW e, NEW live \in SUBSET Ids(s), live # {}
  PROVE  Pick(s, e, live) \in live
<1>1. \A rs \in SUBSET live : rs # {} => Latest(s, rs) \in rs
  BY LatestIs
<1>2. Chosen(s, e, live) = 0 \/ Chosen(s, e, live) \in live
  BY <1>1 DEF Chosen
<1> QED
  BY <1>1, <1>2 DEF Pick

\* The fill's preference does not depend on the records it would not take.
LEMMA PickStable ==
  ASSUME NEW s \in Store, NEW t \in Store, Alike(s, t), NEW e,
         NEW big \in SUBSET Ids(s), NEW live \in SUBSET big, big # {}, Pick(s, e, big) \in live
  PROVE  Pick(t, e, live) = Pick(s, e, big)
<1> DEFINE exact(u, rs) == {r \in rs : u.recs[r].claim = e.claim}
           rolls(u, rs) == {r \in rs : u.recs[r].claim \in Rolls}
<1>1. /\ exact(t, live) = exact(s, big) \cap live /\ rolls(t, live) = rolls(s, big) \cap live
      /\ exact(s, big) \in SUBSET Ids(s) /\ rolls(s, big) \in SUBSET Ids(s)
  BY DEF Alike
<1>2. 0 \notin Ids(s)
  BY StoreFacts
<1>3. /\ \A u, rs : e.src \in rs => Chosen(u, e, rs) = e.src
      /\ \A u, rs : e.src \notin rs /\ exact(u, rs) # {} => Chosen(u, e, rs) = Latest(u, exact(u, rs))
      /\ \A u, rs : e.src \notin rs /\ exact(u, rs) = {} /\ rolls(u, rs) # {} =>
           Chosen(u, e, rs) = Latest(u, rolls(u, rs))
      /\ \A u, rs : e.src \notin rs /\ exact(u, rs) = {} /\ rolls(u, rs) = {} =>
           Chosen(u, e, rs) = 0
  BY DEF Chosen
<1> HIDE DEF exact, rolls
<1>4. CASE e.src \in big
  BY <1>2, <1>3, <1>4 DEF Pick
<1>5. CASE e.src \notin big /\ exact(s, big) # {}
  <2>1. Latest(s, exact(s, big)) \in exact(s, big)
    BY <1>1, <1>5, LatestIs
  <2>2. Pick(s, e, big) = Latest(s, exact(s, big))
    BY <1>1, <1>2, <1>3, <1>5, <2>1 DEF Pick
  <2>3. Latest(s, exact(s, big)) \in exact(t, live)
    BY <1>1, <2>1, <2>2
  <2>4. Latest(t, exact(t, live)) = Latest(s, exact(s, big))
    BY <1>1, <1>5, <2>3, LatestStable
  <2> QED
    BY <1>1, <1>2, <1>3, <1>5, <2>2, <2>3, <2>4 DEF Pick
<1>6. CASE e.src \notin big /\ exact(s, big) = {} /\ rolls(s, big) # {}
  <2>1. Latest(s, rolls(s, big)) \in rolls(s, big)
    BY <1>1, <1>6, LatestIs
  <2>2. Pick(s, e, big) = Latest(s, rolls(s, big))
    BY <1>1, <1>2, <1>3, <1>6, <2>1 DEF Pick
  <2>3. Latest(s, rolls(s, big)) \in rolls(t, live)
    BY <1>1, <2>1, <2>2
  <2>4. Latest(t, rolls(t, live)) = Latest(s, rolls(s, big))
    BY <1>1, <1>6, <2>3, LatestStable
  <2>5. exact(t, live) = {} /\ rolls(t, live) # {} /\ e.src \notin live
    BY <1>1, <1>6, <2>3
  <2>6. Chosen(t, e, live) = Latest(t, rolls(t, live))
    BY <1>3, <2>5
  <2>7. Latest(s, rolls(s, big)) # 0
    BY <1>1, <1>2, <2>1
  <2> QED
    BY <2>2, <2>4, <2>6, <2>7 DEF Pick
<1>7. CASE e.src \notin big /\ exact(s, big) = {} /\ rolls(s, big) = {}
  <2>1. e.src \notin live /\ exact(t, live) = {} /\ rolls(t, live) = {}
    BY <1>1, <1>7
  <2>2. Pick(s, e, big) = Latest(s, big) /\ Pick(t, e, live) = Latest(t, live)
    BY <1>3, <1>7, <2>1 DEF Pick
  <2> QED
    BY <2>2, LatestStable
<1> QED
  BY <1>4, <1>5, <1>6, <1>7


-----------------------------------------------------------------------------
(* The fold of the community modules, as the function its definition        *)
(* chooses, and as a run of values, each got from the one before.           *)

Start == [matched |-> {}, differently |-> {}, missed |-> {}]
Top(S) == CHOOSE x \in S : \A y \in S : x >= y
Undone(g, s, S) == IF S = {} THEN Start ELSE Credited(s, g[S \ {Top(S)}], s.execs[Top(S)])
Folds(g, s, m) == g = [S \in SUBSET (1..m) |-> Undone(g, s, S)]

\* Taking the largest index of a set of indices.
LEMMA TopOf ==
  ASSUME NEW m \in Nat, NEW S \in SUBSET (1..m + 1), S # {}
  PROVE  S \ {Top(S)} \in SUBSET (1..m) /\ (m + 1 \in S => Top(S) = m + 1)
<1>1. \A x \in S : x \in Nat /\ 1 <= x /\ x <= m + 1
  OBVIOUS
<1>2. CASE m + 1 \in S
  <2>1. \A y \in S : m + 1 >= y
    OBVIOUS
  <2>2. Top(S) \in S /\ \A y \in S : Top(S) >= y
    BY <1>2, <2>1 DEF Top
  <2>3. Top(S) \in Nat /\ Top(S) <= m + 1 /\ Top(S) >= m + 1
    BY <1>1, <1>2, <2>2
  <2>4. Top(S) = m + 1
    BY <2>3
  <2>5. \A x \in S \ {m + 1} : x \in 1..m
    BY <1>1
  <2> QED
    BY <2>4, <2>5
<1>3. CASE m + 1 \notin S
  <2>1. \A x \in S : x \in 1..m
    BY <1>1, <1>3
  <2> QED
    BY <1>3, <2>1
<1> QED
  BY <1>2, <1>3

\* The function exists, for a log of any length.
LEMMA FoldExists == ASSUME NEW s, NEW n \in Nat PROVE \E g : Folds(g, s, n)
<1> DEFINE Bad == {m \in 0..n : ~\E g : Folds(g, s, m)}
<1>1. 0 \notin Bad
  <2>1. 1..0 = {}
    OBVIOUS
  <2>2. Folds([S \in SUBSET (1..0) |-> Start], s, 0)
    BY <2>1 DEF Folds, Undone
  <2> QED
    BY <2>2
<1>2. ASSUME NEW m \in 0..n - 1, m \notin Bad PROVE m + 1 \notin Bad
  <2>1. PICK g : Folds(g, s, m)
    BY <1>2
  <2> DEFINE h == [S \in SUBSET (1..m + 1) |-> Undone(g, s, S)]
  <2>2. m \in Nat /\ \A S \in SUBSET (1..m) : h[S] = g[S]
    BY <2>1 DEF Folds
  <2>3. ASSUME NEW S \in SUBSET (1..m + 1), S # {} PROVE S \ {Top(S)} \in SUBSET (1..m)
    BY <2>2, <2>3, TopOf
  <2>4. \A S \in SUBSET (1..m + 1) : Undone(g, s, S) = Undone(h, s, S)
    BY <2>2, <2>3 DEF Undone
  <2>5. Folds(h, s, m + 1)
    BY <2>4 DEF Folds
  <2> QED
    BY <2>5
<1>3. Bad \in SUBSET (0..n)
  OBVIOUS
<1> HIDE DEF Bad
<1>4. Bad = {}
  BY <1>1, <1>2, <1>3, UpTo
<1> QED
  BY <1>4 DEF Bad

\* So the fold is the value of such a function.
LEMMA FoldIs ==
  ASSUME NEW s \in Store
  PROVE  \E g : Folds(g, s, Len(s.execs)) /\ Credit(s) = g[1..Len(s.execs)]
<1> DEFINE g == CHOOSE f : f = [S \in SUBSET DOMAIN s.execs |->
                  IF S = {} THEN Start ELSE Credited(s, f[S \ {Top(S)}], s.execs[Top(S)])]
<1>1. Credit(s) = g[DOMAIN s.execs]
  BY DEF Credit, FoldLeft, MapThenFoldSet, Max, Top, Start
<1>2. DOMAIN s.execs = 1..Len(s.execs) /\ Len(s.execs) \in Nat
  BY StoreFacts
<1>3. \E f : Folds(f, s, Len(s.execs))
  BY <1>2, FoldExists
<1>4. \E f : f = [S \in SUBSET DOMAIN s.execs |->
             IF S = {} THEN Start ELSE Credited(s, f[S \ {Top(S)}], s.execs[Top(S)])]
  BY <1>2, <1>3 DEF Folds, Undone
<1>5. Folds(g, s, Len(s.execs))
  BY <1>2, <1>4 DEF Folds, Undone
<1> QED
  BY <1>1, <1>2, <1>5

LEMMA FoldRun ==
  ASSUME NEW s \in Store
  PROVE  \E R : /\ R[0] = Start /\ R[Len(s.execs)] = Credit(s)
                /\ \A m \in 0..Len(s.execs) - 1 : R[m + 1] = Credited(s, R[m], s.execs[m + 1])
<1> DEFINE n == Len(s.execs)
<1>1. PICK g : Folds(g, s, n) /\ Credit(s) = g[1..n]
  BY FoldIs
<1> DEFINE R == [m \in 0..n |-> g[1..m]]
<1>2. n \in Nat
  BY StoreFacts
<1> HIDE DEF n
<1>3. g[{}] = Start /\ 1..0 = {}
  BY <1>1, <1>2 DEF Folds, Undone
<1>4. ASSUME NEW m \in 0..n - 1 PROVE R[m + 1] = Credited(s, R[m], s.execs[m + 1])
  <2>1. m \in Nat /\ m <= n /\ m + 1 <= n /\ m \in 0..n /\ m + 1 \in 0..n
    BY <1>2
  <2>2. 1..m + 1 \in SUBSET (1..n) /\ 1..m + 1 # {}
    <3>1. \A x \in 1..m + 1 : x \in 1..n
      BY <1>2, <2>1
    <3>2. m + 1 \in 1..m + 1
      BY <2>1
    <3> QED
      BY <3>1, <3>2
  <2>3. Top(1..m + 1) = m + 1
    BY <2>1, TopOf
  <2>4. (1..m + 1) \ {m + 1} = 1..m
    BY <2>1
  <2>5. g[1..m + 1] = Credited(s, g[1..m], s.execs[m + 1])
    BY <1>1, <1>2, <2>2, <2>3, <2>4 DEF Folds, Undone
  <2> QED
    BY <2>1, <2>5
<1>5. R[0] = Start /\ R[n] = Credit(s)
  BY <1>1, <1>2, <1>3
<1> QED
  BY <1>4, <1>5 DEF n

-----------------------------------------------------------------------------
(* The records the fills take, without the reason.                          *)

Credits(s) == Credit(s).matched \cup Credit(s).differently
Taken(s, A, e) ==
  LET live == Claimable(s, e) \ A IN IF live = {} THEN A ELSE A \cup {Pick(s, e, live)}
Takes(s, K) ==
  /\ K[0] = {}
  /\ \A m \in 0..Len(s.execs) - 1 : K[m + 1] = Taken(s, K[m], s.execs[m + 1])

Tally == [matched : SUBSET Nat, differently : SUBSET Nat, missed : SUBSET Nat]

LEMMA CreditedTakes ==
  ASSUME NEW s \in Store, NEW acc \in Tally, NEW e \in Exec
  PROVE  /\ Credited(s, acc, e) \in Tally
         /\ Credited(s, acc, e).matched \cup Credited(s, acc, e).differently
              = Taken(s, acc.matched \cup acc.differently, e)
<1> DEFINE A == acc.matched \cup acc.differently
           live == Claimable(s, e) \ A
           chosen == Chosen(s, e, live)
<1>1. live \in SUBSET Ids(s) /\ Ids(s) \subseteq Nat /\ 0 \notin Ids(s)
  BY StoreFacts DEF Claimable
<1>2. e.order \in Nat
  BY DEF Exec
<1>3. Credited(s, acc, e) =
        IF chosen # 0 THEN [acc EXCEPT !.matched = @ \cup {chosen}]
        ELSE IF live # {} THEN [acc EXCEPT !.differently = @ \cup {Latest(s, live)}]
        ELSE [acc EXCEPT !.missed = @ \cup {e.order}]
  BY DEF Credited
<1>4. Taken(s, A, e) = IF live = {} THEN A ELSE A \cup {Pick(s, e, live)}
  BY DEF Taken
<1> HIDE DEF live
<1>5. CASE live = {}
  <2>1. chosen = 0
    BY <1>5 DEF Chosen
  <2> QED
    BY <1>2, <1>3, <1>4, <1>5, <2>1 DEF Tally
<1>6. CASE live # {}
  <2>1. Pick(s, e, live) \in live /\ Pick(s, e, live) \in Nat
    BY <1>1, <1>6, PickIn
  <2>2. CASE chosen # 0
    <3>1. Pick(s, e, live) = chosen
      BY <2>2 DEF Pick
    <3> HIDE DEF chosen
    <3> QED
      BY <1>3, <1>4, <1>6, <2>1, <2>2, <3>1 DEF Tally
  <2>3. CASE chosen = 0
    <3>1. Pick(s, e, live) = Latest(s, live)
      BY <2>3 DEF Pick
    <3> HIDE DEF chosen
    <3> QED
      BY <1>3, <1>4, <1>6, <2>1, <2>3, <3>1 DEF Tally
  <2> QED
    BY <2>2, <2>3
<1> QED
  BY <1>5, <1>6

LEMMA CreditsRun ==
  ASSUME NEW s \in Store
  PROVE  \E K : Takes(s, K) /\ K[Len(s.execs)] = Credits(s)
<1> DEFINE n == Len(s.execs)
<1>1. PICK R : /\ R[0] = Start /\ R[n] = Credit(s)
               /\ \A m \in 0..n - 1 : R[m + 1] = Credited(s, R[m], s.execs[m + 1])
  BY FoldRun
<1>2. n \in Nat /\ \A i \in 1..n : s.execs[i] \in Exec
  BY StoreFacts
<1> HIDE DEF n
<1> DEFINE Bad == {m \in 0..n : R[m] \notin Tally}
<1>3. 0 \notin Bad
  BY <1>1 DEF Start, Tally
<1>4. ASSUME NEW m \in 0..n - 1, m \notin Bad PROVE m + 1 \notin Bad
  <2>1. m \in 0..n /\ m + 1 \in 1..n
    BY <1>2
  <2>2. R[m] \in Tally /\ s.execs[m + 1] \in Exec
    BY <1>2, <1>4, <2>1
  <2> QED
    BY <1>1, <2>2, CreditedTakes
<1>5. Bad = {}
  <2>1. Bad \in SUBSET (0..n)
    OBVIOUS
  <2> HIDE DEF Bad
  <2> QED
    BY <1>2, <1>3, <1>4, <2>1, UpTo
<1>6. \A m \in 0..n : R[m] \in Tally
  BY <1>5
<1> HIDE DEF Bad
<1> DEFINE K == [m \in 0..n |-> R[m].matched \cup R[m].differently]
<1>7. ASSUME NEW m \in 0..n - 1 PROVE K[m + 1] = Taken(s, K[m], s.execs[m + 1])
  <2>1. m \in 0..n /\ m + 1 \in 1..n /\ m + 1 \in 0..n
    BY <1>2
  <2>2. R[m] \in Tally /\ s.execs[m + 1] \in Exec
    BY <1>2, <1>6, <2>1
  <2>3. R[m + 1].matched \cup R[m + 1].differently
          = Taken(s, R[m].matched \cup R[m].differently, s.execs[m + 1])
    <3>1. R[m + 1] = Credited(s, R[m], s.execs[m + 1])
      BY <1>1
    <3>2. \A acc \in Tally, e \in Exec :
            Credited(s, acc, e).matched \cup Credited(s, acc, e).differently
              = Taken(s, acc.matched \cup acc.differently, e)
      BY CreditedTakes
    <3> QED
      BY <2>2, <3>1, <3>2
  <2> QED
    BY <2>1, <2>3
<1>8. K[0] = {} /\ K[n] = Credits(s)
  BY <1>1, <1>2 DEF Start, Credits
<1> QED
  BY <1>7, <1>8 DEF Takes, n

\* A fill takes a record no fill took before, one that could be claimed.
LEMMA TakenFacts ==
  ASSUME NEW s \in Store, NEW A, NEW e
  PROVE  /\ A \subseteq Taken(s, A, e) /\ Taken(s, A, e) \subseteq A \cup Claimable(s, e)
         /\ Claimable(s, e) \subseteq Ids(s)
         /\ Claimable(s, e) \ A # {} => Pick(s, e, Claimable(s, e) \ A) \in Claimable(s, e) \ A
         /\ \A x : Claimable(s, e) \subseteq A \cup {x} => Claimable(s, e) \subseteq Taken(s, A, e)
<1>1. Claimable(s, e) \subseteq Ids(s)
  BY DEF Claimable
<1>2. Claimable(s, e) \ A # {} => Pick(s, e, Claimable(s, e) \ A) \in Claimable(s, e) \ A
  BY <1>1, PickIn
<1> QED
  BY <1>1, <1>2 DEF Taken

\* What is taken stays taken, and only records are.
LEMMA RunGrows ==
  ASSUME NEW s \in Store, NEW K, Takes(s, K)
  PROVE  /\ \A m \in 0..Len(s.execs) : K[m] \subseteq Ids(s)
         /\ \A m, n \in 0..Len(s.execs) : m <= n => K[m] \subseteq K[n]
<1> DEFINE l == Len(s.execs)
<1>1. l \in Nat /\ K[0] = {} /\ \A m \in 0..l - 1 : K[m + 1] = Taken(s, K[m], s.execs[m + 1])
  BY StoreFacts DEF Takes
<1>0. \A A, e : A \subseteq Taken(s, A, e) /\ Taken(s, A, e) \subseteq A \cup Ids(s)
  BY TakenFacts
<1> HIDE DEF l
<1>2. \A m \in 0..l : K[m] \subseteq Ids(s)
  <2> DEFINE Bad == {m \in 0..l : ~(K[m] \subseteq Ids(s))}
  <2>1. 0 \notin Bad
    BY <1>1
  <2>2. ASSUME NEW m \in 0..l - 1, m \notin Bad PROVE m + 1 \notin Bad
    <3>1. K[m] \subseteq Ids(s)
      BY <1>1, <2>2
    <3>2. K[m + 1] = Taken(s, K[m], s.execs[m + 1])
      BY <1>1
    <3>3. K[m + 1] \subseteq Ids(s)
      BY <1>0, <3>1, <3>2
    <3> QED
      BY <3>3
  <2>3. Bad \in SUBSET (0..l)
    OBVIOUS
  <2> HIDE DEF Bad
  <2>4. Bad = {}
    BY <1>1, <2>1, <2>2, <2>3, UpTo
  <2> QED
    BY <2>4 DEF Bad
<1>3. ASSUME NEW m \in 0..l PROVE \A n \in 0..l : m <= n => K[m] \subseteq K[n]
  <2> DEFINE Bad == {n \in 0..l : m <= n /\ ~(K[m] \subseteq K[n])}
  <2>1. 0 \notin Bad
    BY <1>1
  <2>2. ASSUME NEW n \in 0..l - 1, n \notin Bad PROVE n + 1 \notin Bad
    <3>1. K[n] \subseteq K[n + 1]
      <4>1. K[n + 1] = Taken(s, K[n], s.execs[n + 1])
        BY <1>1
      <4> QED
        BY <1>0, <4>1
    <3>2. m <= n \/ n + 1 < m \/ n + 1 = m
      OBVIOUS
    <3>3. m <= n => K[m] \subseteq K[n]
      BY <1>1, <2>2
    <3> QED
      BY <3>1, <3>2, <3>3
  <2>3. Bad \in SUBSET (0..l)
    OBVIOUS
  <2> HIDE DEF Bad
  <2>4. Bad = {}
    BY <1>1, <2>1, <2>2, <2>3, UpTo
  <2> QED
    BY <2>4 DEF Bad
<1> QED
  BY <1>2, <1>3 DEF l

-----------------------------------------------------------------------------
(* Comparing two states of the file.                                        *)

\* The first n fills are the same, and can claim the same records but for V.
Agree(s, t, V, n) ==
  /\ Alike(s, t) /\ n \in Nat /\ n <= Len(s.execs) /\ n <= Len(t.execs)
  /\ \A i \in 1..n : /\ t.execs[i] = s.execs[i]
                     /\ Claimable(t, s.execs[i]) = Claimable(s, s.execs[i]) \ V

\* If a record that could be claimed in s can be claimed in t unless it is in
\* V, what the fills take in s they take in t, but for V: a fill that loses
\* its record moves on to another, and no record is set free by that.
LEMMA Fewer ==
  ASSUME NEW s \in Store, NEW t \in Store, NEW V, NEW n, Agree(s, t, V, n),
         NEW K, NEW L, Takes(s, K), Takes(t, L)
  PROVE  K[n] \ V \subseteq L[n]
<1>0. /\ Alike(s, t) /\ n \in Nat /\ n <= Len(s.execs) /\ n <= Len(t.execs)
      /\ \A i \in 1..n : /\ t.execs[i] = s.execs[i]
                         /\ Claimable(t, s.execs[i]) = Claimable(s, s.execs[i]) \ V
  BY DEF Agree
<1> DEFINE Bad == {m \in 0..n : ~(K[m] \ V \subseteq L[m])}
<1>1. Len(s.execs) \in Nat /\ Len(t.execs) \in Nat
  BY StoreFacts
<1>2. 0 \notin Bad
  BY <1>0 DEF Takes
<1>3. ASSUME NEW m \in 0..n - 1, m \notin Bad PROVE m + 1 \notin Bad
  <2> DEFINE e == s.execs[m + 1]
             A == K[m]
             B == L[m]
             big == Claimable(s, e) \ A
             live == Claimable(t, e) \ B
  <2>1. m \in 0..n /\ m + 1 \in 1..n /\ m \in 0..Len(s.execs) - 1 /\ m \in 0..Len(t.execs) - 1
    BY <1>0, <1>1
  <2>2. t.execs[m + 1] = e /\ Claimable(t, e) = Claimable(s, e) \ V
    BY <1>0, <2>1
  <2>3. K[m + 1] = Taken(s, A, e)
    BY <2>1 DEF Takes
  <2>4. L[m + 1] = Taken(t, B, e)
    BY <2>1, <2>2 DEF Takes
  <2>5. A \ V \subseteq B
    BY <1>3, <2>1
  <2> HIDE DEF A, B, e
  <2>6. B \subseteq Taken(t, B, e) /\ Claimable(s, e) \subseteq Ids(s)
    BY TakenFacts
  <2>7. big \in SUBSET Ids(s) /\ live \in SUBSET big
    BY <2>2, <2>5, <2>6
  <2>8. Taken(s, A, e) = IF big = {} THEN A ELSE A \cup {Pick(s, e, big)}
    BY DEF Taken
  <2>9. Taken(t, B, e) = IF live = {} THEN B ELSE B \cup {Pick(t, e, live)}
    BY DEF Taken
  <2>10. ASSUME big # {}, Pick(s, e, big) \notin V, Pick(s, e, big) \notin B
         PROVE  Pick(s, e, big) \in live
    <3>1. Pick(s, e, big) \in big
      BY <2>7, <2>10, PickIn
    <3> QED
      BY <2>2, <2>10, <3>1
  <2>11. big # {} /\ Pick(s, e, big) \in live => Pick(t, e, live) = Pick(s, e, big)
    BY <1>0, <2>7, PickStable
  <2> HIDE DEF big, live
  <2>12. Taken(s, A, e) \ V \subseteq Taken(t, B, e)
    <3>1. CASE big = {}
      BY <2>5, <2>6, <2>8, <3>1
    <3>2. CASE big # {}
      <4>1. Pick(s, e, big) \in V \/ Pick(s, e, big) \in Taken(t, B, e)
        BY <2>6, <2>9, <2>10, <2>11, <3>2
      <4> QED
        BY <2>5, <2>6, <2>8, <3>2, <4>1
    <3> QED
      BY <3>1, <3>2
  <2> QED
    BY <2>3, <2>4, <2>12
<1>4. Bad \in SUBSET (0..n)
  OBVIOUS
<1> HIDE DEF Bad
<1>5. Bad = {}
  BY <1>0, <1>2, <1>3, <1>4, UpTo
<1> QED
  BY <1>0, <1>5 DEF Bad

\* Superseded records.
Gone(s) == {r \in Ids(s) : Successors(s, r) # {}}

LEMMA ResolvedIs == \A s : Resolved(s) = Credits(s) \cup s.dismissed \cup Gone(s)
BY DEF Resolved, Credits, Gone

\* The same records and fills, whatever the flags, the grants and the
\* deferrals are.
SameBook(s, t) ==
  /\ Ids(t) = Ids(s) /\ t.execs = s.execs /\ t.dismissed = s.dismissed
  /\ \A r \in Ids(s) : /\ t.recs[r].claim = s.recs[r].claim /\ t.recs[r].at = s.recs[r].at
                       /\ t.recs[r].of = s.recs[r].of /\ t.recs[r].seen = s.recs[r].seen
                       /\ t.recs[r].supersedes = s.recs[r].supersedes

LEMMA SameClaims ==
  ASSUME NEW s \in Store, NEW t \in Store, SameBook(s, t)
  PROVE  /\ \A r : Successors(t, r) = Successors(s, r)
         /\ \A e : Claimable(t, e) = Claimable(s, e)
         /\ \A r \in Ids(s) : Until(t.recs[r]) = Until(s.recs[r])
                              /\ IsAction(t.recs[r]) = IsAction(s.recs[r])
<1>1. \A r : Successors(t, r) = Successors(s, r)
  BY DEF SameBook, Successors
<1>2. \A r \in Ids(s) : Until(t.recs[r]) = Until(s.recs[r])
                        /\ IsAction(t.recs[r]) = IsAction(s.recs[r])
  BY DEF SameBook, Until, IsAction
<1>3. ASSUME NEW e, NEW r \in Ids(s) PROVE Stands(t, r, e) = Stands(s, r, e)
  <2> DEFINE q == CHOOSE q \in Successors(s, r) : \A p \in Successors(s, r) : q <= p
  <2>1. CASE Successors(s, r) = {}
    BY <1>1, <2>1 DEF Stands
  <2>2. CASE \E x \in Successors(s, r) : \A p \in Successors(s, r) : x <= p
    <3>1. q \in Ids(s)
      BY <2>2 DEF Successors
    <3>2. Stands(t, r, e) = (Successors(s, r) = {} \/ (~IsAction(t.recs[q]) /\ e.at <= t.recs[q].at))
      BY <1>1 DEF Stands
    <3>3. Stands(s, r, e) = (Successors(s, r) = {} \/ (~IsAction(s.recs[q]) /\ e.at <= s.recs[q].at))
      BY DEF Stands
    <3> QED
      BY <1>2, <3>1, <3>2, <3>3 DEF SameBook
  <2>3. CASE Successors(s, r) # {} /\ ~\E x \in Successors(s, r) : \A p \in Successors(s, r) : x <= p
    <3>1. Successors(s, r) \in SUBSET Nat
      BY StoreFacts DEF Successors
    <3> QED
      BY <2>3, <3>1, Smallest
  <2> QED
    BY <2>1, <2>2, <2>3
<1>4. ASSUME NEW e PROVE Claimable(t, e) = Claimable(s, e)
  BY <1>2, <1>3 DEF SameBook, Claimable
<1> QED
  BY <1>1, <1>2, <1>4

LEMMA SameResolved ==
  ASSUME NEW s \in Store, NEW t \in Store, SameBook(s, t)
  PROVE  Resolved(t) = Resolved(s)
<1> DEFINE n == Len(s.execs)
<1>1. n \in Nat /\ Len(t.execs) = n
  BY StoreFacts DEF SameBook
<1>2. PICK K : Takes(s, K) /\ K[n] = Credits(s)
  BY CreditsRun
<1>3. PICK L : Takes(t, L) /\ L[n] = Credits(t)
  BY <1>1, CreditsRun
<1>4. Alike(s, t) /\ Alike(t, s)
  BY DEF SameBook, Alike
<1>5. \A i \in 1..n : /\ t.execs[i] = s.execs[i]
                      /\ Claimable(t, s.execs[i]) = Claimable(s, s.execs[i]) \ {}
  BY SameClaims DEF SameBook
<1>6. \A i \in 1..n : /\ s.execs[i] = t.execs[i]
                      /\ Claimable(s, t.execs[i]) = Claimable(t, t.execs[i]) \ {}
  BY SameClaims DEF SameBook
<1>7. Agree(s, t, {}, n) /\ Agree(t, s, {}, n)
  BY <1>1, <1>4, <1>5, <1>6 DEF Agree
<1> HIDE DEF n
<1>8. K[n] \ {} \subseteq L[n]
  BY <1>2, <1>3, <1>7, Fewer
<1>9. L[n] \ {} \subseteq K[n]
  BY <1>2, <1>3, <1>7, Fewer
<1>10. Gone(t) = Gone(s)
  BY SameClaims DEF Gone, SameBook
<1> QED
  BY <1>2, <1>3, <1>8, <1>9, <1>10, ResolvedIs DEF SameBook

LEMMA SameCoherent ==
  ASSUME NEW s \in Store, NEW t \in Store, SameBook(s, t), t.resolved = s.resolved, Coherent(s)
  PROVE  Coherent(t)
<1>1. Resolved(t) = Resolved(s)
  BY SameResolved
<1>2. Unanswered(t) = Unanswered(s)
  BY SameClaims DEF Unanswered, SameBook
<1>3. \A r \in Ids(s) : Until(t.recs[r]) = Until(s.recs[r])
  BY SameClaims
<1>4. Unanswered(s) \subseteq Ids(s)
  BY DEF Unanswered
<1> QED
  BY <1>1, <1>2, <1>3, <1>4 DEF Coherent, SameBook

\* Storing the resolutions.
LEMMA DerivedIs ==
  ASSUME NEW s \in Store
  PROVE  /\ Derived(s) \in Store /\ SameBook(s, Derived(s))
         /\ Derived(s).recs = s.recs /\ Derived(s).execs = s.execs
         /\ Derived(s).dismissed = s.dismissed /\ Derived(s).short = s.short
         /\ Derived(s).granted = s.granted /\ Derived(s).on = s.on
         /\ Derived(s).frozen = s.frozen /\ Derived(s).subs = s.subs
         /\ Derived(s).resolved = Resolved(s) /\ Resolved(Derived(s)) = Resolved(s)
<1>1. Resolved(s) \in SUBSET Nat
  <2>1. PICK K : Takes(s, K) /\ K[Len(s.execs)] = Credits(s)
    BY CreditsRun
  <2>2. Len(s.execs) \in 0..Len(s.execs)
    BY StoreFacts
  <2>3. Credits(s) \subseteq Ids(s)
    BY <2>1, <2>2, RunGrows
  <2>4. s.dismissed \in SUBSET Nat /\ Ids(s) \subseteq Nat /\ Gone(s) \subseteq Ids(s)
    BY StoreFacts DEF Store, Gone
  <2> QED
    BY <2>3, <2>4, ResolvedIs
<1>2. /\ Derived(s) \in Store
      /\ Derived(s).recs = s.recs /\ Derived(s).execs = s.execs
      /\ Derived(s).dismissed = s.dismissed /\ Derived(s).short = s.short
      /\ Derived(s).granted = s.granted /\ Derived(s).on = s.on
      /\ Derived(s).frozen = s.frozen /\ Derived(s).subs = s.subs
      /\ Derived(s).resolved = Resolved(s)
  <2> DEFINE x == Resolved(s)
  <2>1. Derived(s) = [s EXCEPT !.resolved = x] /\ x \in SUBSET Nat
    BY <1>1 DEF Derived
  <2> HIDE DEF x
  <2>2. /\ Derived(s) \in Store
        /\ Derived(s).recs = s.recs /\ Derived(s).execs = s.execs
        /\ Derived(s).dismissed = s.dismissed /\ Derived(s).short = s.short
        /\ Derived(s).granted = s.granted /\ Derived(s).on = s.on
        /\ Derived(s).frozen = s.frozen /\ Derived(s).subs = s.subs
        /\ Derived(s).resolved = x
    BY <2>1 DEF Store
  <2> QED
    BY <2>2 DEF x
<1>3. SameBook(s, Derived(s))
  BY <1>2 DEF SameBook, Ids
<1>4. Resolved(Derived(s)) = Resolved(s)
  BY <1>2, <1>3, SameResolved
<1> QED
  BY <1>2, <1>3, <1>4

-----------------------------------------------------------------------------
(* What each write of the file does to the resolutions.                     *)

\* A record that stands was not replaced, or by an all-clear made no earlier.
LEMMA StandsIs ==
  ASSUME NEW s \in Store, NEW r, NEW e, Stands(s, r, e)
  PROVE  \/ Successors(s, r) = {}
         \/ \E p \in Successors(s, r) : ~IsAction(s.recs[p]) /\ e.at <= s.recs[p].at
<1> SUFFICES ASSUME Successors(s, r) # {}
             PROVE  \E p \in Successors(s, r) : ~IsAction(s.recs[p]) /\ e.at <= s.recs[p].at
  OBVIOUS
<1> DEFINE q == CHOOSE q \in Successors(s, r) : \A p \in Successors(s, r) : q <= p
<1>1. Successors(s, r) \in SUBSET Nat
  BY StoreFacts DEF Successors
<1>2. \E x \in Successors(s, r) : \A p \in Successors(s, r) : x <= p
  BY <1>1, Smallest
<1>3. q \in Successors(s, r)
  BY <1>2
<1>4. ~IsAction(s.recs[q]) /\ e.at <= s.recs[q].at
  BY DEF Stands
<1> QED
  BY <1>3, <1>4

LEMMA CreditsIn ==
  ASSUME NEW s \in Store
  PROVE  Credits(s) \subseteq Ids(s) /\ Gone(s) \subseteq Ids(s)
<1>1. PICK K : Takes(s, K) /\ K[Len(s.execs)] = Credits(s)
  BY CreditsRun
<1>2. Len(s.execs) \in 0..Len(s.execs)
  BY StoreFacts
<1> QED
  BY <1>1, <1>2, RunGrows DEF Gone

LEMMA UnansweredIs ==
  ASSUME NEW s \in Store, s.resolved = Resolved(s), NEW r
  PROVE  r \in Unanswered(s) <=>
           /\ r \in Ids(s) /\ IsAction(s.recs[r]) /\ r \notin Credits(s)
           /\ r \notin s.dismissed /\ Successors(s, r) = {}
BY ResolvedIs DEF Unanswered, Gone

\* A fill now finds one record unanswered, or none.
LEMMA OnlyClaim ==
  ASSUME NEW s \in Store, Coherent(s), NEW e, e.at \in Nat,
         \A q \in Ids(s) : s.recs[q].at <= e.at,
         NEW r \in Unanswered(s), r \in Claimable(s, e)
  PROVE  Claimable(s, e) \ Credits(s) = {r}
<1>1. \A q \in Ids(s) : q \in Nat /\ s.recs[q].at \in Nat /\ Until(s.recs[q]) \in Nat
  BY StoreFacts DEF Record, Instants
<1>2. r \in Ids(s) /\ r \notin Credits(s) /\ IsAction(s.recs[r]) /\ e.at <= Until(s.recs[r])
  BY UnansweredIs DEF Coherent, Claimable
<1>3. ASSUME NEW q \in Claimable(s, e) \ Credits(s), q # r PROVE FALSE
  <2>1. /\ q \in Ids(s) /\ q \notin s.dismissed /\ IsAction(s.recs[q]) /\ Stands(s, q, e)
        /\ e.at <= Until(s.recs[q])
    BY DEF Claimable
  <2>2. Successors(s, q) = {}
    <3> SUFFICES ASSUME Successors(s, q) # {} PROVE FALSE
      OBVIOUS
    <3>1. PICK p \in Successors(s, q) : ~IsAction(s.recs[p]) /\ e.at <= s.recs[p].at
      BY <2>1, StandsIs
    <3>2. p \in Ids(s) /\ p # r
      BY <1>2, <3>1 DEF Successors
    <3>3. r < p => Until(s.recs[r]) < s.recs[p].at
      BY <3>2 DEF Coherent
    <3>4. p < r => s.recs[p].at < s.recs[r].at
      BY <1>2, <3>2 DEF Coherent
    <3>5. s.recs[p].at <= e.at /\ s.recs[r].at <= e.at
      BY <1>2, <3>2
    <3> QED
      BY <1>1, <1>2, <3>1, <3>2, <3>3, <3>4, <3>5
  <2>3. q \in Unanswered(s)
    BY <2>1, <2>2, UnansweredIs DEF Coherent
  <2>4. q < r => Until(s.recs[q]) < s.recs[r].at
    BY <1>2, <2>3 DEF Coherent
  <2>5. r < q => Until(s.recs[r]) < s.recs[q].at
    BY <2>1 DEF Coherent
  <2>6. s.recs[q].at <= e.at /\ s.recs[r].at <= e.at
    BY <1>2, <2>1
  <2> QED
    BY <1>1, <1>2, <1>3, <2>1, <2>4, <2>5, <2>6
<1> QED
  BY <1>2, <1>3

\* What the writes change.
AfterDismissal(s, d) == [s EXCEPT !.dismissed = @ \cup {d}]
AfterFill(s, x) == [s EXCEPT !.execs = Append(@, x)]

\* A dismissal sets a fill free to resolve another record; none reopens.
LEMMA Dismissing ==
  ASSUME NEW s \in Store, Coherent(s), NEW d \in Nat, NEW t,
         t = AfterDismissal(s, d)
  PROVE  t \in Store /\ s.resolved \subseteq Resolved(t) /\ Coherent(Derived(t))
<1>1. /\ t \in Store /\ t.recs = s.recs /\ t.execs = s.execs /\ t.short = s.short
      /\ t.dismissed = s.dismissed \cup {d} /\ Ids(t) = Ids(s)
  BY DEF AfterDismissal, Store, Ids
<1>2. \A r : Successors(t, r) = Successors(s, r)
  BY <1>1 DEF Successors
<1>3. \A r, e : Stands(t, r, e) = Stands(s, r, e)
  BY <1>1, <1>2 DEF Stands
<1>4. \A e : Claimable(t, e) = Claimable(s, e) \ {d}
  BY <1>1, <1>3 DEF Claimable
<1>5. Credits(s) \ {d} \subseteq Credits(t)
  <2> DEFINE n == Len(s.execs)
  <2>1. n \in Nat /\ n <= Len(s.execs) /\ n <= Len(t.execs) /\ Len(t.execs) = n
    BY <1>1, StoreFacts
  <2>2. PICK K : Takes(s, K) /\ K[n] = Credits(s)
    BY CreditsRun
  <2>3. PICK L : Takes(t, L) /\ L[n] = Credits(t)
    BY <1>1, <2>1, CreditsRun
  <2>4. Alike(s, t)
    BY <1>1 DEF Alike
  <2>5. \A i \in 1..n : /\ t.execs[i] = s.execs[i]
                        /\ Claimable(t, s.execs[i]) = Claimable(s, s.execs[i]) \ {d}
    BY <1>1, <1>4
  <2> HIDE DEF n
  <2>6. Agree(s, t, {d}, n) /\ t \in Store
    BY <1>1, <2>1, <2>4, <2>5 DEF Agree
  <2>7. K[n] \ {d} \subseteq L[n]
    BY <2>2, <2>3, <2>6, Fewer
  <2> QED
    BY <2>2, <2>3, <2>7
<1>6. Gone(t) = Gone(s)
  BY <1>1, <1>2 DEF Gone
<1>7. s.resolved \subseteq Resolved(t)
  BY <1>1, <1>5, <1>6, ResolvedIs DEF Coherent
<1>8. Coherent(Derived(t))
  <2> DEFINE u == Derived(t)
  <2>1. /\ u \in Store /\ u.recs = s.recs /\ u.execs = s.execs
        /\ u.resolved = Resolved(u) /\ s.resolved \subseteq u.resolved /\ Ids(u) = Ids(s)
    BY <1>1, <1>7, DerivedIs DEF Ids
  <2> HIDE DEF u
  <2>2. Unanswered(u) \subseteq Unanswered(s)
    BY <2>1 DEF Unanswered
  <2>3. Coherent(u)
    BY <2>1, <2>2 DEF Coherent
  <2> QED
    BY <2>3 DEF u
<1> QED
  BY <1>1, <1>7, <1>8

\* A fill resolves the one record that is open when it is booked.
LEMMA Booking ==
  ASSUME NEW s \in Store, Coherent(s), NEW x \in Exec,
         \A q \in Ids(s) : s.recs[q].at <= x.at,
         \A i \in DOMAIN s.execs : s.execs[i].at <= x.at, NEW t,
         t = AfterFill(s, x)
  PROVE  t \in Store /\ s.resolved \subseteq Resolved(t) /\ Coherent(Derived(t))
<1> DEFINE n == Len(s.execs)
<1>1. /\ n \in Nat /\ DOMAIN s.execs = 1..n /\ s.execs \in Seq(Exec)
      /\ \A i \in 1..n : s.execs[i] \in Exec
      /\ \A q \in Ids(s) : q \in Nat /\ s.recs[q].at \in Nat /\ Until(s.recs[q]) \in Nat
  <2>1. s.execs \in Seq(Exec)
    BY DEF Store
  <2>2. \A rec \in Record : rec.at \in Nat
    BY DEF Record, Instants
  <2> QED
    BY <2>1, <2>2, StoreFacts
<1>2. /\ Append(s.execs, x) \in Seq(Exec) /\ Len(Append(s.execs, x)) = n + 1
      /\ \A i \in 1..n : Append(s.execs, x)[i] = s.execs[i]
      /\ Append(s.execs, x)[n + 1] = x /\ DOMAIN Append(s.execs, x) = 1..n + 1
  BY <1>1
<1> HIDE DEF n
<1>3. /\ t.recs = s.recs /\ t.dismissed = s.dismissed
      /\ t.execs = Append(s.execs, x) /\ Ids(t) = Ids(s)
  BY DEF AfterFill, Store, Ids
<1>4. t \in Store
  <2> DEFINE es == Append(s.execs, x)
  <2>1. es \in Seq(Exec) /\ t = [s EXCEPT !.execs = es]
    BY <1>1, <1>2 DEF AfterFill
  <2> HIDE DEF es
  <2> QED
    BY <2>1 DEF Store
<1>5. \A r : Successors(t, r) = Successors(s, r)
  BY <1>3 DEF Successors
<1>6. \A r, e : Stands(t, r, e) = Stands(s, r, e)
  BY <1>3, <1>5 DEF Stands
<1>7. \A e : Claimable(t, e) = Claimable(s, e)
  BY <1>3, <1>6 DEF Claimable
<1>8. PICK K : Takes(s, K) /\ K[n] = Credits(s)
  BY CreditsRun DEF n
<1>9. PICK L : Takes(t, L) /\ L[n + 1] = Credits(t)
  BY <1>2, <1>3, <1>4, CreditsRun
<1>10. K[n] \subseteq L[n]
  <2>1. n <= Len(s.execs) /\ n <= Len(t.execs)
    BY <1>1, <1>2, <1>3 DEF n
  <2>2. Alike(s, t)
    BY <1>3 DEF Alike
  <2>3. \A i \in 1..n : /\ t.execs[i] = s.execs[i]
                        /\ Claimable(t, s.execs[i]) = Claimable(s, s.execs[i]) \ {}
    BY <1>2, <1>3, <1>7
  <2>4. Agree(s, t, {}, n)
    BY <1>1, <2>1, <2>2, <2>3 DEF Agree
  <2>5. K[n] \ {} \subseteq L[n]
    BY <1>4, <1>8, <1>9, <2>4, Fewer
  <2> QED
    BY <2>5
<1>11. L[n + 1] = Taken(t, L[n], x)
  BY <1>1, <1>2, <1>3, <1>9 DEF Takes
<1>12. Credits(s) \subseteq Credits(t)
  <2>1. L[n] \subseteq L[n + 1]
    <3>1. \A A, e : A \subseteq Taken(t, A, e)
      BY <1>4, TakenFacts
    <3> QED
      BY <1>11, <3>1
  <2> QED
    BY <1>8, <1>9, <1>10, <2>1
<1>13. s.resolved \subseteq Resolved(t)
  <2>1. Gone(t) = Gone(s)
    BY <1>3, <1>5 DEF Gone
  <2> QED
    BY <1>3, <1>12, <2>1, ResolvedIs DEF Coherent
<1> DEFINE u == Derived(t)
<1>14. /\ u \in Store /\ u.recs = s.recs /\ u.execs = Append(s.execs, x)
       /\ u.resolved = Resolved(u) /\ s.resolved \subseteq u.resolved /\ Ids(u) = Ids(s)
       /\ u.resolved = Resolved(t)
  BY <1>3, <1>4, <1>13, DerivedIs DEF Ids
<1> HIDE DEF u
<1>15. Unanswered(u) \subseteq Unanswered(s)
  BY <1>14 DEF Unanswered
<1>16. ASSUME NEW r \in Unanswered(u) PROVE Until(s.recs[r]) < x.at
  <2>1. r \in Unanswered(s) /\ r \in Ids(s) /\ r \notin Resolved(t)
    BY <1>14, <1>15 DEF Unanswered
  <2>2. r \notin Credits(t) /\ r \notin s.dismissed /\ Successors(s, r) = {} /\ IsAction(s.recs[r])
    BY <1>3, <2>1, ResolvedIs, UnansweredIs DEF Coherent
  <2>3. x.at \in Nat
    BY DEF Exec, Instants
  <2>4. SUFFICES ASSUME x.at <= Until(s.recs[r]) PROVE FALSE
    BY <1>1, <2>1, <2>3
  <2>5. r \in Claimable(s, x)
    BY <2>1, <2>2, <2>4 DEF Claimable, Stands
  <2>6. Claimable(s, x) \ Credits(s) = {r}
    BY <2>1, <2>3, <2>5, OnlyClaim
  <2>7. Claimable(t, x) \subseteq L[n] \cup {r}
    BY <1>7, <1>8, <1>10, <2>6
  <2>8. r \in Taken(t, L[n], x)
    BY <1>4, <1>7, <2>5, <2>7, TakenFacts
  <2> QED
    BY <1>9, <1>11, <2>2, <2>8
<1>17. Coherent(u)
  <2>2. \A i, j \in DOMAIN u.execs : i <= j => u.execs[i].at <= u.execs[j].at
    <3>1. DOMAIN u.execs = 1..n + 1 /\ u.execs[n + 1] = x /\ \A i \in 1..n : u.execs[i] = s.execs[i]
      BY <1>2, <1>14
    <3>2. \A i, j \in 1..n : i <= j => s.execs[i].at <= s.execs[j].at
      BY <1>1 DEF Coherent
    <3>3. x.at <= x.at /\ \A i \in 1..n : s.execs[i].at <= x.at
      <4>1. x.at \in Nat
        BY DEF Exec, Instants
      <4> QED
        BY <1>1, <4>1
    <3>4. ASSUME NEW i \in 1..n + 1, NEW j \in 1..n + 1, i <= j
          PROVE  u.execs[i].at <= u.execs[j].at
      <4>1. CASE j \in 1..n
        <5>1. i \in 1..n
          BY <1>1, <3>4, <4>1
        <5> QED
          BY <3>1, <3>2, <3>4, <4>1, <5>1
      <4>2. CASE j = n + 1
        <5>1. i \in 1..n \/ i = n + 1
          BY <1>1
        <5> QED
          BY <3>1, <3>3, <4>2, <5>1
      <4> QED
        BY <1>1, <4>1, <4>2
    <3> QED
      BY <3>1, <3>4
  <2>3. \A q, r \in Ids(u) : q < r => u.recs[q].at < u.recs[r].at
    BY <1>14 DEF Coherent
  <2>4. \A r \in Ids(u) : /\ u.recs[r].of = 1 + u.recs[r].seen /\ u.recs[r].seen <= Len(u.execs)
                          /\ u.recs[r].supersedes < r
    <3>1. \A r \in Ids(s) : s.recs[r].seen \in Nat
      BY StoreFacts DEF Record
    <3>2. \A r \in Ids(s) : /\ s.recs[r].of = 1 + s.recs[r].seen /\ s.recs[r].seen <= n
                            /\ s.recs[r].supersedes < r
      BY DEF Coherent, n
    <3> QED
      BY <1>1, <1>2, <1>14, <3>1, <3>2
  <2>5. \A q \in Unanswered(u), p \in Ids(u) : q < p => Until(u.recs[q]) < u.recs[p].at
    BY <1>14, <1>15 DEF Coherent
  <2>6. \A r \in Unanswered(u) : \A i \in DOMAIN u.execs :
          u.recs[r].seen < i => Until(u.recs[r]) < u.execs[i].at
    <3>1. ASSUME NEW r \in Unanswered(u), NEW i \in 1..n + 1, u.recs[r].seen < i
          PROVE  Until(u.recs[r]) < u.execs[i].at
      <4>1. CASE i \in 1..n
        <5>1. r \in Unanswered(s) /\ u.recs[r] = s.recs[r] /\ u.execs[i] = s.execs[i]
          BY <1>2, <1>14, <1>15, <4>1
        <5> QED
          BY <1>1, <3>1, <4>1, <5>1 DEF Coherent
      <4>2. CASE i = n + 1
        BY <1>2, <1>14, <1>16, <4>2
      <4> QED
        BY <1>1, <4>1, <4>2
    <3> QED
      BY <1>2, <1>14, <3>1
  <2> QED
    BY <1>14, <2>2, <2>3, <2>4, <2>5, <2>6 DEF Coherent
<1> QED
  BY <1>4, <1>13, <1>17 DEF u

-----------------------------------------------------------------------------
(* The record of an evaluation that knew all fills before its instant.      *)

AfterEmission(s, rec) == [s EXCEPT !.recs = Append(@, rec)]

LEMMA SameStands ==
  ASSUME NEW s \in Store, NEW t \in Store, \A p \in Ids(s) : t.recs[p] = s.recs[p],
         NEW q, Successors(t, q) = Successors(s, q), NEW e
  PROVE  Stands(t, q, e) = Stands(s, q, e)
<1> DEFINE x == CHOOSE x \in Successors(s, q) : \A p \in Successors(s, q) : x <= p
<1>1. Stands(t, q, e) = (Successors(s, q) = {} \/ (~IsAction(t.recs[x]) /\ e.at <= t.recs[x].at))
  BY DEF Stands
<1>2. Stands(s, q, e) = (Successors(s, q) = {} \/ (~IsAction(s.recs[x]) /\ e.at <= s.recs[x].at))
  BY DEF Stands
<1>3. Successors(s, q) # {} => x \in Ids(s)
  <2>1. Successors(s, q) \in SUBSET Nat /\ Successors(s, q) \subseteq Ids(s)
    BY StoreFacts DEF Successors
  <2>2. Successors(s, q) # {} => \E y \in Successors(s, q) : \A p \in Successors(s, q) : y <= p
    BY <2>1, Smallest
  <2> QED
    BY <2>1, <2>2
<1> HIDE DEF x
<1> QED
  BY <1>1, <1>2, <1>3

LEMMA Emitting ==
  ASSUME NEW s \in Store, Coherent(s), NEW c \in Store, NEW now \in Instants, Prior(c, s, now),
         Whole(c), \A q \in Ids(s) : s.recs[q].at < now,
         \A i \in 1..Len(c.execs) : s.execs[i].at < now,
         NEW claim \in Moves,
         NEW v, v = IF OpenActions(c, now) = {} THEN 0 ELSE Latest(c, OpenActions(c, now)),
         NEW rec, rec = Rec(claim, c.short, now, v, Len(c.execs)),
         NEW t, t = AfterEmission(s, rec)
  PROVE  t \in Store /\ s.resolved \subseteq Resolved(t) /\ Coherent(Derived(t))
<1> DEFINE k == Len(s.recs)
           n == Len(s.execs)
           m == Len(c.execs)
           r == k + 1
           V == IF claim = Clear THEN {} ELSE {v}
<1>1. /\ k \in Nat /\ n \in Nat /\ m \in Nat /\ m <= n /\ now \in Nat
      /\ Ids(s) = 1..k /\ r = k + 1 /\ r \notin Ids(s) /\ DOMAIN s.execs = 1..n
  BY StoreFacts DEF Prior, Instants
<1>2. /\ \A q \in Ids(s) : q \in Nat /\ s.recs[q].at \in Nat /\ Until(s.recs[q]) \in Nat
                           /\ s.recs[q].supersedes \in Nat
      /\ \A i \in 1..n : s.execs[i].at \in Nat
      /\ s.recs \in Seq(Record) /\ c.short \in Nat
  <2>1. s.recs \in Seq(Record) /\ c.short \in Nat
    BY DEF Store
  <2>2. \A x \in Record : x.at \in Nat /\ x.supersedes \in Nat
    BY DEF Record, Instants
  <2>3. \A x \in Exec : x.at \in Nat
    BY DEF Exec, Instants
  <2> QED
    BY <2>1, <2>2, <2>3, StoreFacts
<1>3. c.recs = s.recs /\ Ids(c) = Ids(s) /\ c.dismissed \subseteq s.dismissed /\ Coherent(c)
  BY DEF Prior, Ids
<1>4. \A q : Successors(c, q) = Successors(s, q)
  BY <1>3 DEF Successors
<1>5. ASSUME NEW p \in Ids(s), IsAction(s.recs[p]), p \notin Credits(c), p \notin c.dismissed,
             Successors(s, p) = {}, now <= Until(s.recs[p])
      PROVE  p = v
  <2>1. p \in Unanswered(c)
    BY <1>3, <1>4, <1>5, UnansweredIs DEF Coherent
  <2>2. p \in OpenActions(c, now)
    BY <1>3, <1>5, <2>1 DEF Unanswered, OpenActions, Open
  <2>3. OpenActions(c, now) \in SUBSET Ids(c)
    BY DEF OpenActions, Open
  <2>4. v \in OpenActions(c, now)
    BY <2>2, <2>3, LatestIs
  <2>5. v \in Unanswered(c) /\ v \in Ids(s) /\ now <= Until(s.recs[v])
    BY <1>3, <2>3, <2>4 DEF OpenActions, Open, Unanswered
  <2>6. p < v => Until(s.recs[p]) < s.recs[v].at
    BY <1>3, <2>1, <2>5 DEF Coherent
  <2>7. v < p => Until(s.recs[v]) < s.recs[p].at
    BY <1>3, <2>5 DEF Coherent
  <2>8. s.recs[p].at < now /\ s.recs[v].at < now
    BY <2>5
  <2>9. /\ p \in Nat /\ v \in Nat /\ s.recs[p].at \in Nat /\ s.recs[v].at \in Nat
        /\ Until(s.recs[p]) \in Nat /\ Until(s.recs[v]) \in Nat
    BY <1>2, <2>5
  <2>12. now \in Nat
    BY <1>1
  <2> HIDE DEF k, n, m, r, V
  <2>10. ~(p < v)
    BY <1>5, <2>6, <2>8, <2>9, <2>12
  <2>11. ~(v < p)
    BY <2>5, <2>7, <2>8, <2>9, <2>12
  <2> QED
    BY <2>9, <2>10, <2>11
<1>6. /\ v \in Nat /\ v < r
      /\ v # 0 => /\ v \in Ids(s) /\ Successors(s, v) = {} /\ IsAction(s.recs[v])
  <2>1. CASE OpenActions(c, now) = {}
    BY <1>1, <2>1
  <2>2. CASE OpenActions(c, now) # {}
    <3>1. OpenActions(c, now) \in SUBSET Ids(c)
      BY DEF OpenActions, Open
    <3>2. v \in OpenActions(c, now)
      BY <2>2, <3>1, LatestIs
    <3>3. v \in Unanswered(c) /\ v \in Ids(s) /\ IsAction(s.recs[v])
      BY <1>3, <3>1, <3>2 DEF OpenActions, Open, Unanswered
    <3>4. Successors(s, v) = {}
      BY <1>3, <1>4, <3>3, UnansweredIs DEF Coherent
    <3> QED
      BY <1>1, <3>3, <3>4
  <2> QED
    BY <2>1, <2>2
<1>7. /\ rec \in Record /\ rec.claim = claim /\ rec.of = c.short /\ rec.at = now
      /\ rec.supersedes = v /\ rec.seen = m /\ Until(rec) \in Nat
  <2>1. rec = [claim |-> claim, of |-> c.short, at |-> now, supersedes |-> v,
               settle |-> "none", due |-> 0, seen |-> m]
    BY DEF Rec
  <2>2. rec \in Record /\ rec.claim = claim /\ rec.of = c.short /\ rec.at = now
        /\ rec.supersedes = v /\ rec.seen = m
    <3>1. m \in Nat /\ c.short \in Nat /\ v \in Nat
      BY <1>1, <1>2, <1>6
    <3> HIDE DEF m
    <3> QED
      BY <2>1, <3>1 DEF Record
  <2>3. Valid[claim] \in Nat
    BY RecommendationConstants DEF Moves
  <2> QED
    BY <1>1, <2>2, <2>3 DEF Until
<1>8. /\ t.recs = Append(s.recs, rec) /\ t.execs = s.execs /\ t.dismissed = s.dismissed
      /\ t.short = s.short /\ Ids(t) = Ids(s) \cup {r} /\ t.recs[r] = rec
      /\ \A q \in Ids(s) : t.recs[q] = s.recs[q]
  <2>1. /\ t.recs = Append(s.recs, rec) /\ t.execs = s.execs /\ t.dismissed = s.dismissed
        /\ t.short = s.short
    BY DEF AfterEmission, Store
  <2>2. /\ DOMAIN Append(s.recs, rec) = 1..k + 1 /\ Append(s.recs, rec)[k + 1] = rec
        /\ \A q \in 1..k : Append(s.recs, rec)[q] = s.recs[q]
    BY <1>2
  <2>3. 1..k + 1 = 1..k \cup {k + 1}
    BY <1>1
  <2> QED
    BY <1>1, <2>1, <2>2, <2>3 DEF Ids
<1>9. t \in Store
  <2> DEFINE rs == Append(s.recs, rec)
  <2>1. rs \in Seq(Record) /\ t = [s EXCEPT !.recs = rs]
    BY <1>2, <1>7 DEF AfterEmission
  <2> HIDE DEF rs
  <2> QED
    BY <2>1 DEF Store
<1>10. /\ Successors(t, r) = {} /\ (v # 0 => Successors(t, v) = {r})
       /\ \A q \in Ids(s) : q # v => Successors(t, q) = Successors(s, q)
  <2> HIDE DEF r
  <2>1. \A q : Successors(t, q) = Successors(s, q) \cup {x \in {r} : q = v}
    <3>1. ASSUME NEW q, NEW x
          PROVE  x \in Successors(t, q) <=> x \in Successors(s, q) \/ (x = r /\ q = v)
      <4>1. CASE x \in Ids(s)
        BY <1>1, <1>8, <4>1 DEF Successors
      <4>2. CASE x = r
        BY <1>1, <1>7, <1>8, <4>2 DEF Successors
      <4>3. CASE x \notin Ids(s) /\ x # r
        BY <1>8, <4>3 DEF Successors
      <4> QED
        BY <4>1, <4>2, <4>3
    <3> QED
      BY <3>1
  <2>2. Successors(s, r) = {}
    <3>1. \A q \in Ids(s) : s.recs[q].supersedes < q
      BY DEF Coherent
    <3> QED
      BY <1>1, <1>2, <3>1 DEF Successors
  <2>3. v # r
    BY <1>1, <1>6
  <2>4. \A q : q # v => Successors(t, q) = Successors(s, q)
    BY <2>1
  <2>5. Successors(t, v) = Successors(s, v) \cup {r}
    BY <2>1
  <2> QED
    BY <1>6, <2>2, <2>3, <2>4, <2>5
<1> HIDE DEF k, n, m, r
<1>11. ASSUME NEW e, e.at \in Nat, e.at < now
       PROVE  Claimable(t, e) = Claimable(s, e) \ V
  <2>1. r \notin Claimable(t, e)
    BY <1>1, <1>7, <1>8, <1>11 DEF Claimable
  <2>2. \A q \in Ids(s) : q # v => Stands(t, q, e) = Stands(s, q, e)
    BY <1>8, <1>9, <1>10, SameStands
  <2>3. v # 0 => Stands(s, v, e) /\ (Stands(t, v, e) <=> claim = Clear)
    <3> SUFFICES ASSUME v # 0 PROVE Stands(s, v, e) /\ (Stands(t, v, e) <=> claim = Clear)
      OBVIOUS
    <3>1. Successors(s, v) = {} /\ Successors(t, v) = {r}
      BY <1>6, <1>10
    <3>2. (CHOOSE q \in {r} : \A p \in {r} : q <= p) = r
      BY <1>1
    <3>3. IsAction(rec) <=> claim # Clear
      BY <1>7 DEF IsAction
    <3>4. e.at <= rec.at
      BY <1>1, <1>7, <1>11
    <3>5. Stands(t, v, e) <=> (~IsAction(rec) /\ e.at <= rec.at)
      <4> DEFINE y == CHOOSE q \in Successors(t, v) : \A p \in Successors(t, v) : q <= p
      <4>1. y = r
        BY <3>1, <3>2
      <4>2. Stands(t, v, e) <=> Successors(t, v) = {} \/ (~IsAction(t.recs[y]) /\ e.at <= t.recs[y].at)
        BY DEF Stands
      <4>3. t.recs[y] = rec /\ Successors(t, v) # {}
        BY <1>8, <3>1, <4>1
      <4> HIDE DEF y
      <4> QED
        BY <4>2, <4>3
    <3> QED
      BY <3>1, <3>3, <3>4, <3>5 DEF Stands
  <2>4. ASSUME NEW q \in Ids(s) PROVE q \in Claimable(t, e) <=> q \in Claimable(s, e) \ V
    <3>1. q \in Claimable(t, e) <=>
            /\ q \notin s.dismissed /\ IsAction(s.recs[q]) /\ Stands(t, q, e)
            /\ s.recs[q].at <= e.at /\ e.at <= Until(s.recs[q])
      BY <1>8, <2>4 DEF Claimable
    <3>2. q \in Claimable(s, e) <=>
            /\ q \notin s.dismissed /\ IsAction(s.recs[q]) /\ Stands(s, q, e)
            /\ s.recs[q].at <= e.at /\ e.at <= Until(s.recs[q])
      BY <2>4 DEF Claimable
    <3>3. CASE q # v
      BY <2>2, <3>1, <3>2, <3>3
    <3>4. CASE q = v
      <4>1. v # 0
        BY <1>1, <2>4, <3>4
      <4> QED
        BY <2>3, <3>1, <3>2, <3>4, <4>1
    <3> QED
      BY <3>3, <3>4
  <2> HIDE DEF V
  <2>5. Claimable(t, e) \subseteq Ids(s) /\ Claimable(s, e) \subseteq Ids(s)
    BY <1>8, <2>1 DEF Claimable
  <2> QED
    BY <2>4, <2>5
<1>12. V \subseteq {v}
  OBVIOUS
<1> HIDE DEF V
<1>13. PICK J : Takes(c, J) /\ J[m] = Credits(c)
  BY CreditsRun DEF m
<1>14. PICK K : Takes(s, K) /\ K[n] = Credits(s)
  BY CreditsRun DEF n
<1>15. PICK L : Takes(t, L) /\ L[n] = Credits(t)
  BY <1>8, <1>9, CreditsRun DEF n
<1>16. m <= Len(c.execs) /\ m <= Len(s.execs) /\ m <= Len(t.execs)
  BY <1>1, <1>8 DEF n, m
<1>17. J[m] \ s.dismissed \subseteq K[m]
  <2> DEFINE W == s.dismissed
  <2>1. \A q, e : Stands(s, q, e) = Stands(c, q, e)
    BY <1>3, <1>4 DEF Stands
  <2>2. \A e : Claimable(s, e) = Claimable(c, e) \ W
    BY <1>3, <2>1 DEF Claimable
  <2> HIDE DEF W
  <2>3. \A i \in 1..m : /\ s.execs[i] = c.execs[i]
                        /\ Claimable(s, c.execs[i]) = Claimable(c, c.execs[i]) \ W
    <3>1. \A i \in 1..m : s.execs[i] = c.execs[i]
      BY StoreFacts DEF Prior, m
    <3> QED
      BY <2>2, <3>1
  <2>4. Alike(c, s)
    BY <1>3 DEF Alike
  <2>5. Agree(c, s, W, m)
    BY <1>1, <1>16, <2>3, <2>4 DEF Agree
  <2>6. J[m] \ W \subseteq K[m]
    BY <1>13, <1>14, <2>5, Fewer
  <2> QED
    BY <2>6 DEF W
<1>18. K[m] \ {v} \subseteq L[m]
  <2>1. \A i \in 1..m : /\ t.execs[i] = s.execs[i]
                        /\ Claimable(t, s.execs[i]) = Claimable(s, s.execs[i]) \ V
    <3>1. ASSUME NEW i \in 1..m PROVE Claimable(t, s.execs[i]) = Claimable(s, s.execs[i]) \ V
      <4>1. s.execs[i].at \in Nat /\ s.execs[i].at < now
        BY <1>1, <1>2 DEF m
      <4> QED
        BY <1>11, <4>1
    <3> QED
      BY <1>8, <3>1
  <2>2. Alike(s, t)
    BY <1>8 DEF Alike
  <2>3. Agree(s, t, V, m)
    BY <1>1, <1>16, <2>1, <2>2 DEF Agree
  <2>4. K[m] \ V \subseteq L[m]
    BY <1>9, <1>14, <1>15, <2>3, Fewer
  <2> QED
    BY <1>12, <2>4
<1>19. ASSUME NEW p \in Ids(s), IsAction(s.recs[p]), p \notin K[m], p \notin s.dismissed,
              Successors(s, p) = {}, now <= Until(s.recs[p])
       PROVE  p = v
  BY <1>3, <1>5, <1>13, <1>17, <1>19
<1>20. ASSUME NEW i \in 1..n, m < i, NEW p \in Claimable(s, s.execs[i]), p \notin K[m]
       PROVE  p = v
  <2>1. s.execs[i].at \in Nat /\ now <= s.execs[i].at
    BY <1>1, <1>2, <1>20 DEF Prior, m
  <2>2. /\ p \in Ids(s) /\ p \notin s.dismissed /\ IsAction(s.recs[p])
        /\ Stands(s, p, s.execs[i]) /\ s.execs[i].at <= Until(s.recs[p])
    BY DEF Claimable
  <2>3. now <= Until(s.recs[p])
    BY <1>1, <1>2, <2>1, <2>2
  <2>4. Successors(s, p) = {}
    <3> SUFFICES ASSUME Successors(s, p) # {} PROVE FALSE
      OBVIOUS
    <3>1. PICK q \in Successors(s, p) : s.execs[i].at <= s.recs[q].at
      BY <2>2, StandsIs
    <3>2. s.recs[q].at < now /\ s.recs[q].at \in Nat
      BY <1>2, <3>1 DEF Successors
    <3> QED
      BY <1>1, <2>1, <3>1, <3>2
  <2> QED
    BY <1>19, <1>20, <2>2, <2>3, <2>4
<1>21. K[n] \subseteq K[m] \cup {v}
  <2> DEFINE Bad == {i \in 0..n : m <= i /\ ~(K[i] \subseteq K[m] \cup {v})}
  <2>1. 0 \notin Bad
    BY <1>14 DEF Takes
  <2>2. ASSUME NEW i \in 0..n - 1, i \notin Bad PROVE i + 1 \notin Bad
    <3>1. CASE i + 1 <= m
      <4>1. m <= i + 1 => i + 1 = m
        BY <1>1, <3>1
      <4> QED
        BY <4>1
    <3>2. CASE m <= i
      <4>1. K[i] \subseteq K[m] \cup {v}
        BY <1>1, <2>2, <3>2
      <4>2. K[i + 1] = Taken(s, K[i], s.execs[i + 1])
        BY <1>14 DEF Takes, n
      <4>3. \A A, e : Taken(s, A, e) \subseteq A \cup Claimable(s, e)
        BY TakenFacts
      <4>4. K[i + 1] \subseteq K[i] \cup Claimable(s, s.execs[i + 1])
        BY <4>2, <4>3
      <4>5. i + 1 \in 1..n /\ m < i + 1
        BY <1>1, <3>2
      <4>6. \A p \in Claimable(s, s.execs[i + 1]) : p \in K[m] \cup {v}
        BY <1>20, <4>5
      <4> QED
        BY <4>1, <4>4, <4>6
    <3> QED
      BY <1>1, <3>1, <3>2
  <2>3. Bad \in SUBSET (0..n) /\ n \in 0..n
    BY <1>1
  <2> HIDE DEF Bad
  <2>4. Bad = {}
    BY <1>1, <2>1, <2>2, <2>3, UpTo
  <2> QED
    BY <1>1, <2>3, <2>4 DEF Bad
<1>22. L[m] \subseteq Credits(t)
  <2>1. \A i, j \in 0..Len(t.execs) : i <= j => L[i] \subseteq L[j]
    BY <1>9, <1>15, RunGrows
  <2>2. m \in 0..Len(t.execs) /\ n \in 0..Len(t.execs)
    BY <1>1, <1>8 DEF n
  <2> QED
    BY <1>1, <1>15, <2>1, <2>2
<1>23. Gone(s) \subseteq Gone(t) /\ (v # 0 => v \in Gone(t))
  <2>1. \A q \in Ids(s) : Successors(s, q) # {} => Successors(t, q) # {}
    <3>1. 0 \notin Ids(s)
      BY <1>1
    <3> QED
      BY <1>6, <1>10, <3>1
  <2> QED
    BY <1>6, <1>8, <1>10, <2>1 DEF Gone
<1>24. s.resolved \subseteq Resolved(t)
  <2>1. Credits(s) \subseteq Ids(s) /\ 0 \notin Ids(s)
    BY <1>1, CreditsIn
  <2>2. Credits(s) \subseteq Credits(t) \cup Gone(t)
    BY <1>14, <1>18, <1>21, <1>22, <1>23, <2>1
  <2> QED
    BY <1>8, <1>23, <2>2, ResolvedIs DEF Coherent
<1> DEFINE u == Derived(t)
<1>25. /\ u \in Store /\ u.recs = t.recs /\ u.execs = s.execs /\ u.short = s.short
       /\ u.resolved = Resolved(u) /\ u.resolved = Resolved(t) /\ Ids(u) = Ids(t)
  BY <1>8, <1>9, DerivedIs DEF Ids
<1> HIDE DEF u
<1>26. ASSUME NEW q \in Unanswered(u)
       PROVE  /\ q \in Ids(t) /\ q \notin Credits(t) /\ q \notin s.dismissed
              /\ Successors(t, q) = {} /\ IsAction(t.recs[q])
              /\ q \in Ids(s) => q \in Unanswered(s)
  <2>1. q \in Ids(t) /\ q \notin Resolved(t) /\ IsAction(t.recs[q])
    BY <1>25 DEF Unanswered
  <2>2. q \notin Credits(t) /\ q \notin s.dismissed /\ Successors(t, q) = {}
    BY <1>8, <2>1, ResolvedIs DEF Gone
  <2>3. q \in Ids(s) => q \in Unanswered(s)
    BY <1>8, <1>24, <2>1 DEF Unanswered
  <2> QED
    BY <2>1, <2>2, <2>3
<1>27. ASSUME NEW q \in Unanswered(u), q \in Ids(s) PROVE Until(s.recs[q]) < now
  <2>1. /\ q \in Unanswered(s) /\ q \notin s.dismissed /\ q # v /\ q \notin Credits(t)
        /\ IsAction(s.recs[q])
    <3>1. q # 0
      BY <1>1, <1>27
    <3>2. Successors(t, q) = {} /\ q \in Unanswered(s) /\ q \notin s.dismissed /\ q \notin Credits(t)
      BY <1>26, <1>27
    <3>3. q # v
      BY <1>10, <3>1, <3>2
    <3>4. IsAction(s.recs[q])
      BY <3>2 DEF Unanswered
    <3> QED
      BY <3>2, <3>3, <3>4
  <2>2. q \notin Credits(s) /\ Successors(s, q) = {}
    BY <2>1, UnansweredIs DEF Coherent
  <2>3. q \notin K[m]
    <3>1. q \notin L[m]
      BY <1>22, <2>1
    <3> QED
      BY <1>18, <2>1, <3>1
  <2>4. ~(now <= Until(s.recs[q]))
    BY <1>19, <1>27, <2>1, <2>2, <2>3
  <2> QED
    BY <1>1, <1>2, <1>27, <2>4
<1>28. ASSUME r \in Unanswered(u), NEW i \in 1..n, m < i PROVE Until(rec) < s.execs[i].at
  <2>1. s.execs[i].at \in Nat /\ now <= s.execs[i].at
    BY <1>1, <1>2, <1>28 DEF Prior, m
  <2> SUFFICES ASSUME s.execs[i].at <= Until(rec) PROVE FALSE
    BY <1>7, <2>1
  <2> DEFINE e == s.execs[i]
             live == Claimable(t, e) \ L[i - 1]
  <2>2. r \notin Credits(t) /\ r \notin s.dismissed /\ IsAction(rec)
    BY <1>8, <1>26, <1>28
  <2>3. i - 1 \in 0..n - 1 /\ (i - 1) + 1 = i /\ m <= i - 1 /\ i \in 0..n /\ m \in 0..n
        /\ i - 1 \in 0..n /\ n \in 0..n /\ i <= n
    BY <1>1, <1>28
  <2>4. \A a, b \in 0..n : a <= b => L[a] \subseteq L[b]
    BY <1>8, <1>9, <1>15, RunGrows DEF n
  <2>5. L[m] \subseteq L[i - 1] /\ L[i] \subseteq Credits(t)
    BY <1>15, <2>3, <2>4
  <2>6. L[i] = Taken(t, L[i - 1], e)
    BY <1>8, <1>15, <2>3 DEF Takes, n
  <2>7. r \in Claimable(t, e)
    BY <1>1, <1>7, <1>8, <1>10, <2>1, <2>2 DEF Claimable, Stands
  <2>8. ASSUME NEW p \in Claimable(t, e), p \notin L[i - 1], p # r PROVE FALSE
    <3>1. /\ p \in Ids(s) /\ p \notin s.dismissed /\ IsAction(s.recs[p])
          /\ Stands(t, p, e) /\ e.at <= Until(s.recs[p])
      BY <1>8, <2>8 DEF Claimable
    <3>2. Successors(t, p) = {}
      <4> SUFFICES ASSUME Successors(t, p) # {} PROVE FALSE
        OBVIOUS
      <4>1. PICK q \in Successors(t, p) : ~IsAction(t.recs[q]) /\ e.at <= t.recs[q].at
        BY <1>9, <3>1, StandsIs
      <4>2. q \in Ids(s) \/ q = r
        BY <1>8, <4>1 DEF Successors
      <4>3. q # r
        BY <1>8, <2>2, <4>1
      <4>4. q \in Ids(s) /\ t.recs[q] = s.recs[q] /\ s.recs[q].at < now
        BY <1>8, <4>2, <4>3
      <4> QED
        <5>1. s.recs[q].at \in Nat /\ e.at <= s.recs[q].at
          BY <1>2, <4>1, <4>4
        <5> QED
          BY <1>1, <2>1, <4>4, <5>1
    <3>3. p # v
      <4>1. p # 0
        BY <1>1, <3>1
      <4>2. v # 0 => Successors(t, v) # {}
        BY <1>10
      <4> QED
        BY <3>2, <4>1, <4>2
    <3>4. Successors(s, p) = {}
      BY <1>10, <3>1, <3>2, <3>3
    <3>5. p \notin K[m]
      BY <1>18, <2>5, <2>8, <3>3
    <3>6. now <= Until(s.recs[p])
      BY <1>1, <1>2, <2>1, <3>1
    <3> QED
      BY <1>19, <3>1, <3>3, <3>4, <3>5, <3>6
  <2>9. Claimable(t, e) \subseteq L[i - 1] \cup {r}
    BY <2>8
  <2> HIDE DEF e
  <2>10. \A A : Claimable(t, e) \subseteq A \cup {r} => Claimable(t, e) \subseteq Taken(t, A, e)
    BY <1>9, TakenFacts
  <2>11. Claimable(t, e) \subseteq Taken(t, L[i - 1], e)
    BY <2>9, <2>10
  <2> QED
    BY <2>2, <2>5, <2>6, <2>7, <2>11
<1>29. Coherent(u)
  <2>1. \A i, j \in DOMAIN u.execs : i <= j => u.execs[i].at <= u.execs[j].at
    BY <1>25 DEF Coherent
  <2>2. \A q, p \in Ids(u) : q < p => u.recs[q].at < u.recs[p].at
    <3>1. \A q, p \in Ids(s) : q < p => s.recs[q].at < s.recs[p].at
      BY DEF Coherent
    <3>2. \A p \in Ids(s) : ~(r < p)
      BY <1>1
    <3>3. \A q \in Ids(s) : s.recs[q].at < rec.at
      BY <1>7
    <3>4. ~(r < r)
      BY <1>1
    <3>5. /\ Ids(u) = Ids(s) \cup {r} /\ u.recs[r] = rec
          /\ \A q \in Ids(s) : u.recs[q] = s.recs[q]
      BY <1>8, <1>25
    <3> QED
      BY <3>1, <3>2, <3>3, <3>4, <3>5
  <2>3. \A q \in Ids(u) : /\ u.recs[q].of = 1 + u.recs[q].seen /\ u.recs[q].seen <= Len(u.execs)
                          /\ u.recs[q].supersedes < q
    <3>1. \A q \in Ids(s) : /\ s.recs[q].of = 1 + s.recs[q].seen /\ s.recs[q].seen <= Len(s.execs)
                            /\ s.recs[q].supersedes < q
      BY DEF Coherent
    <3>2. rec.of = 1 + rec.seen /\ rec.seen <= Len(s.execs) /\ rec.supersedes < r
      BY <1>1, <1>3, <1>6, <1>7 DEF Whole, n, m
    <3>3. /\ Ids(u) = Ids(s) \cup {r} /\ u.recs[r] = rec /\ u.execs = s.execs
          /\ \A q \in Ids(s) : u.recs[q] = s.recs[q]
      BY <1>8, <1>25
    <3> QED
      BY <3>1, <3>2, <3>3
  <2>4. \A q \in Unanswered(u), p \in Ids(u) : q < p => Until(u.recs[q]) < u.recs[p].at
    <3>1. ASSUME NEW q \in Unanswered(u), NEW p \in Ids(u), q < p
          PROVE  Until(u.recs[q]) < u.recs[p].at
      <4>1. q \in Ids(s)
        BY <1>1, <1>8, <1>25, <1>26, <3>1
      <4>2. CASE p = r
        BY <1>7, <1>8, <1>25, <1>27, <4>1, <4>2
      <4>3. CASE p \in Ids(s)
        <5>1. q \in Unanswered(s)
          BY <1>26, <4>1
        <5>2. Until(s.recs[q]) < s.recs[p].at
          BY <3>1, <4>3, <5>1 DEF Coherent
        <5> QED
          BY <1>8, <1>25, <4>1, <4>3, <5>2
      <4> QED
        BY <1>8, <1>25, <4>2, <4>3
    <3> QED
      BY <3>1
  <2>5. \A q \in Unanswered(u) : \A i \in DOMAIN u.execs :
          u.recs[q].seen < i => Until(u.recs[q]) < u.execs[i].at
    <3>1. ASSUME NEW q \in Unanswered(u), NEW i \in DOMAIN s.execs, u.recs[q].seen < i
          PROVE  Until(u.recs[q]) < s.execs[i].at
      <4>1. q \in Ids(s) \/ q = r
        BY <1>8, <1>26
      <4>2. CASE q = r
        <5>1. m < i /\ i \in 1..n /\ u.recs[q] = rec
          BY <1>1, <1>7, <1>8, <1>25, <3>1, <4>2
        <5> QED
          BY <1>28, <3>1, <4>2, <5>1
      <4>3. CASE q \in Ids(s)
        <5>1. q \in Unanswered(s) /\ u.recs[q] = s.recs[q]
          BY <1>8, <1>25, <1>26, <4>3
        <5> QED
          BY <3>1, <5>1 DEF Coherent
      <4> QED
        BY <4>1, <4>2, <4>3
    <3> QED
      BY <1>25, <3>1
  <2> QED
    BY <1>25, <2>1, <2>2, <2>3, <2>4, <2>5 DEF Coherent
<1> QED
  BY <1>9, <1>24, <1>29 DEF u

-----------------------------------------------------------------------------
(* The state without its last fill.                                         *)

LEMMA SameDerived ==
  ASSUME NEW s \in Store, NEW t \in Store, SameBook(s, t), Coherent(Derived(s))
  PROVE  Coherent(Derived(t))
<1>1. Derived(t).resolved = Derived(s).resolved
  BY SameResolved, DerivedIs
<1>2. /\ Derived(s) \in Store /\ Derived(t) \in Store
      /\ Derived(s).recs = s.recs /\ Derived(t).recs = t.recs
      /\ Derived(s).execs = s.execs /\ Derived(t).execs = t.execs
      /\ Derived(s).dismissed = s.dismissed /\ Derived(t).dismissed = t.dismissed
  BY DerivedIs
<1>3. SameBook(Derived(s), Derived(t))
  BY <1>2 DEF SameBook, Ids
<1> QED
  BY <1>1, <1>2, <1>3, SameCoherent

\* Sequences are the same if their lengths and their elements are.
LEMMA SameFills ==
  ASSUME NEW a \in Seq(Exec), NEW b \in Seq(Exec), Len(a) = Len(b), \A i \in 1..Len(a) : a[i] = b[i]
  PROVE  a = b
OBVIOUS

LEMMA UnfilledIs ==
  ASSUME NEW s \in Store, Len(s.execs) > 0
  PROVE  /\ Unfilled(s) \in Store /\ Unfilled(s).recs = s.recs
         /\ Unfilled(s).dismissed = s.dismissed /\ Unfilled(s).short = s.short
         /\ Unfilled(s).execs = SubSeq(s.execs, 1, Len(s.execs) - 1)
         /\ Len(Unfilled(s).execs) = Len(s.execs) - 1
         /\ \A i \in 1..Len(s.execs) - 1 : Unfilled(s).execs[i] = s.execs[i]
<1> DEFINE n == Len(s.execs)
           es == SubSeq(s.execs, 1, n - 1)
<1>1. n \in Nat /\ n > 0 /\ \A i \in 1..n : s.execs[i] \in Exec
  BY StoreFacts
<1>2. es \in Seq(Exec) /\ Len(es) = n - 1 /\ \A i \in 1..n - 1 : es[i] = s.execs[i]
  <2>1. n - 1 \in Int /\ 1 \in Int /\ \A i \in 1..n - 1 : s.execs[i] \in Exec
    BY <1>1
  <2> HIDE DEF n
  <2>2. /\ es \in Seq(Exec) /\ Len(es) = IF 1 <= n - 1 THEN (n - 1) - 1 + 1 ELSE 0
        /\ \A i \in 1..(n - 1) - 1 + 1 : es[i] = s.execs[1 + i - 1]
    BY <2>1, SubSeqProperties
  <2>3. \A i \in 1..n - 1 : i \in 1..(n - 1) - 1 + 1 /\ 1 + i - 1 = i
    BY <1>1
  <2> HIDE DEF es
  <2> QED
    BY <1>1, <2>2, <2>3
<1>3. Unfilled(s) = [s EXCEPT !.execs = es]
  BY DEF Unfilled
<1> HIDE DEF es
<1>4. /\ Unfilled(s) \in Store /\ Unfilled(s).recs = s.recs
      /\ Unfilled(s).dismissed = s.dismissed /\ Unfilled(s).short = s.short
      /\ Unfilled(s).execs = es
  BY <1>2, <1>3 DEF Store
<1> QED
  BY <1>2, <1>4 DEF es

LEMMA BeforeIs ==
  ASSUME NEW s \in Store, Len(s.execs) > 0
  PROVE  /\ Before(s) \in Store /\ Before(s).recs = s.recs /\ Before(s).short = s.short
         /\ Before(s).dismissed = s.dismissed
         /\ Before(s).execs = SubSeq(s.execs, 1, Len(s.execs) - 1)
         /\ Len(Before(s).execs) = Len(s.execs) - 1
         /\ \A i \in 1..Len(s.execs) - 1 : Before(s).execs[i] = s.execs[i]
BY UnfilledIs, DerivedIs DEF Before

LEMMA BeforeSame ==
  ASSUME NEW s \in Store, NEW t \in Store, SameBook(s, t), Len(s.execs) > 0, Coherent(Before(s))
  PROVE  Coherent(Before(t))
<1>1. t.execs = s.execs /\ t.dismissed = s.dismissed
  BY DEF SameBook
<1>3. /\ Unfilled(s) \in Store /\ Unfilled(s).recs = s.recs /\ Unfilled(s).dismissed = s.dismissed
      /\ Unfilled(s).execs = SubSeq(s.execs, 1, Len(s.execs) - 1)
  BY UnfilledIs
<1>4. /\ Unfilled(t) \in Store /\ Unfilled(t).recs = t.recs /\ Unfilled(t).dismissed = t.dismissed
      /\ Unfilled(t).execs = SubSeq(t.execs, 1, Len(t.execs) - 1)
  BY <1>1, UnfilledIs
<1>2. SameBook(Unfilled(s), Unfilled(t))
  BY <1>1, <1>3, <1>4 DEF SameBook, Ids
<1> QED
  BY <1>2, <1>3, <1>4, SameDerived DEF Before

LEMMA BeforeDismissal ==
  ASSUME NEW s \in Store, Len(s.execs) > 0, Coherent(Before(s)), NEW d \in Nat,
         NEW t, t = AfterDismissal(s, d)
  PROVE  Coherent(Before(Derived(t)))
<1> DEFINE b == AfterDismissal(Before(s), d)
           u == Derived(t)
<1>1. Before(s) \in Store
  BY BeforeIs
<1>2. b \in Store /\ Coherent(Derived(b))
  BY <1>1, Dismissing
<1>3. /\ t \in Store /\ t.recs = s.recs /\ t.execs = s.execs
      /\ t.dismissed = s.dismissed \cup {d}
  BY DEF AfterDismissal, Store
<1>4. /\ u \in Store /\ u.recs = s.recs /\ u.execs = s.execs /\ u.dismissed = s.dismissed \cup {d}
  BY <1>3, DerivedIs
<1>5. b.recs = s.recs /\ b.dismissed = s.dismissed \cup {d} /\ b.execs = Before(s).execs
  BY <1>1, BeforeIs DEF AfterDismissal, Store
<1> HIDE DEF b, u
<1>6. /\ Unfilled(u) \in Store /\ Unfilled(u).recs = u.recs /\ Unfilled(u).dismissed = u.dismissed
      /\ Unfilled(u).execs = SubSeq(u.execs, 1, Len(u.execs) - 1)
  BY <1>4, UnfilledIs
<1>7. SameBook(b, Unfilled(u))
  BY <1>4, <1>5, <1>6, BeforeIs DEF SameBook, Ids
<1>8. Coherent(Before(u))
  BY <1>2, <1>6, <1>7, SameDerived DEF Before
<1> QED
  BY <1>8 DEF u

LEMMA BeforeEmission ==
  ASSUME NEW s \in Store, Len(s.execs) > 0, NEW rec \in Record,
         AfterEmission(Before(s), rec) \in Store, AfterEmission(s, rec) \in Store,
         Coherent(Derived(AfterEmission(Before(s), rec))), NEW t, t = AfterEmission(s, rec)
  PROVE  Coherent(Before(Derived(t)))
<1> DEFINE b == AfterEmission(Before(s), rec)
           u == Derived(t)
<1>1. /\ t.recs = Append(s.recs, rec) /\ t.execs = s.execs /\ t.dismissed = s.dismissed
  BY DEF AfterEmission, Store
<1>2. /\ u \in Store /\ u.recs = t.recs /\ u.execs = s.execs /\ u.dismissed = s.dismissed
  BY <1>1, DerivedIs
<1>3. b.recs = Append(s.recs, rec) /\ b.dismissed = s.dismissed /\ b.execs = Before(s).execs
  BY BeforeIs DEF AfterEmission, Store
<1>4. b \in Store /\ Coherent(Derived(b))
  OBVIOUS
<1> HIDE DEF b, u
<1>5. /\ Unfilled(u) \in Store /\ Unfilled(u).recs = u.recs /\ Unfilled(u).dismissed = u.dismissed
      /\ Unfilled(u).execs = SubSeq(u.execs, 1, Len(u.execs) - 1)
  BY <1>2, UnfilledIs
<1>6. SameBook(b, Unfilled(u))
  BY <1>1, <1>2, <1>3, <1>5, BeforeIs DEF SameBook, Ids
<1>7. Coherent(Before(u))
  BY <1>4, <1>5, <1>6, SameDerived DEF Before
<1> QED
  BY <1>7 DEF u

LEMMA FillTyped ==
  ASSUME NEW s \in Store, NEW x \in Exec
  PROVE  LET t == AfterFill(s, x)
         IN  /\ t \in Store /\ t.recs = s.recs /\ t.dismissed = s.dismissed /\ t.short = s.short
             /\ t.execs = Append(s.execs, x) /\ Len(t.execs) = Len(s.execs) + 1
             /\ DOMAIN t.execs = 1..Len(s.execs) + 1 /\ t.execs[Len(s.execs) + 1] = x
             /\ \A i \in 1..Len(s.execs) : t.execs[i] = s.execs[i]
<1> DEFINE es == Append(s.execs, x)
           n == Len(s.execs)
<1>1. s.execs \in Seq(Exec)
  BY DEF Store
<1>2. /\ es \in Seq(Exec) /\ Len(es) = n + 1 /\ DOMAIN es = 1..n + 1
      /\ es[n + 1] = x /\ \A i \in 1..n : es[i] = s.execs[i]
  BY <1>1
<1>3. AfterFill(s, x) = [s EXCEPT !.execs = es]
  BY DEF AfterFill
<1> HIDE DEF es
<1>4. /\ AfterFill(s, x) \in Store /\ AfterFill(s, x).recs = s.recs
      /\ AfterFill(s, x).dismissed = s.dismissed /\ AfterFill(s, x).execs = es
      /\ AfterFill(s, x).short = s.short
  BY <1>2, <1>3 DEF Store
<1> QED
  BY <1>2, <1>4 DEF es

\* Without the fill just booked the state is what it was.
LEMMA BeforeFill ==
  ASSUME NEW s \in Store, Coherent(s), NEW x \in Exec, NEW t, t = AfterFill(s, x)
  PROVE  Coherent(Before(Derived(t)))
<1> DEFINE u == Derived(t)
           n == Len(s.execs)
<1>1. /\ n \in Nat /\ t \in Store /\ t.recs = s.recs /\ t.dismissed = s.dismissed
      /\ Len(t.execs) = n + 1 /\ \A i \in 1..n : t.execs[i] = s.execs[i]
      /\ s.execs \in Seq(Exec)
  <2>1. s.execs \in Seq(Exec)
    BY DEF Store
  <2> QED
    BY <2>1, FillTyped, StoreFacts
<1>2. u \in Store /\ u.recs = s.recs /\ u.dismissed = s.dismissed /\ u.execs = t.execs
  BY <1>1, DerivedIs
<1> HIDE DEF u, n
<1>3. /\ Unfilled(u) \in Store /\ Unfilled(u).recs = u.recs /\ Unfilled(u).dismissed = u.dismissed
      /\ Len(Unfilled(u).execs) = n
      /\ \A i \in 1..n : Unfilled(u).execs[i] = u.execs[i]
  <2>1. Len(u.execs) > 0 /\ Len(u.execs) - 1 = n
    BY <1>1, <1>2
  <2> QED
    BY <1>2, <2>1, UnfilledIs
<1>4. Unfilled(u).execs = s.execs
  <2>1. Unfilled(u).execs \in Seq(Exec)
    BY <1>3 DEF Store
  <2> QED
    BY <1>1, <1>2, <1>3, <2>1, SameFills DEF n
<1>5. SameBook(s, Unfilled(u))
  BY <1>2, <1>3, <1>4 DEF SameBook, Ids
<1>6. Coherent(Derived(s))
  <2>1. Derived(s).resolved = s.resolved /\ Derived(s) \in Store /\ SameBook(s, Derived(s))
    BY DerivedIs DEF Coherent
  <2> QED
    BY <2>1, SameCoherent
<1>7. Coherent(Before(u))
  BY <1>3, <1>5, <1>6, SameDerived DEF Before
<1> QED
  BY <1>7 DEF u

\* The last fill gets another date.
Redated(s, x) == [s EXCEPT !.execs = [@ EXCEPT ![Len(s.execs)] = x]]

LEMMA RedatedTyped ==
  ASSUME NEW s \in Store, Len(s.execs) > 0, NEW x \in Exec, NEW t, t = Redated(s, x)
  PROVE  /\ t \in Store /\ t.recs = s.recs /\ t.dismissed = s.dismissed /\ t.short = s.short
         /\ Len(t.execs) = Len(s.execs) /\ t.execs[Len(s.execs)] = x
         /\ \A i \in 1..Len(s.execs) - 1 : t.execs[i] = s.execs[i]
<1> DEFINE n == Len(s.execs)
           es == [s.execs EXCEPT ![n] = x]
<1>1. n \in Nat /\ n > 0 /\ s.execs \in Seq(Exec) /\ DOMAIN s.execs = 1..n
  BY StoreFacts DEF Store
<1>2. /\ es \in Seq(Exec) /\ Len(es) = n /\ es[n] = x
      /\ \A i \in 1..n - 1 : es[i] = s.execs[i]
  BY <1>1
<1>3. t = [s EXCEPT !.execs = es]
  BY DEF Redated
<1> HIDE DEF es, n
<1>4. /\ t \in Store /\ t.recs = s.recs /\ t.dismissed = s.dismissed /\ t.short = s.short
      /\ t.execs = es
  BY <1>2, <1>3 DEF Store
<1> QED
  BY <1>2, <1>4 DEF n

LEMMA Redating ==
  ASSUME NEW s \in Store, Len(s.execs) > 0, Coherent(Before(s)), NEW x \in Exec,
         \A q \in Ids(s) : s.recs[q].at <= x.at,
         \A i \in DOMAIN s.execs : s.execs[i].at <= x.at, NEW t, t = Redated(s, x)
  PROVE  Coherent(Derived(t))
<1> DEFINE n == Len(s.execs)
           b == Before(s)
           f == AfterFill(b, x)
<1>1. /\ b \in Store /\ b.recs = s.recs /\ b.dismissed = s.dismissed /\ Ids(b) = Ids(s)
      /\ Len(b.execs) = n - 1 /\ \A i \in 1..n - 1 : b.execs[i] = s.execs[i]
  BY BeforeIs DEF Ids
<1>2. n \in Nat /\ n > 0 /\ DOMAIN s.execs = 1..n
  BY StoreFacts
<1>3. Coherent(b) /\ DOMAIN b.execs = 1..n - 1
  BY <1>1, StoreFacts
<1> HIDE DEF n, b
<1>4. Coherent(Derived(f))
  <2>1. \A i \in DOMAIN b.execs : b.execs[i].at <= x.at
    BY <1>1, <1>2, <1>3
  <2> QED
    BY <1>1, <1>3, <2>1, Booking
<1>5. /\ f \in Store /\ f.recs = s.recs /\ f.dismissed = s.dismissed
      /\ Len(f.execs) = n /\ f.execs[n] = x /\ \A i \in 1..n - 1 : f.execs[i] = s.execs[i]
  <2>1. /\ f \in Store /\ f.recs = b.recs /\ f.dismissed = b.dismissed
        /\ Len(f.execs) = Len(b.execs) + 1 /\ f.execs[Len(b.execs) + 1] = x
        /\ \A i \in 1..Len(b.execs) : f.execs[i] = b.execs[i]
    BY <1>1, FillTyped
  <2>2. Len(b.execs) + 1 = n
    BY <1>1, <1>2
  <2> HIDE DEF f
  <2> QED
    BY <1>1, <2>1, <2>2
<1>6. /\ t \in Store /\ t.recs = s.recs /\ t.dismissed = s.dismissed
      /\ Len(t.execs) = n /\ t.execs[n] = x /\ \A i \in 1..n - 1 : t.execs[i] = s.execs[i]
  BY RedatedTyped DEF n
<1> HIDE DEF f
<1>7. f.execs = t.execs
  <2>1. f.execs \in Seq(Exec) /\ t.execs \in Seq(Exec)
    BY <1>5, <1>6 DEF Store
  <2>2. \A i \in 1..n : i \in 1..n - 1 \/ i = n
    BY <1>2
  <2> QED
    BY <1>5, <1>6, <2>1, <2>2, SameFills
<1>8. SameBook(f, t)
  BY <1>5, <1>6, <1>7 DEF SameBook, Ids
<1> QED
  BY <1>4, <1>5, <1>6, <1>8, SameDerived

-----------------------------------------------------------------------------
(* Types.                                                                   *)

LEMMA EmptyTyped == /\ EmptyStore \in Store /\ Ids(EmptyStore) = {}
                    /\ NoPass \in Pass /\ PassTyped(NoPass) /\ NoOp.pc = "idle"
                    /\ NoOp \in Op /\ NoBooking \in Bookings /\ NoBooking.pc = "idle"
<1>1. EmptyStore \in Store /\ Ids(EmptyStore) = {}
  BY DEF EmptyStore, Store, Ids
<1>2. 0 \in Instants
  BY RecommendationConstants DEF Instants
<1>3. NoPass \in Pass /\ NoPass.todo = {} /\ NoPass.pc = "idle"
  BY <1>1, <1>2 DEF NoPass, Pass
<1>4. NoOp.pc = "idle" /\ NoOp \in Op
  BY <1>1 DEF NoOp, Op
<1>5. NoBooking \in Bookings /\ NoBooking.pc = "idle"
  BY <1>1 DEF NoBooking, Bookings
<1> QED
  BY <1>1, <1>3, <1>4, <1>5 DEF PassTyped

\* What the pass becomes.
LEMMA GoesTyped ==
  ASSUME NEW p, PassTyped(p), Goes(p)
  PROVE  PassTyped(pass') /\ pass'.now = p.now /\ pass'.pc = p.pc
         /\ (p.pc # "idle" => pass' = p)
<1>1. CASE p.pc = "idle"
  <2>1. pass' = [NoPass EXCEPT !.now = p.now]
    BY <1>1 DEF Goes
  <2>2. NoPass \in Pass /\ NoPass.todo = {} /\ NoPass.pc = "idle" /\ p.now \in Instants
    BY EmptyTyped DEF NoPass, PassTyped, Pass
  <2>3. pass' \in Pass /\ pass'.todo = {} /\ pass'.pc = "idle" /\ pass'.now = p.now
    BY <2>1, <2>2 DEF Pass
  <2> QED
    BY <1>1, <2>3 DEF PassTyped
<1>2. CASE p.pc # "idle"
  BY <1>2 DEF Goes
<1> QED
  BY <1>1, <1>2

\* The gate opens again, and when is a number.
LEMMA ExecutableTyped ==
  ASSUME NEW now \in Instants, Blocked(now)
  PROVE  ExecutableAt(now) \in Nat
<1> DEFINE T == {t \in now..End : ~Blocked(t)}
<1>1. now \in Nat /\ End \in Nat /\ now <= End /\ ~Blocked(End)
  BY RecommendationConstants DEF Blocked, Instants
<1>2. T \in SUBSET Nat /\ T # {}
  <2>1. End \in now..End /\ now..End \subseteq Nat
    BY <1>1
  <2> QED
    BY <1>1, <2>1
<1>3. PICK t \in T : \A u \in T : t <= u
  BY <1>2, Smallest
<1>4. t \in now..End /\ ~Blocked(t) /\ \A u \in now..t - 1 : Blocked(u)
  <2>1. ASSUME NEW u \in now..t - 1, ~Blocked(u) PROVE FALSE
    <3>1. u \in now..End /\ ~(t <= u)
      BY <1>1, <1>3
    <3> QED
      BY <1>3, <2>1, <3>1
  <2> QED
    BY <1>3, <2>1
<1>5. ExecutableAt(now) \in now..End
  BY <1>4 DEF ExecutableAt
<1> QED
  BY <1>1, <1>5

LEMMA InitTyped == Init => Typed
<1> SUFFICES ASSUME Init PROVE Typed
  OBVIOUS
<1>1. PICK g \in BOOLEAN : store = [EmptyStore EXCEPT !.granted = g]
  BY DEF Init
<1>2. store \in Store
  BY <1>1, EmptyTyped DEF Store
<1>3. clock \in Instants /\ held \in Nat /\ orders \in Seq(Order) /\ crossed \in BOOLEAN
  <2>1. End \in Nat
    BY RecommendationConstants
  <2>2. clock \in Instants
    BY <2>1 DEF Init, Instants
  <2>3. held = 1 /\ orders = <<>> /\ crossed = FALSE
    BY DEF Init
  <2>4. <<>> \in Seq(Order) /\ 1 \in Nat /\ FALSE \in BOOLEAN
    OBVIOUS
  <2> QED
    BY <2>2, <2>3, <2>4
<1> QED
  BY <1>2, <1>3, EmptyTyped DEF Init, Typed

\* Records marked by a release, and what stays of them.
LEMMA MarkedIs ==
  ASSUME NEW s \in Store, NEW rs, NEW now, NEW verdict
  PROVE  /\ Marked(s, rs, now, verdict) \in Store
         /\ SameBook(s, Marked(s, rs, now, verdict))
         /\ Marked(s, rs, now, verdict).resolved = s.resolved
         /\ Marked(s, rs, now, verdict).short = s.short
<1> DEFINE new == [r \in Ids(s) |->
               IF r \in rs \cap Pending(s)
               THEN [s.recs[r] EXCEPT !.settle = Settled(s.recs[r], now, verdict)]
               ELSE s.recs[r]]
<1>1. Ids(s) = 1..Len(s.recs) /\ Len(s.recs) \in Nat /\ \A r \in Ids(s) : s.recs[r] \in Record
  BY StoreFacts
<1>2. ASSUME NEW r \in Ids(s)
      PROVE  /\ new[r] \in Record
             /\ new[r].claim = s.recs[r].claim /\ new[r].at = s.recs[r].at
             /\ new[r].of = s.recs[r].of /\ new[r].seen = s.recs[r].seen
             /\ new[r].supersedes = s.recs[r].supersedes
  <2> DEFINE x == Settled(s.recs[r], now, verdict)
  <2>1. x \in {"EXPIRED", "RELEASED", "SELF_CANCELED"}
    BY DEF Settled
  <2>2. new[r] = IF r \in rs \cap Pending(s) THEN [s.recs[r] EXCEPT !.settle = x] ELSE s.recs[r]
    OBVIOUS
  <2> HIDE DEF x, new
  <2> QED
    BY <1>1, <2>1, <2>2 DEF Record
<1>3. new \in Seq(Record) /\ DOMAIN new = Ids(s)
  <2>1. new \in [1..Len(s.recs) -> Record]
    BY <1>1, <1>2
  <2> QED
    BY <1>1, <2>1
<1>4. Marked(s, rs, now, verdict) = [s EXCEPT !.recs = new]
  BY DEF Marked
<1> HIDE DEF new
<1> DEFINE t == [s EXCEPT !.recs = new]
<1>5. /\ t \in Store /\ t.recs = new /\ t.execs = s.execs /\ t.short = s.short
      /\ t.dismissed = s.dismissed /\ t.resolved = s.resolved
  BY <1>3 DEF Store
<1> HIDE DEF t
<1>6. SameBook(s, t)
  BY <1>2, <1>3, <1>5 DEF SameBook, Ids
<1> QED
  BY <1>4, <1>5, <1>6 DEF t

\* Writes of the flags: what resolves the records stays.
FlagWrites(s) ==
  {[s EXCEPT !.granted = b] : b \in BOOLEAN} \cup {[s EXCEPT !.on = b] : b \in BOOLEAN}
    \cup {[s EXCEPT !.frozen = b] : b \in BOOLEAN} \cup {[s EXCEPT !.subs = @ \cup {r}] : r \in Nat}

LEMMA FlagsSame ==
  ASSUME NEW s \in Store, NEW t \in FlagWrites(s)
  PROVE  /\ t \in Store /\ SameBook(s, t) /\ t.resolved = s.resolved /\ t.recs = s.recs
         /\ t.short = s.short
<1>1. \A r \in Nat : s.subs \cup {r} \in SUBSET Nat
  BY DEF Store
<1>2. /\ t \in Store /\ t.recs = s.recs /\ t.execs = s.execs /\ t.short = s.short
      /\ t.dismissed = s.dismissed /\ t.resolved = s.resolved
  <2>1. CASE t \in {[s EXCEPT !.granted = b] : b \in BOOLEAN}
    BY <2>1 DEF Store
  <2>2. CASE t \in {[s EXCEPT !.on = b] : b \in BOOLEAN}
    BY <2>2 DEF Store
  <2>3. CASE t \in {[s EXCEPT !.frozen = b] : b \in BOOLEAN}
    BY <2>3 DEF Store
  <2>4. CASE t \in {[s EXCEPT !.subs = @ \cup {r}] : r \in Nat}
    BY <1>1, <2>4 DEF Store
  <2> QED
    BY <2>1, <2>2, <2>3, <2>4 DEF FlagWrites
<1> QED
  BY <1>2 DEF SameBook, Ids

LEMMA BookOfIs ==
  ASSUME NEW s \in Store
  PROVE  /\ BookOf(s) \in Store /\ SameBook(s, BookOf(s)) /\ BookOf(s).resolved = s.resolved
         /\ BookOf(s).recs = s.recs /\ BookOf(s).short = s.short
<1>1. /\ BookOf(s) \in Store /\ BookOf(s).recs = s.recs /\ BookOf(s).execs = s.execs
      /\ BookOf(s).dismissed = s.dismissed
      /\ BookOf(s).short = s.short /\ BookOf(s).resolved = s.resolved
  BY DEF BookOf, EmptyStore, Store
<1> QED
  BY <1>1 DEF SameBook, Ids

\* Deferring a record.
AfterDeferral(s, r, due) ==
  [s EXCEPT !.recs[r].settle = "PENDING_SETTLE", !.recs[r].due = due]

LEMMA DeferredIs ==
  ASSUME NEW s \in Store, NEW r \in Ids(s), NEW due \in Nat, NEW t, t = AfterDeferral(s, r, due)
  PROVE  t \in Store /\ SameBook(s, t) /\ t.resolved = s.resolved /\ t.short = s.short
<1> DEFINE new == [s.recs EXCEPT ![r] = [s.recs[r] EXCEPT !.settle = "PENDING_SETTLE", !.due = due]]
<1>1. Ids(s) = 1..Len(s.recs) /\ Len(s.recs) \in Nat /\ \A q \in Ids(s) : s.recs[q] \in Record
      /\ s.recs \in Seq(Record) /\ DOMAIN s.recs = Ids(s)
  BY StoreFacts DEF Store, Ids
<1>2. DOMAIN new = Ids(s) /\ \A q \in Ids(s) : q # r => new[q] = s.recs[q]
  BY <1>1
<1>3. new[r] = [s.recs[r] EXCEPT !.settle = "PENDING_SETTLE", !.due = due]
  BY <1>1
<1>4. /\ new[r] \in Record
      /\ new[r].claim = s.recs[r].claim /\ new[r].at = s.recs[r].at
      /\ new[r].of = s.recs[r].of /\ new[r].seen = s.recs[r].seen
      /\ new[r].supersedes = s.recs[r].supersedes
  BY <1>1, <1>3 DEF Record
<1>5. t = [s EXCEPT !.recs = new]
  BY <1>1 DEF AfterDeferral, Store
<1>6. new \in Seq(Record)
  <2>1. new \in [1..Len(s.recs) -> Record]
    BY <1>1, <1>2, <1>4
  <2> QED
    BY <1>1, <2>1
<1> HIDE DEF new
<1>7. /\ t \in Store /\ t.recs = new /\ t.execs = s.execs /\ t.short = s.short
      /\ t.dismissed = s.dismissed /\ t.resolved = s.resolved
  BY <1>5, <1>6 DEF Store
<1> QED
  BY <1>2, <1>4, <1>7 DEF SameBook, Ids

-----------------------------------------------------------------------------
(* The steps that leave the records, the fills and the resolutions alone.   *)

Kept ==
  /\ Typed' /\ FillsKept' /\ (~crossed' => Dated')
  /\ InOrder' => InOrder /\ Good' /\ store.resolved \cap Open(store', clock') = {}

Early == {"release", "load", "emit"}
Onward ==
  /\ \/ /\ clock <= clock' /\ pass'.now = pass.now
        /\ pass'.pc \in Early => pass.pc \in Early
     \/ clock' = clock /\ pass.now # clock /\ pass'.now = clock
  /\ pass'.pc = "emit" =>
       \/ pass.pc = "emit" /\ pass'.copy = pass.copy /\ pass'.now = pass.now /\ store'.recs = store.recs
       \/ store' = store /\ pass'.copy = BookOf(store) /\ booking' = booking

\* The booking begins or ends as the call the position is short becomes known.
BooksOn ==
  /\ store.short <= store'.short
  /\ ShortIs => ShortIs'
  /\ booking'.pc = "sell" => booking' = booking

\* No order becomes booked.
NoneBooked ==
  \A o \in DOMAIN orders' : orders'[o].status = "booked" =>
    o \in DOMAIN orders /\ orders[o].status = "booked"

LEMMA InOrderBefore ==
  ASSUME store \in Store, store' \in Store, ~crossed' => ~crossed,
         \A r \in Ids(store) : /\ r \in Ids(store') /\ store'.recs[r].at = store.recs[r].at
                               /\ store'.recs[r].of = store.recs[r].of
                               /\ store'.recs[r].seen = store.recs[r].seen,
         ~crossed => \A i \in DOMAIN store.execs :
                       i \in DOMAIN store'.execs /\ store.execs[i].at <= store'.execs[i].at,
         InOrder'
  PROVE  InOrder
<1>1. ~crossed' /\ ~Antedated' /\ ~Halfway'
  BY DEF InOrder
<1>2. ASSUME Antedated PROVE Antedated'
  <2>1. PICK r \in Ids(store) : \E i \in 1..store.recs[r].seen :
          i \in DOMAIN store.execs /\ store.recs[r].at <= store.execs[i].at
    BY <1>2 DEF Antedated
  <2>2. PICK i \in 1..store.recs[r].seen :
          i \in DOMAIN store.execs /\ store.recs[r].at <= store.execs[i].at
    BY <2>1
  <2>3. i \in DOMAIN store'.execs /\ store.execs[i].at <= store'.execs[i].at
    BY <1>1, <2>2
  <2>4. store.recs[r].at \in Nat /\ store.execs[i].at \in Nat /\ store'.execs[i].at \in Nat
    <3>1. store.recs[r] \in Record /\ store.execs[i] \in Exec
      BY <2>2, StoreFacts
    <3>2. store'.execs[i] \in Exec
      BY <2>3, StoreFacts
    <3>3. Instants \subseteq Nat
      BY DEF Instants
    <3> QED
      BY <3>1, <3>2, <3>3 DEF Record, Exec
  <2>5. store.recs[r].at <= store'.execs[i].at
    BY <2>2, <2>3, <2>4
  <2>6. /\ r \in Ids(store') /\ i \in 1..store'.recs[r].seen /\ i \in DOMAIN store'.execs
        /\ store'.recs[r].at <= store'.execs[i].at
    BY <2>1, <2>2, <2>3, <2>5
  <2> QED
    BY <2>6 DEF Antedated, Ids
<1>3. Halfway => Halfway'
  BY DEF Halfway, Ids
<1> QED
  BY <1>1, <1>2, <1>3 DEF InOrder

LEMMA SameRefl == \A s : SameBook(s, s)
BY DEF SameBook

\* What is resolved is not open.
LEMMA NotOpen ==
  ASSUME store.resolved \subseteq store'.resolved
  PROVE  store.resolved \cap Open(store', clock') = {}
BY DEF Open

LEMMA SameBooking ==
  ASSUME store \in Store, store' \in Store, booking' = booking, SameBook(store, store'),
         store'.short = store.short
  PROVE  BooksOn
<1>1. store.short <= store'.short
  BY DEF Store
<1>2. Ids(store') = Ids(store) /\ store'.execs = store.execs
      /\ \A r \in Ids(store) : store'.recs[r].of = store.recs[r].of
  BY DEF SameBook
<1>3. ShortIs => ShortIs'
  BY <1>2 DEF ShortIs, Ids
<1> QED
  BY <1>1, <1>3 DEF BooksOn

LEMMA QuietKept ==
  ASSUME IInv, Typed', SameBook(store, store'), store'.resolved = store.resolved,
         ~crossed' => ~crossed, NoneBooked, Onward, BooksOn
  PROVE  Kept
<1>1. store \in Store /\ store' \in Store /\ PassTyped(pass) /\ PassTyped(pass')
      /\ clock \in Instants /\ clock' \in Instants
  BY DEF IInv, Typed
<1>2. Ids(store') = Ids(store) /\ store'.execs = store.execs
  BY DEF SameBook
<1>3. FillsKept'
  <2> SUFFICES ASSUME ~crossed', NEW o \in DOMAIN orders', orders'[o].status = "booked"
               PROVE  \E i \in DOMAIN store'.execs : store'.execs[i].order = o
    BY DEF FillsKept
  <2>1. o \in DOMAIN orders /\ orders[o].status = "booked"
    BY DEF NoneBooked
  <2> QED
    BY <1>2, <2>1 DEF IInv, FillsKept
<1>4. InOrder' => InOrder
  <2>1. \A i \in DOMAIN store.execs : store.execs[i].at <= store.execs[i].at
    <3>1. \A i \in DOMAIN store.execs : store.execs[i] \in Exec
      BY <1>1, StoreFacts
    <3>2. \A x \in Exec : x.at <= x.at
      BY DEF Exec, Instants
    <3> QED
      BY <3>1, <3>2
  <2> QED
    BY <1>1, <1>2, <2>1, InOrderBefore DEF SameBook
<1>6. ~crossed' => Dated'
  <2> SUFFICES ASSUME ~crossed', NEW i \in DOMAIN store'.execs PROVE store'.execs[i].at <= clock'
    BY DEF Dated
  <2>1. store'.execs[i] = store.execs[i] /\ store.execs[i].at <= clock
    BY <1>2 DEF IInv, Dated
  <2>2. clock <= clock' /\ clock \in Nat /\ clock' \in Nat
    BY <1>1 DEF Onward, Instants
  <2>3. store.execs[i].at \in Nat
    BY <1>1, <1>2, StoreFacts DEF Exec, Instants
  <2> QED
    BY <2>1, <2>2, <2>3
<1>5. ASSUME InOrder' PROVE Good'
  <2>1. /\ Coherent(store) /\ Timely /\ ShortIs
        /\ booking.pc = "sell" => HalfBooked
        /\ pass.pc = "emit" /\ Whole(pass.copy) => Prior(pass.copy, store, pass.now)
    BY <1>4, <1>5 DEF IInv, Good
  <2>2. Coherent(store')
    BY <1>1, <2>1, SameCoherent
  <2>3. /\ clock \in Nat /\ clock' \in Nat /\ pass.now \in Nat /\ pass'.now \in Nat
        /\ \A i \in DOMAIN store.execs : store.execs[i].at \in Nat
        /\ \A r \in Ids(store) : store.recs[r].at \in Nat
    <3>1. \A i \in DOMAIN store.execs : store.execs[i] \in Exec
      BY <1>1, StoreFacts
    <3>2. \A r \in Ids(store) : store.recs[r] \in Record
      BY <1>1, StoreFacts
    <3>3. Instants \subseteq Nat
      BY DEF Instants
    <3> QED
      BY <1>1, <3>1, <3>2, <3>3 DEF Exec, Record, PassTyped, Pass
  <2>4. pass.now <= clock /\ (\A i \in DOMAIN store.execs : store.execs[i].at <= clock)
        /\ (\A r \in Ids(store) : store.recs[r].at <= pass.now)
        /\ (pass.pc \in Early => \A r \in Ids(store) : store.recs[r].at < pass.now)
    BY <2>1 DEF Timely, Early
  <2>5. \A r \in Ids(store) : store'.recs[r].at = store.recs[r].at
    BY DEF SameBook
  <2>6. /\ pass'.now <= clock'
        /\ \A i \in DOMAIN store'.execs : store'.execs[i].at <= clock'
        /\ \A r \in Ids(store') : store'.recs[r].at <= pass'.now
        /\ pass'.pc \in Early => \A r \in Ids(store') : store'.recs[r].at < pass'.now
    <3>1. CASE /\ clock <= clock' /\ pass'.now = pass.now
               /\ pass'.pc \in Early => pass.pc \in Early
      <4>1. pass'.now <= clock' /\ (\A i \in DOMAIN store'.execs : store'.execs[i].at <= clock')
        BY <1>2, <2>3, <2>4, <3>1
      <4>2. (\A r \in Ids(store') : store'.recs[r].at <= pass'.now)
            /\ (pass'.pc \in Early => \A r \in Ids(store') : store'.recs[r].at < pass'.now)
        BY <1>2, <2>4, <2>5, <3>1
      <4> QED
        BY <4>1, <4>2
    <3>2. CASE clock' = clock /\ pass.now # clock /\ pass'.now = clock
      <4>1. pass'.now <= clock' /\ (\A i \in DOMAIN store'.execs : store'.execs[i].at <= clock')
        BY <1>2, <2>3, <2>4, <3>2
      <4>2. \A r \in Ids(store') : store'.recs[r].at < pass'.now /\ store'.recs[r].at <= pass'.now
        BY <1>2, <2>3, <2>4, <2>5, <3>2
      <4> QED
        BY <4>1, <4>2
    <3> QED
      BY <3>1, <3>2 DEF Onward
  <2>7. Timely'
    BY <2>6 DEF Timely, Early, Ids
  <2>8. ASSUME pass'.pc = "emit", Whole(pass'.copy) PROVE Prior(pass'.copy, store', pass'.now)
    <3>1. CASE pass.pc = "emit" /\ pass'.copy = pass.copy /\ pass'.now = pass.now /\ store'.recs = store.recs
      <4>1. Prior(pass.copy, store, pass.now)
        BY <2>1, <2>8, <3>1
      <4>2. pass.copy.short <= store.short /\ store.short <= store'.short
        BY <4>1 DEF BooksOn, Prior
      <4>3. pass.copy.short \in Nat /\ store.short \in Nat /\ store'.short \in Nat
        BY <1>1 DEF Store, PassTyped, Pass
      <4>4. pass.copy.short <= store'.short
        BY <4>2, <4>3
      <4> QED
        BY <3>1, <4>1, <4>4 DEF Prior, SameBook
    <3>2. CASE store' = store /\ pass'.copy = BookOf(store) /\ booking' = booking
      <4>1. /\ BookOf(store) \in Store /\ SameBook(store, BookOf(store))
            /\ BookOf(store).resolved = store.resolved /\ BookOf(store).recs = store.recs
            /\ BookOf(store).short = store.short /\ store.short \in Nat
        BY <1>1, BookOfIs DEF Store
      <4>2. Coherent(BookOf(store))
        BY <1>1, <2>1, <4>1, SameCoherent
      <4>3. Len(store.execs) \in Nat /\ DOMAIN store.execs = 1..Len(store.execs)
        BY <1>1, StoreFacts
      <4>4. \A i \in DOMAIN store.execs : ~(Len(store.execs) < i)
        BY <4>3
      <4>5. BookOf(store).execs = store.execs /\ BookOf(store).dismissed = store.dismissed
        BY <4>1 DEF SameBook
      <4>6. BookOf(store).short <= store.short
        BY <4>1
      <4> QED
        BY <3>2, <4>1, <4>2, <4>3, <4>4, <4>5, <4>6 DEF Prior
    <3> QED
      BY <2>8, <3>1, <3>2 DEF Onward
  <2>9. booking'.pc = "sell" => HalfBooked'
    <3> SUFFICES ASSUME booking'.pc = "sell" PROVE HalfBooked'
      OBVIOUS
    <3>1. booking' = booking /\ HalfBooked
      BY <2>1 DEF BooksOn
    <3>2. Coherent(Before(store'))
      BY <1>1, <3>1, BeforeSame DEF HalfBooked
    <3> QED
      BY <1>2, <3>1, <3>2 DEF HalfBooked, Before, Unfilled, Derived, Resolved
  <2>10. ShortIs'
    BY <2>1 DEF BooksOn
  <2> QED
    BY <2>2, <2>7, <2>8, <2>9, <2>10 DEF Good
<1> QED
  BY <1>3, <1>4, <1>5, <1>6, NotOpen DEF Kept

\* A step that does not write the file.
LEMMA SilentKept ==
  ASSUME IInv, Typed', store' = store, crossed' = crossed, booking' = booking, NoneBooked, Onward
  PROVE  Kept
<1>1. BooksOn
  BY SameRefl, SameBooking DEF IInv, Typed
<1> QED
  BY <1>1, SameRefl, QuietKept

LEMMA SameOrders == orders' = orders => NoneBooked
BY DEF NoneBooked

-----------------------------------------------------------------------------
(* The steps of the pass.                                                   *)

\* What a step of the pass starts from.
LEMMA PassFacts ==
  ASSUME IInv
  PROVE  /\ Typed /\ store \in Store /\ clock \in Instants /\ pass \in Pass /\ PassTyped(pass)
         /\ pass.copy \in Store /\ pass.now \in Instants /\ pass.now <= pass.now
         /\ clock <= clock /\ EmptyStore \in Store /\ Ids(EmptyStore) = {}
         /\ (pass.pc # "act" => pass.todo = {})
<1>1. /\ Typed /\ store \in Store /\ clock \in Instants /\ pass \in Pass /\ PassTyped(pass)
      /\ (pass.pc # "act" => pass.todo = {})
  BY DEF IInv, Typed, PassTyped
<1>2. pass.copy \in Store /\ pass.now \in Instants
  BY <1>1 DEF Pass
<1>3. \A x \in Instants : x <= x
  BY DEF Instants
<1> QED
  BY <1>1, <1>2, <1>3, EmptyTyped

\* What a step of the pass leaves to be shown, once its next pass is known.
LEMMA PassMoves ==
  ASSUME IInv, NEW p, PassTyped(p), Goes(p), UNCHANGED <<clock, op, booking, crossed>>,
         store' \in Store, held' \in Nat, orders' \in Seq(Order), DOMAIN orders \subseteq DOMAIN orders'
  PROVE  Typed'
BY GoesTyped DEF IInv, Typed

LEMMA BeginStep == ASSUME IInv, BeginPass PROVE Kept
<1> DEFINE p == [NoPass EXCEPT !.pc = IF Due(store, clock) # {} THEN "release" ELSE "load",
                               !.now = clock,
                               !.copy = IF Due(store, clock) # {} THEN store ELSE @]
<1>1. /\ pass.pc = "idle" /\ pass.now # clock /\ Goes(p) /\ store' = store /\ crossed' = crossed
      /\ UNCHANGED <<clock, op, booking, crossed>> /\ held' = held /\ orders' = orders
  BY DEF BeginPass, OnPass, broker
<1>2. /\ p \in Pass /\ p.todo = {} /\ p.pc \in {"release", "load"} /\ p.now = clock
  BY PassFacts, EmptyTyped DEF Pass, NoPass
<1> HIDE DEF p
<1>3. PassTyped(p)
  BY <1>2 DEF PassTyped
<1>4. Typed'
  BY <1>1, <1>3, PassFacts, PassMoves DEF IInv, Typed
<1>5. pass'.now = clock /\ pass'.pc # "emit"
  BY <1>1, <1>2, <1>3, GoesTyped
<1> QED
  BY <1>1, <1>4, <1>5, SameOrders, SilentKept DEF Onward

LEMMA ReleaseStep == ASSUME IInv, Release PROVE Kept
<1> DEFINE p == [pass EXCEPT !.pc = "load", !.copy = EmptyStore]
<1>1. /\ pass.pc = "release" /\ Goes(p) /\ crossed' = crossed
      /\ UNCHANGED <<clock, op, booking, crossed>> /\ held' = held /\ orders' = orders
      /\ \E verdict : store' = Marked(store, Due(pass.copy, pass.now), pass.now, verdict)
  BY DEF Release, OnPass, broker, Saves
<1>2. p \in Pass /\ p.todo = {} /\ p.pc = "load" /\ p.now = pass.now
  BY <1>1, PassFacts DEF Pass
<1> HIDE DEF p
<1>3. PassTyped(p)
  BY <1>2 DEF PassTyped
<1>4. /\ store' \in Store /\ SameBook(store, store') /\ store'.resolved = store.resolved
      /\ store'.short = store.short
  BY <1>1, PassFacts, MarkedIs
<1>5. Typed'
  BY <1>1, <1>3, <1>4, PassFacts, PassMoves DEF IInv, Typed
<1>6. pass'.now = pass.now /\ pass'.pc = "load"
  BY <1>1, <1>2, <1>3, GoesTyped
<1>7. Onward
  BY <1>1, <1>6, PassFacts DEF Onward, Early
<1> QED
  BY <1>1, <1>4, <1>5, <1>7, PassFacts, SameOrders, SameBooking, QuietKept

LEMMA LoadStep == ASSUME IInv, Load PROVE Kept
<1> DEFINE p == [pass EXCEPT !.pc = IF store.frozen THEN "idle" ELSE "emit",
                             !.copy = IF store.frozen THEN @ ELSE BookOf(store)]
<1>1. /\ pass.pc = "load" /\ Goes(p) /\ crossed' = crossed /\ store' = store
      /\ UNCHANGED <<clock, op, booking, crossed>> /\ held' = held /\ orders' = orders
  BY DEF Load, OnPass, broker
<1>2. BookOf(store) \in Store
  BY PassFacts, BookOfIs
<1>3. /\ p \in Pass /\ p.todo = {} /\ p.now = pass.now /\ p.pc \in {"idle", "emit"}
      /\ p.pc = "emit" => p.copy = BookOf(store)
  BY <1>1, <1>2, PassFacts DEF Pass
<1> HIDE DEF p
<1>4. PassTyped(p)
  BY <1>3 DEF PassTyped
<1>5. Typed'
  BY <1>1, <1>4, PassFacts, PassMoves DEF IInv, Typed
<1>6. /\ pass'.now = pass.now /\ pass'.pc \in {"idle", "emit"}
      /\ pass'.pc = "emit" => pass'.copy = BookOf(store)
  BY <1>1, <1>3, <1>4, GoesTyped
<1>7. Onward
  BY <1>1, <1>6, PassFacts DEF Onward, Early
<1> QED
  BY <1>1, <1>5, <1>7, SameOrders, SilentKept

LEMMA EmitFailsStep == ASSUME IInv, EmitFails PROVE Kept
<1> DEFINE p == [pass EXCEPT !.pc = "idle"]
<1>1. /\ pass.pc = "emit" /\ Goes(p) /\ crossed' = crossed /\ store' = store
      /\ UNCHANGED <<clock, op, booking, crossed>> /\ held' = held /\ orders' = orders
  BY DEF EmitFails, OnPass, broker
<1>2. p \in Pass /\ p.todo = {} /\ p.now = pass.now /\ p.pc = "idle"
  BY <1>1, PassFacts DEF Pass
<1> HIDE DEF p
<1>3. PassTyped(p)
  BY <1>2 DEF PassTyped
<1>4. Typed'
  BY <1>1, <1>3, PassFacts, PassMoves DEF IInv, Typed
<1>5. pass'.now = pass.now /\ pass'.pc = "idle"
  BY <1>1, <1>2, <1>3, GoesTyped
<1>6. Onward
  BY <1>1, <1>5, PassFacts DEF Onward, Early
<1> QED
  BY <1>1, <1>4, <1>6, SameOrders, SilentKept

LEMMA StageStep == ASSUME IInv, Stage PROVE Kept
<1> DEFINE p == [pass EXCEPT !.pc = "auto", !.new = 0]
           deferred == /\ pass.new \in Ids(store) /\ Blocked(pass.now)
                       /\ IsAction(store.recs[pass.new])
                       /\ store.recs[pass.new].settle = "none"
           due == ExecutableAt(pass.now)
<1>1. /\ pass.pc = "stage" /\ Goes(p) /\ crossed' = crossed
      /\ UNCHANGED <<clock, op, booking, crossed>> /\ held' = held /\ orders' = orders
      /\ IF deferred
         THEN store' = AfterDeferral(store, pass.new, due)
         ELSE store' = store
  BY DEF Stage, OnPass, broker, Saves, AfterDeferral
<1>2. p \in Pass /\ p.todo = {} /\ p.now = pass.now /\ p.pc = "auto"
  BY <1>1, PassFacts DEF Pass
<1> HIDE DEF p
<1>3. PassTyped(p)
  BY <1>2 DEF PassTyped
<1>4. /\ store' \in Store /\ SameBook(store, store') /\ store'.resolved = store.resolved
      /\ store'.short = store.short
  <2>1. CASE deferred
    <3>1. due \in Nat /\ pass.new \in Ids(store)
      BY <2>1, PassFacts, ExecutableTyped
    <3> HIDE DEF due
    <3> QED
      BY <1>1, <2>1, <3>1, PassFacts, DeferredIs
  <2>2. CASE ~deferred
    BY <1>1, <2>2, PassFacts, SameRefl
  <2> QED
    BY <2>1, <2>2
<1>5. Typed'
  BY <1>1, <1>3, <1>4, PassFacts, PassMoves DEF IInv, Typed
<1>6. pass'.now = pass.now /\ pass'.pc = "auto"
  BY <1>1, <1>2, <1>3, GoesTyped
<1>7. Onward
  BY <1>1, <1>6, PassFacts DEF Onward, Early
<1> QED
  BY <1>1, <1>4, <1>5, <1>7, PassFacts, SameOrders, SameBooking, QuietKept

LEMMA AutoLoadStep == ASSUME IInv, AutoLoad PROVE Kept
<1> DEFINE todo == IF store.on /\ store.granted
                   THEN {r \in Open(store, pass.now) : store.recs[r].claim \in Rolls}
                   ELSE {}
           copy == [EmptyStore EXCEPT !.recs = store.recs]
           p == [pass EXCEPT !.pc = IF todo = {} THEN "idle" ELSE "act",
                             !.todo = todo, !.copy = copy]
<1>1. /\ pass.pc = "auto" /\ Goes(p) /\ crossed' = crossed /\ store' = store
      /\ UNCHANGED <<clock, op, booking, crossed>> /\ held' = held /\ orders' = orders
  BY DEF AutoLoad, OnPass, broker
<1>2. todo \subseteq Ids(store)
  BY DEF Open
<1>3. copy \in Store /\ Ids(copy) = Ids(store)
  BY PassFacts DEF Store, Ids, EmptyStore
<1>4. Ids(store) \subseteq Nat
  BY PassFacts, StoreFacts
<1> HIDE DEF todo, copy
<1>5. /\ p \in Pass /\ p.todo = todo /\ p.now = pass.now /\ p.copy = copy
      /\ p.pc = IF todo = {} THEN "idle" ELSE "act"
  BY <1>2, <1>3, <1>4, PassFacts DEF Pass
<1> HIDE DEF p
<1>6. PassTyped(p)
  BY <1>2, <1>3, <1>5 DEF PassTyped
<1>7. Typed'
  BY <1>1, <1>6, PassFacts, PassMoves DEF IInv, Typed
<1>8. pass'.now = pass.now /\ pass'.pc \in {"idle", "act"}
  BY <1>1, <1>5, <1>6, GoesTyped
<1>9. Onward
  BY <1>1, <1>8, PassFacts DEF Onward, Early
<1> QED
  BY <1>1, <1>7, <1>9, SameOrders, SilentKept

\* An order that is sent works.
LEMMA SentIs ==
  ASSUME orders \in Seq(Order), NEW src \in Nat, NEW of \in Nat, NEW claim \in Moves,
         orders' = Append(orders, RollOrder(src, of, claim))
  PROVE  orders' \in Seq(Order) /\ NoneBooked /\ DOMAIN orders \subseteq DOMAIN orders'
<1> DEFINE x == RollOrder(src, of, claim)
<1>1. x \in Order /\ x.status = "working"
  BY DEF RollOrder, Order
<1> HIDE DEF x
<1>2. /\ orders' = Append(orders, x) /\ Len(orders) \in Nat /\ DOMAIN orders = 1..Len(orders)
      /\ DOMAIN orders' = 1..Len(orders) + 1 /\ orders'[Len(orders) + 1] = x
      /\ \A o \in 1..Len(orders) : orders'[o] = orders[o]
  BY DEF x
<1>3. orders' \in Seq(Order) /\ DOMAIN orders \subseteq DOMAIN orders'
  BY <1>1, <1>2
<1> QED
  BY <1>1, <1>2, <1>3 DEF NoneBooked

LEMMA ActStep == ASSUME IInv, Act PROVE Kept
<1> DEFINE r == CHOOSE r \in pass.todo : \A q \in pass.todo : r <= q
           left == pass.todo \ {r}
           p == [pass EXCEPT !.pc = IF left = {} THEN "idle" ELSE "act", !.todo = left]
<1>1. /\ pass.pc = "act" /\ Goes(p) /\ crossed' = crossed
      /\ UNCHANGED <<clock, op, booking, crossed>> /\ held' = held
      /\ \E quoted \in BOOLEAN : Sends(r, quoted)
  BY DEF Act, OnPass
<1>2. pass.todo \in SUBSET Nat /\ pass.todo # {} /\ pass.todo \subseteq Ids(pass.copy)
  BY <1>1, PassFacts DEF PassTyped, Pass
<1>3. r \in pass.todo
  <2>1. \E x \in pass.todo : \A q \in pass.todo : x <= q
    BY <1>2, Smallest
  <2> QED
    BY <2>1
<1> HIDE DEF r
<1>4. /\ p \in Pass /\ p.todo = left /\ p.now = pass.now /\ p.copy = pass.copy
      /\ p.pc = IF left = {} THEN "idle" ELSE "act"
  BY <1>2, PassFacts DEF Pass
<1> HIDE DEF p
<1>5. PassTyped(p)
  BY <1>2, <1>4 DEF PassTyped
<1>6. \/ store' = store /\ orders' = orders
      \/ /\ store' \in FlagWrites(store)
         /\ orders' = Append(orders, RollOrder(r, pass.copy.recs[r].of, pass.copy.recs[r].claim))
  <2>1. r \in Nat
    BY <1>2, <1>3
  <2> QED
    BY <1>1, <2>1 DEF Sends, Saves, FlagWrites
<1>7. r \in Nat /\ pass.copy.recs[r].of \in Nat /\ pass.copy.recs[r].claim \in Moves
  <2>1. pass.copy.recs[r] \in Record
    BY <1>2, <1>3, PassFacts, StoreFacts
  <2> QED
    BY <1>2, <1>3, <2>1 DEF Record
<1>8. /\ store' \in Store /\ SameBook(store, store') /\ store'.resolved = store.resolved
      /\ store'.short = store.short
  <2>1. CASE store' = store
    BY <2>1, PassFacts, SameRefl
  <2>2. CASE store' \in FlagWrites(store)
    BY <2>2, PassFacts, FlagsSame
  <2> QED
    BY <1>6, <2>1, <2>2
<1>9. orders' \in Seq(Order) /\ NoneBooked /\ DOMAIN orders \subseteq DOMAIN orders'
  BY <1>6, <1>7, SameOrders, SentIs DEF IInv, Typed
<1>10. Typed'
  BY <1>1, <1>5, <1>8, <1>9, PassFacts, PassMoves DEF IInv, Typed
<1>11. pass'.now = pass.now /\ pass'.pc \in {"idle", "act"}
  BY <1>1, <1>4, <1>5, GoesTyped
<1>12. Onward
  BY <1>1, <1>11, PassFacts DEF Onward, Early
<1> QED
  BY <1>1, <1>8, <1>9, <1>10, <1>12, PassFacts, SameBooking, QuietKept

LEMMA EmissionTyped ==
  ASSUME NEW s \in Store, NEW rec \in Record
  PROVE  LET t == AfterEmission(s, rec)
         IN  /\ t \in Store /\ t.execs = s.execs /\ t.short = s.short
             /\ Len(s.recs) + 1 \in Ids(t) /\ t.recs[Len(s.recs) + 1] = rec
             /\ Ids(t) = Ids(s) \cup {Len(s.recs) + 1}
             /\ \A q \in Ids(s) : t.recs[q] = s.recs[q]
<1> DEFINE t == AfterEmission(s, rec)
           rs == Append(s.recs, rec)
           k == Len(s.recs)
<1>1. k \in Nat /\ s.recs \in Seq(Record) /\ Ids(s) = 1..k
  BY StoreFacts DEF Store
<1>2. /\ rs \in Seq(Record) /\ DOMAIN rs = 1..k + 1 /\ rs[k + 1] = rec
      /\ \A q \in 1..k : rs[q] = s.recs[q]
  BY <1>1
<1>3. t = [s EXCEPT !.recs = rs]
  BY DEF AfterEmission
<1> HIDE DEF rs, t
<1>4. t \in Store /\ t.execs = s.execs /\ t.short = s.short /\ t.recs = rs
  BY <1>2, <1>3 DEF Store
<1>5. 1..k + 1 = 1..k \cup {k + 1} /\ k + 1 \in 1..k + 1
  BY <1>1
<1> HIDE DEF k
<1>6. /\ t \in Store /\ t.execs = s.execs /\ t.short = s.short /\ k + 1 \in Ids(t) /\ t.recs[k + 1] = rec
      /\ Ids(t) = Ids(s) \cup {k + 1} /\ \A q \in Ids(s) : t.recs[q] = s.recs[q]
  BY <1>1, <1>2, <1>4, <1>5 DEF Ids
<1> QED
  BY <1>6 DEF t, k

\* The record an evaluation comes to, if any.
Newest == IF OpenActions(pass.copy, pass.now) = {} THEN 0
          ELSE Latest(pass.copy, OpenActions(pass.copy, pass.now))
Evaluated(claim) == Rec(claim, pass.copy.short, pass.now, Newest, Len(pass.copy.execs))

LEMMA EvaluatedTyped ==
  ASSUME IInv, NEW claim \in Moves
  PROVE  /\ Evaluated(claim) \in Record /\ Evaluated(claim).at = pass.now
         /\ Evaluated(claim).of = pass.copy.short
         /\ Evaluated(claim).seen = Len(pass.copy.execs)
         /\ [Evaluated(claim) EXCEPT !.at = pass.now] = Evaluated(claim)
<1>1. Newest \in Nat
  <2>1. OpenActions(pass.copy, pass.now) \in SUBSET Ids(pass.copy)
    BY DEF OpenActions, Open
  <2>2. Ids(pass.copy) \subseteq Nat
    BY PassFacts, StoreFacts
  <2>3. OpenActions(pass.copy, pass.now) # {} =>
          Latest(pass.copy, OpenActions(pass.copy, pass.now)) \in OpenActions(pass.copy, pass.now)
    BY <2>1, PassFacts, LatestIs
  <2> QED
    BY <2>1, <2>2, <2>3 DEF Newest
<1>2. pass.copy.short \in Nat /\ Len(pass.copy.execs) \in Nat /\ pass.now \in Instants
  <2>1. pass.copy \in Store /\ pass.now \in Instants
    BY PassFacts
  <2> QED
    BY <2>1, StoreFacts DEF Store
<1> DEFINE sh == pass.copy.short  n == Len(pass.copy.execs)
<1>3. Evaluated(claim) = [claim |-> claim, of |-> sh, at |-> pass.now, supersedes |-> Newest,
                          settle |-> "none", due |-> 0, seen |-> n]
  BY DEF Evaluated, Rec
<1>4. sh \in Nat /\ n \in Nat
  BY <1>2
<1> HIDE DEF sh, n
<1>5. /\ Evaluated(claim) \in Record /\ Evaluated(claim).at = pass.now
      /\ Evaluated(claim).seen = n /\ Evaluated(claim).of = sh
      /\ [Evaluated(claim) EXCEPT !.at = pass.now] = Evaluated(claim)
  BY <1>1, <1>2, <1>3, <1>4 DEF Record
<1> QED
  BY <1>5 DEF n, sh

\* What was loaded before a roll was half booked is prior to what it was then.
LEMMA PriorBefore ==
  ASSUME NEW c \in Store, NEW s \in Store, NEW now \in Instants, Prior(c, s, now), Whole(c),
         s.short = Len(s.execs), Len(s.execs) > 0
  PROVE  Prior(c, Before(s), now)
<1> DEFINE b == Before(s)  n == Len(s.execs)  m == Len(c.execs)
<1>1. /\ b \in Store /\ b.recs = s.recs /\ b.dismissed = s.dismissed /\ b.short = s.short
      /\ Len(b.execs) = n - 1 /\ \A i \in 1..n - 1 : b.execs[i] = s.execs[i]
  BY BeforeIs
<1>2. n \in Nat /\ m \in Nat /\ DOMAIN c.execs = 1..m /\ DOMAIN s.execs = 1..n
  BY StoreFacts
<1>3. /\ Coherent(c) /\ c.short <= s.short
      /\ c.recs = s.recs /\ c.dismissed \subseteq s.dismissed
      /\ \A i \in DOMAIN c.execs : c.execs[i] = s.execs[i]
      /\ \A i \in DOMAIN s.execs : m < i => now <= s.execs[i].at
  BY DEF Prior
<1>4. c.short = 1 + m /\ s.short = n
  BY DEF Whole
<1> HIDE DEF b, n, m
<1>5. m <= n - 1 /\ n - 1 \in Nat
  BY <1>2, <1>3, <1>4
<1>6. DOMAIN b.execs = 1..n - 1
  BY <1>1, StoreFacts
<1>7. /\ \A i \in DOMAIN c.execs : c.execs[i] = b.execs[i]
      /\ \A i \in DOMAIN b.execs : m < i => now <= b.execs[i].at
  <2>1. \A i \in 1..m : i \in 1..n - 1
    BY <1>2, <1>5
  <2>2. \A i \in 1..n - 1 : i \in 1..n
    BY <1>2
  <2> QED
    BY <1>1, <1>2, <1>3, <1>6, <2>1, <2>2
<1> QED
  BY <1>1, <1>3, <1>5, <1>7 DEF Prior, b, m

LEMMA EmitStep == ASSUME IInv, Emit PROVE Kept
<1>1. /\ pass.pc = "emit" /\ crossed' = crossed /\ UNCHANGED <<clock, op, booking, crossed>>
      /\ held' = held /\ orders' = orders
  BY DEF Emit, EmitAt, OnPass, broker
<1>2. PICK verdict \in Verdicts, moved \in BOOLEAN :
        \/ Goes([pass EXCEPT !.pc = "auto", !.copy = EmptyStore]) /\ store' = store
        \/ /\ \E rec \in Emitted(pass.copy, pass.now, verdict, moved) :
                store' = Derived([store EXCEPT !.recs = Append(@, [rec EXCEPT !.at = pass.now])])
           /\ Goes([pass EXCEPT !.pc = "stage", !.copy = EmptyStore, !.new = Len(store.recs) + 1])
  BY DEF Emit, EmitAt, Saves
<1>3. CASE Goes([pass EXCEPT !.pc = "auto", !.copy = EmptyStore]) /\ store' = store
  <2> DEFINE p == [pass EXCEPT !.pc = "auto", !.copy = EmptyStore]
  <2>1. p \in Pass /\ p.todo = {} /\ p.now = pass.now /\ p.pc = "auto"
    BY <1>1, PassFacts DEF Pass
  <2>2. Goes(p)
    BY <1>3
  <2> HIDE DEF p
  <2>3. PassTyped(p)
    BY <2>1 DEF PassTyped
  <2>4. Typed'
    BY <1>1, <1>3, <2>2, <2>3, PassFacts, PassMoves DEF IInv, Typed
  <2>5. pass'.now = pass.now /\ pass'.pc = "auto"
    BY <2>1, <2>2, <2>3, GoesTyped
  <2>6. Onward
    BY <1>1, <2>5, PassFacts DEF Onward, Early
  <2> QED
    BY <1>1, <1>3, <2>4, <2>6, SameOrders, SilentKept
<1>4. CASE /\ \E rec \in Emitted(pass.copy, pass.now, verdict, moved) :
                store' = Derived([store EXCEPT !.recs = Append(@, [rec EXCEPT !.at = pass.now])])
           /\ Goes([pass EXCEPT !.pc = "stage", !.copy = EmptyStore, !.new = Len(store.recs) + 1])
  <2> DEFINE p == [pass EXCEPT !.pc = "stage", !.copy = EmptyStore, !.new = Len(store.recs) + 1]
             rec == Evaluated(verdict)
             t == AfterEmission(store, rec)
             r == Len(store.recs) + 1
  <2>1. verdict \in Moves
    BY DEF Verdicts, Moves
  <2>2. store' = Derived(t)
    <3>1. \A x \in Emitted(pass.copy, pass.now, verdict, moved) : x = rec
      BY DEF Emitted, Evaluated, Newest
    <3>2. [rec EXCEPT !.at = pass.now] = rec
      BY <2>1, EvaluatedTyped
    <3> HIDE DEF rec
    <3> QED
      BY <1>4, <3>1, <3>2 DEF AfterEmission
  <2>3. rec \in Record /\ rec.at = pass.now /\ rec.seen = Len(pass.copy.execs)
        /\ rec.of = pass.copy.short
    BY <2>1, EvaluatedTyped
  <2>4. Goes(p) /\ Len(store.recs) + 1 \in Nat
    BY <1>4, PassFacts, StoreFacts
  <2>5. p \in Pass /\ p.todo = {} /\ p.now = pass.now /\ p.pc = "stage"
    BY <1>1, <2>4, PassFacts DEF Pass
  <2> HIDE DEF p, rec
  <2>6. PassTyped(p)
    BY <2>5 DEF PassTyped
  <2>7. /\ t \in Store /\ t.execs = store.execs /\ t.recs[r] = rec /\ t.short = store.short
        /\ Ids(t) = Ids(store) \cup {r} /\ \A q \in Ids(store) : t.recs[q] = store.recs[q]
    BY <2>3, PassFacts, EmissionTyped
  <2> HIDE DEF t, r
  <2>8. /\ store' \in Store /\ store'.execs = store.execs /\ store'.resolved = Resolved(t)
        /\ store'.short = store.short
        /\ Ids(store') = Ids(store) \cup {r} /\ store'.recs[r] = rec
        /\ \A q \in Ids(store) : store'.recs[q] = store.recs[q]
    BY <2>2, <2>7, DerivedIs DEF Ids
  <2>9. Typed'
    BY <1>1, <2>4, <2>6, <2>8, PassFacts, PassMoves DEF IInv, Typed
  <2>10. pass'.now = pass.now /\ pass'.pc = "stage"
    BY <2>4, <2>5, <2>6, GoesTyped
  <2>11. FillsKept'
    BY <1>1, <2>8 DEF IInv, FillsKept
  <2>14. \A i \in DOMAIN store.execs : store.execs[i].at <= store.execs[i].at
    <3>1. \A i \in DOMAIN store.execs : store.execs[i] \in Exec
      BY PassFacts, StoreFacts
    <3>2. \A x \in Exec : x.at <= x.at
      BY DEF Exec, Instants
    <3> QED
      BY <3>1, <3>2
  <2>13. ~crossed' => Dated'
    BY <1>1, <2>8 DEF IInv, Dated
  <2>12. ASSUME InOrder'
         PROVE  InOrder /\ Good' /\ store.resolved \cap Open(store', clock') = {}
    <3>1. InOrder
      BY <1>1, <2>8, <2>12, <2>14, PassFacts, InOrderBefore
    <3>9. Whole(pass.copy)
      <4>1. r \in Ids(store') /\ store'.recs[r] = rec
        BY <2>8
      <4>2. store'.recs[r].of = 1 + store'.recs[r].seen
        BY <2>12, <4>1 DEF InOrder, Halfway, Ids
      <4> QED
        BY <2>3, <4>1, <4>2 DEF Whole
    <3>2. /\ Coherent(store) /\ Timely /\ Prior(pass.copy, store, pass.now) /\ ShortIs
          /\ booking.pc = "sell" => HalfBooked
      BY <1>1, <3>1, <3>9 DEF IInv, Good
    <3>3. \A q \in Ids(store) : store.recs[q].at < pass.now
      BY <1>1, <3>2 DEF Timely
    <3>4. \A i \in 1..Len(pass.copy.execs) : store.execs[i].at < pass.now
      <4>1. SUFFICES ASSUME NEW i \in 1..Len(pass.copy.execs) PROVE store.execs[i].at < pass.now
        OBVIOUS
      <4>2. Len(pass.copy.execs) \in Nat /\ Len(store.execs) \in Nat
            /\ Len(pass.copy.execs) <= Len(store.execs) /\ DOMAIN store.execs = 1..Len(store.execs)
        BY <3>2, PassFacts, StoreFacts DEF Prior
      <4>3. i \in DOMAIN store.execs
        BY <4>1, <4>2
      <4>4. store.execs[i].at \in Nat /\ pass.now \in Nat
        BY <4>3, PassFacts, StoreFacts DEF Exec, Instants
      <4>5. r \in Ids(store') /\ i \in 1..store'.recs[r].seen /\ i \in DOMAIN store'.execs
        BY <2>3, <2>8, <4>1, <4>3
      <4>6. ~(store'.recs[r].at <= store'.execs[i].at)
        BY <2>12, <4>5 DEF InOrder, Antedated, Ids
      <4> QED
        BY <2>3, <2>8, <4>4, <4>6
    <3>5. store.resolved \subseteq Resolved(t) /\ Coherent(Derived(t))
      <4>1. rec = Rec(verdict, pass.copy.short, pass.now, Newest, Len(pass.copy.execs))
        BY DEF rec, Evaluated
      <4>2. t = AfterEmission(store, rec)
        BY DEF t
      <4> QED
        BY <2>1, <3>2, <3>3, <3>4, <3>9, <4>1, <4>2, PassFacts, Emitting DEF Newest
    <3>10. ShortIs'
      <4>1. store'.short = IF booking'.pc = "idle" THEN 1 + Len(store'.execs) ELSE Len(store'.execs)
        BY <1>1, <2>8, <3>2 DEF ShortIs
      <4>2. rec.of <= store.short
        BY <2>3, <3>2 DEF Prior
      <4>3. \A q \in Ids(store') : store'.recs[q].of <= store'.short
        BY <2>8, <3>2, <4>2 DEF ShortIs
      <4> QED
        BY <4>1, <4>3 DEF ShortIs, Ids
    <3>11. ASSUME booking'.pc = "sell" PROVE HalfBooked'
      <4> DEFINE b == Before(store)
                 d == AfterEmission(b, rec)
      <4>1. HalfBooked /\ store.short = Len(store.execs) /\ Len(store.execs) > 0 /\ Coherent(b)
        BY <1>1, <3>2, <3>11 DEF HalfBooked, ShortIs
      <4>2. /\ b \in Store /\ b.recs = store.recs /\ Len(b.execs) = Len(store.execs) - 1
            /\ \A i \in 1..Len(store.execs) - 1 : b.execs[i] = store.execs[i]
        BY <4>1, PassFacts, BeforeIs
      <4>3. Prior(pass.copy, b, pass.now)
        BY <3>2, <3>9, <4>1, PassFacts, PriorBefore
      <4> HIDE DEF b
      <4>4. \A q \in Ids(b) : b.recs[q].at < pass.now
        BY <3>3, <4>2 DEF Ids
      <4>5. \A i \in 1..Len(pass.copy.execs) : b.execs[i].at < pass.now
        <5>1. Len(pass.copy.execs) <= Len(store.execs) - 1 /\ Len(pass.copy.execs) \in Nat
              /\ Len(store.execs) \in Nat
          BY <4>2, <4>3, PassFacts, StoreFacts DEF Prior
        <5>2. \A i \in 1..Len(pass.copy.execs) : i \in 1..Len(store.execs) - 1
          BY <5>1
        <5> QED
          BY <3>4, <4>2, <5>2
      <4>6. d \in Store /\ Coherent(Derived(d))
        <5>1. rec = Rec(verdict, pass.copy.short, pass.now, Newest, Len(pass.copy.execs))
          BY DEF rec, Evaluated
        <5> QED
          BY <2>1, <3>9, <4>1, <4>2, <4>3, <4>4, <4>5, <5>1, PassFacts, Emitting DEF Newest
      <4>7. Coherent(Before(Derived(t)))
        <5>1. t = AfterEmission(store, rec) /\ t \in Store
          BY <2>7 DEF t
        <5> QED
          BY <2>3, <4>1, <4>6, <5>1, PassFacts, BeforeEmission DEF b
      <4> QED
        BY <1>1, <2>2, <2>8, <4>1, <4>7 DEF HalfBooked, Before, Unfilled, Derived, Resolved
    <3>6. Timely'
      <4>1. pass'.now <= clock' /\ \A i \in DOMAIN store'.execs : store'.execs[i].at <= clock'
        BY <1>1, <2>8, <2>10, <3>2 DEF Timely
      <4>2. \A q \in Ids(store') : store'.recs[q].at <= pass'.now
        BY <2>3, <2>8, <2>10, <3>2, PassFacts DEF Timely
      <4> QED
        BY <2>10, <4>1, <4>2 DEF Timely, Ids
    <3>7. Coherent(store')
      BY <2>2, <3>5
    <3>8. Good'
      BY <2>10, <3>6, <3>7, <3>10, <3>11 DEF Good
    <3> QED
      BY <2>8, <3>1, <3>5, <3>8, NotOpen
  <2> QED
    BY <2>9, <2>11, <2>12, <2>13 DEF Kept
<1> QED
  BY <1>2, <1>3, <1>4

-----------------------------------------------------------------------------
(* The steps of the broker, the poll and the operator.                      *)

\* What a step that leaves the pass alone leaves to be shown.
LEMMA OutsideOnward ==
  ASSUME IInv, UNCHANGED <<clock, pass>>, store'.recs = store.recs
  PROVE  Onward
BY PassFacts DEF Onward

\* The status of an order changes.
LEMMA StatusTyped ==
  ASSUME orders \in Seq(Order), NEW o \in DOMAIN orders,
         NEW status \in {"working", "filled", "booked", "canceled"},
         orders' = [orders EXCEPT ![o].status = status]
  PROVE  /\ orders' \in Seq(Order) /\ DOMAIN orders' = DOMAIN orders
         /\ orders'[o].status = status /\ \A q \in DOMAIN orders \ {o} : orders'[q] = orders[q]
         /\ (status # "booked" => NoneBooked)
<1> DEFINE x == [orders[o] EXCEPT !.status = status]
<1>1. x \in Order /\ x.status = status
  <2>1. orders[o] \in Order
    OBVIOUS
  <2> QED
    BY <2>1 DEF Order
<1>2. orders' = [orders EXCEPT ![o] = x]
  OBVIOUS
<1> HIDE DEF x
<1>3. /\ orders' \in Seq(Order) /\ DOMAIN orders' = DOMAIN orders
      /\ orders'[o] = x /\ \A q \in DOMAIN orders \ {o} : orders'[q] = orders[q]
  BY <1>1, <1>2
<1> QED
  BY <1>1, <1>3 DEF NoneBooked

LEMMA FillStep == ASSUME IInv, NEW o \in DOMAIN orders, Fill(o) PROVE Kept
<1>1. /\ orders' = [orders EXCEPT ![o].status = "filled"] /\ held' = held + 1 /\ store' = store
      /\ UNCHANGED <<clock, pass, op, booking, crossed>>
  BY DEF Fill, Outside
<1>2. orders' \in Seq(Order) /\ NoneBooked /\ DOMAIN orders' = DOMAIN orders
  BY <1>1, StatusTyped DEF IInv, Typed
<1>3. Typed'
  BY <1>1, <1>2 DEF IInv, Typed
<1> QED
  BY <1>1, <1>2, <1>3, OutsideOnward, SilentKept

LEMMA CancelStep == ASSUME IInv, NEW o \in DOMAIN orders, CancelStale(o) PROVE Kept
<1>1. /\ orders' = [orders EXCEPT ![o].status = "canceled"] /\ held' = held /\ store' = store
      /\ UNCHANGED <<clock, pass, op, booking, crossed>>
  BY DEF CancelStale, Outside
<1>2. orders' \in Seq(Order) /\ NoneBooked /\ DOMAIN orders' = DOMAIN orders
  BY <1>1, StatusTyped DEF IInv, Typed
<1>3. Typed'
  BY <1>1, <1>2 DEF IInv, Typed
<1> QED
  BY <1>1, <1>2, <1>3, OutsideOnward, SilentKept

LEMMA RollTyped ==
  ASSUME IInv, NEW o \in DOMAIN orders
  PROVE  Roll(o) \in Exec /\ Roll(o).order = o /\ Roll(o).at = clock
<1>1. orders \in Seq(Order) /\ o \in Nat /\ clock \in Instants
  BY DEF IInv, Typed
<1>2. orders[o] \in Order
  BY <1>1
<1> QED
  BY <1>1, <1>2 DEF Order, Exec, Roll

\* What the dates of the log and of the records are, as a fill is written.
LEMMA DatesAre ==
  ASSUME IInv
  PROVE  /\ clock \in Nat /\ pass.now \in Nat
         /\ \A i \in DOMAIN store.execs : store.execs[i].at \in Nat
         /\ \A q \in Ids(store) : store.recs[q].at \in Nat
         /\ Timely => \A q \in Ids(store) : store.recs[q].at <= clock
<1>1. \A q \in Ids(store) : store.recs[q] \in Record
  BY PassFacts, StoreFacts
<1>2. \A i \in DOMAIN store.execs : store.execs[i] \in Exec
  BY PassFacts, StoreFacts
<1>3. Instants \subseteq Nat
  BY DEF Instants
<1>4. /\ clock \in Nat /\ pass.now \in Nat
      /\ \A i \in DOMAIN store.execs : store.execs[i].at \in Nat
      /\ \A q \in Ids(store) : store.recs[q].at \in Nat
  BY <1>1, <1>2, <1>3, PassFacts DEF Record, Exec
<1>5. Timely => \A q \in Ids(store) : store.recs[q].at <= clock
  BY <1>4 DEF Timely
<1> QED
  BY <1>4, <1>5

LEMMA BookCloseStep == ASSUME IInv, NEW o \in DOMAIN orders, BookClose(o) PROVE Kept
<1> DEFINE x == Roll(o)
           t == AfterFill(store, x)
           n == Len(store.execs)
<1>1. /\ orders' = [orders EXCEPT ![o].status = "booked"] /\ held' = held
      /\ UNCHANGED <<clock, pass, op, crossed>> /\ store' = Derived(t)
      /\ booking.pc = "idle" /\ booking' = [NoBooking EXCEPT !.pc = "sell", !.order = o]
  BY DEF BookClose, Outside, Saves, AfterFill
<1>2. x \in Exec /\ x.order = o /\ x.at = clock
  BY RollTyped
<1>3. /\ orders' \in Seq(Order) /\ DOMAIN orders' = DOMAIN orders
      /\ \A q \in DOMAIN orders \ {o} : orders'[q] = orders[q]
  BY <1>1, StatusTyped DEF IInv, Typed
<1> HIDE DEF x
<1>4. /\ t \in Store /\ t.recs = store.recs /\ t.dismissed = store.dismissed
      /\ t.short = store.short
      /\ Len(t.execs) = n + 1 /\ DOMAIN t.execs = 1..n + 1 /\ t.execs[n + 1] = x
      /\ \A i \in 1..n : t.execs[i] = store.execs[i]
  BY <1>2, PassFacts, FillTyped
<1>5. n \in Nat /\ DOMAIN store.execs = 1..n
  BY PassFacts, StoreFacts
<1> HIDE DEF t, n
<1>6. /\ store' \in Store /\ store'.recs = store.recs /\ store'.dismissed = store.dismissed
      /\ store'.execs = t.execs /\ store'.resolved = Resolved(t) /\ store'.short = store.short
  BY <1>1, <1>4, DerivedIs
<1>7. booking' \in Bookings /\ booking'.pc = "sell" /\ booking'.order = o
  <2>1. o \in Nat
    BY DEF IInv, Typed
  <2> QED
    BY <1>1, <2>1, EmptyTyped DEF Bookings
<1>8. Typed'
  BY <1>1, <1>3, <1>6, <1>7 DEF IInv, Typed
<1>9. FillsKept'
  <2> SUFFICES ASSUME ~crossed', NEW q \in DOMAIN orders', orders'[q].status = "booked"
               PROVE  \E i \in DOMAIN store'.execs : store'.execs[i].order = q
    BY DEF FillsKept
  <2>1. CASE q = o
    BY <1>2, <1>4, <1>5, <1>6, <2>1
  <2>2. CASE q # o
    <3>1. q \in DOMAIN orders /\ orders[q].status = "booked" /\ ~crossed
      BY <1>1, <1>3, <2>2
    <3>2. PICK i \in DOMAIN store.execs : store.execs[i].order = q
      BY <3>1 DEF IInv, FillsKept
    <3>3. i \in DOMAIN store'.execs /\ store'.execs[i] = store.execs[i]
      BY <1>4, <1>5, <1>6
    <3> QED
      BY <3>2, <3>3
  <2> QED
    BY <2>1, <2>2
<1>10. ~crossed' => Dated'
  <2> SUFFICES ASSUME ~crossed' PROVE \A i \in DOMAIN store'.execs : store'.execs[i].at <= clock
    BY <1>1 DEF Dated
  <2>1. \A i \in 1..n : store'.execs[i].at <= clock
    BY <1>1, <1>4, <1>5, <1>6 DEF IInv, Dated
  <2>2. store'.execs[n + 1].at <= clock
    BY <1>2, <1>4, <1>6, DatesAre
  <2>3. \A i \in DOMAIN store'.execs : i \in 1..n \/ i = n + 1
    BY <1>4, <1>5, <1>6
  <2> QED
    BY <2>1, <2>2, <2>3
<1>11. ASSUME InOrder'
       PROVE  InOrder /\ Good' /\ store.resolved \cap Open(store', clock') = {}
  <2>1. \A i \in DOMAIN store.execs :
          i \in DOMAIN store'.execs /\ store.execs[i].at <= store'.execs[i].at
    BY <1>4, <1>5, <1>6, DatesAre
  <2>2. InOrder
    BY <1>1, <1>6, <1>11, <2>1, PassFacts, InOrderBefore DEF Ids
  <2>3. /\ Coherent(store) /\ Timely /\ ShortIs
        /\ pass.pc = "emit" /\ Whole(pass.copy) => Prior(pass.copy, store, pass.now)
    BY <2>2 DEF IInv, Good
  <2>4. pass.now <= clock /\ \A q \in Ids(store) : store.recs[q].at <= x.at
    BY <1>2, <2>3, DatesAre DEF Timely
  <2>5. \A i \in DOMAIN store.execs : store.execs[i].at <= x.at
    BY <1>2, <2>3 DEF Timely
  <2>6. store.resolved \subseteq Resolved(t) /\ Coherent(Derived(t))
        /\ Coherent(Before(Derived(t)))
    <3>1. t = AfterFill(store, x)
      BY DEF t
    <3> QED
      BY <1>2, <2>3, <2>4, <2>5, <3>1, PassFacts, Booking, BeforeFill
  <2>7. Timely'
    BY <1>1, <1>6, <1>10, <1>11, <2>3 DEF Timely, Dated, Ids, InOrder
  <2>8. ShortIs'
    BY <1>1, <1>4, <1>6, <1>7, <2>3 DEF ShortIs, Ids, n
  <2>9. HalfBooked'
    <3>1. Len(store'.execs) = n + 1 /\ store'.execs[n + 1].order = o /\ n + 1 > 0
      BY <1>2, <1>4, <1>5, <1>6
    <3> QED
      BY <1>1, <1>7, <2>6, <3>1 DEF HalfBooked, Before, Unfilled, Derived, Resolved
  <2>10. ASSUME pass'.pc = "emit", Whole(pass'.copy) PROVE Prior(pass'.copy, store', pass'.now)
    <3> DEFINE c == pass.copy
    <3>1. Prior(c, store, pass.now)
      BY <1>1, <2>3, <2>10
    <3>2. Len(c.execs) \in Nat /\ DOMAIN c.execs = 1..Len(c.execs)
      BY PassFacts, StoreFacts
    <3>3. c.recs = store'.recs /\ c.dismissed \subseteq store'.dismissed /\ Coherent(c)
          /\ c.short <= store'.short
      BY <1>6, <3>1 DEF Prior
    <3>4. Len(c.execs) <= n
      BY <3>1 DEF Prior, n
    <3>5. Len(c.execs) <= Len(store'.execs) /\ DOMAIN store'.execs = 1..n + 1
      BY <1>4, <1>5, <1>6, <3>2, <3>4
    <3>6. \A i \in DOMAIN c.execs : c.execs[i] = store'.execs[i]
      BY <1>4, <1>5, <1>6, <3>1, <3>2, <3>4 DEF Prior
    <3>7. ASSUME NEW i \in DOMAIN store'.execs, Len(c.execs) < i PROVE pass.now <= store'.execs[i].at
      <4>1. CASE i \in 1..n
        BY <1>4, <1>5, <1>6, <3>1, <3>7, <4>1 DEF Prior
      <4>2. CASE i = n + 1
        BY <1>2, <1>4, <1>6, <2>4, <4>2
      <4> QED
        BY <1>5, <3>5, <4>1, <4>2
    <3> QED
      BY <1>1, <3>3, <3>5, <3>6, <3>7 DEF Prior
  <2>11. Good'
    BY <1>1, <2>6, <2>7, <2>8, <2>9, <2>10 DEF Good
  <2> QED
    BY <1>6, <2>2, <2>6, <2>11, NotOpen
<1> QED
  BY <1>8, <1>9, <1>10, <1>11 DEF Kept

\* The second leg, whatever the log has become.
LEMMA WithLegTyped ==
  ASSUME NEW execs \in Seq(Exec), NEW x \in Exec
  PROVE  /\ WithLeg(execs, x) \in Seq(Exec) /\ Len(execs) <= Len(WithLeg(execs, x))
         /\ \A i \in 1..Len(execs) :
              WithLeg(execs, x)[i] = execs[i] \/ (execs[i].order = x.order /\ WithLeg(execs, x)[i] = x)
         /\ \A i \in 1..Len(WithLeg(execs, x)) : i \in 1..Len(execs) \/ WithLeg(execs, x)[i] = x
         /\ Len(execs) > 0 /\ execs[Len(execs)].order = x.order =>
              WithLeg(execs, x) = [execs EXCEPT ![Len(execs)] = x]
<1> DEFINE n == Len(execs)
           w == WithLeg(execs, x)
<1>1. n \in Nat /\ DOMAIN execs = 1..n
  OBVIOUS
<1>2. CASE execs # <<>> /\ Last(execs).order = x.order
  <2>1. w = [execs EXCEPT ![n] = x]
    BY <1>2 DEF WithLeg
  <2>2. n \in 1..n /\ execs[n].order = x.order
    BY <1>2 DEF Last
  <2> HIDE DEF w
  <2>3. w \in Seq(Exec) /\ Len(w) = n /\ w[n] = x /\ \A i \in 1..n : i # n => w[i] = execs[i]
    <3> HIDE DEF n
    <3>1. w \in [1..n -> Exec] /\ w[n] = x /\ \A i \in 1..n : i # n => w[i] = execs[i]
      BY <1>1, <2>1, <2>2
    <3>2. w \in Seq(Exec) /\ Len(w) = n
      BY <1>1, <3>1
    <3> QED
      BY <3>1, <3>2
  <2>4. /\ w \in Seq(Exec) /\ n <= Len(w)
        /\ \A i \in 1..n : w[i] = execs[i] \/ (execs[i].order = x.order /\ w[i] = x)
        /\ \A i \in 1..Len(w) : i \in 1..n \/ w[i] = x
    BY <1>1, <2>2, <2>3
  <2> QED
    BY <2>1, <2>4 DEF w
<1>3. CASE ~(execs # <<>> /\ Last(execs).order = x.order)
  <2>1. w = Append(execs, x)
    BY <1>3 DEF WithLeg
  <2>2. ~(n > 0 /\ execs[n].order = x.order)
    BY <1>3 DEF Last
  <2> HIDE DEF w
  <2>3. w \in Seq(Exec) /\ Len(w) = n + 1 /\ w[n + 1] = x /\ \A i \in 1..n : w[i] = execs[i]
    BY <1>1, <2>1
  <2>4. /\ w \in Seq(Exec) /\ n <= Len(w)
        /\ \A i \in 1..n : w[i] = execs[i] \/ (execs[i].order = x.order /\ w[i] = x)
        /\ \A i \in 1..Len(w) : i \in 1..n \/ w[i] = x
    BY <1>1, <2>3
  <2> QED
    BY <2>2, <2>4 DEF w
<1> QED
  BY <1>2, <1>3

AfterLeg(s, x) == [s EXCEPT !.execs = WithLeg(@, x)]

\* A record is open after its fill was dated anew only if it was before.
LEMMA RedatedOpen ==
  ASSUME NEW s \in Store, Coherent(s), NEW t \in Store, Coherent(t),
         Len(t.execs) > 0, t.recs = s.recs, t.dismissed = s.dismissed,
         \A r \in Ids(t) : t.recs[r].seen < Len(t.execs),
         NEW now \in Nat, t.execs[Len(t.execs)].at = now
  PROVE  s.resolved \cap Open(t, now) = {}
<1> SUFFICES ASSUME NEW r \in s.resolved, r \in Open(t, now) PROVE FALSE
  OBVIOUS
<1>1. /\ r \in Ids(t) /\ r \notin t.resolved /\ now <= Until(t.recs[r]) /\ Ids(t) = Ids(s)
      /\ Until(t.recs[r]) \in Nat
  BY StoreFacts DEF Open, Ids
<1>2. CASE IsAction(t.recs[r])
  <2>1. r \in Unanswered(t)
    BY <1>1, <1>2 DEF Unanswered
  <2>2. Len(t.execs) \in DOMAIN t.execs
    BY StoreFacts
  <2>3. Until(t.recs[r]) < t.execs[Len(t.execs)].at
    BY <1>1, <2>1, <2>2 DEF Coherent
  <2> QED
    BY <1>1, <2>3
<1>3. CASE ~IsAction(t.recs[r])
  <2>1. \A q : Successors(t, q) = Successors(s, q)
    BY <1>1 DEF Successors
  <2>2. r \in Credits(s)
    <3>1. r \in Resolved(s) /\ r \notin Resolved(t)
      BY <1>1 DEF Coherent
    <3> QED
      BY <1>1, <2>1, <3>1, ResolvedIs DEF Gone
  <2>3. PICK K : Takes(s, K) /\ K[Len(s.execs)] = Credits(s)
    BY CreditsRun
  <2> DEFINE n == Len(s.execs)
             Bad == {i \in 0..n : r \in K[i]}
  <2>4. n \in Nat
    BY StoreFacts
  <2>5. 0 \notin Bad
    BY <2>3 DEF Takes
  <2>6. ASSUME NEW i \in 0..n - 1, i \notin Bad PROVE i + 1 \notin Bad
    <3>1. K[i + 1] = Taken(s, K[i], s.execs[i + 1])
      BY <2>3 DEF Takes
    <3>2. \A A, e : Taken(s, A, e) \subseteq A \cup Claimable(s, e)
      BY TakenFacts
    <3>3. r \notin Claimable(s, s.execs[i + 1])
      BY <1>3 DEF Claimable
    <3>4. r \notin K[i]
      BY <2>4, <2>6
    <3> QED
      BY <3>1, <3>2, <3>3, <3>4
  <2>7. Bad \in SUBSET (0..n)
    OBVIOUS
  <2>8. n \in 0..n /\ r \in K[n]
    BY <2>2, <2>3, <2>4
  <2> HIDE DEF n
  <2>9. n \in Bad
    BY <2>8
  <2> HIDE DEF Bad
  <2>10. Bad = {}
    BY <2>4, <2>5, <2>6, <2>7, UpTo
  <2> QED
    BY <2>9, <2>10
<1> QED
  BY <1>2, <1>3

LEMMA BookSellStep == ASSUME IInv, BookSell PROVE Kept
<1> DEFINE x == Roll(booking.order)
           t == AfterLeg(store, x)
           n == Len(store.execs)
           m == Len(t.execs)
<1>1. /\ orders' = orders /\ held' = held /\ UNCHANGED <<clock, pass, op, crossed>>
      /\ store' = Derived(t) /\ booking.pc = "sell" /\ booking' = [booking EXCEPT !.pc = "load"]
  BY DEF BookSell, Outside, Saves, AfterLeg, broker
<1>2. x \in Exec /\ x.order = booking.order /\ x.at = clock
  <2>1. booking.order \in DOMAIN orders
    BY <1>1 DEF IInv, Typed
  <2> QED
    BY <2>1, RollTyped
<1> HIDE DEF x
<1>3. /\ n \in Nat /\ DOMAIN store.execs = 1..n /\ store.execs \in Seq(Exec)
  BY PassFacts, StoreFacts DEF Store
<1>4. /\ t \in Store /\ t.recs = store.recs /\ t.dismissed = store.dismissed
      /\ t.short = store.short /\ t.execs = WithLeg(store.execs, x)
  <2> DEFINE w == WithLeg(store.execs, x)
  <2>1. w \in Seq(Exec) /\ t = [store EXCEPT !.execs = w] /\ store \in Store
    BY <1>2, <1>3, PassFacts, WithLegTyped DEF AfterLeg
  <2> HIDE DEF w, t
  <2>2. /\ t \in Store /\ t.recs = store.recs /\ t.dismissed = store.dismissed
        /\ t.short = store.short /\ t.execs = w
    BY <2>1 DEF Store
  <2> QED
    BY <2>2 DEF w
<1>5. /\ m \in Nat /\ DOMAIN t.execs = 1..m /\ n <= m
      /\ \A i \in 1..n : t.execs[i] = store.execs[i]
                         \/ (store.execs[i].order = x.order /\ t.execs[i] = x)
      /\ \A i \in 1..m : i \in 1..n \/ t.execs[i] = x
  <2> DEFINE w == WithLeg(store.execs, x)
  <2>1. /\ n <= Len(w)
        /\ \A i \in 1..n : w[i] = store.execs[i] \/ (store.execs[i].order = x.order /\ w[i] = x)
        /\ \A i \in 1..Len(w) : i \in 1..n \/ w[i] = x
    BY <1>2, <1>3, WithLegTyped
  <2>2. t.execs = w /\ t \in Store
    BY <1>4
  <2>3. m \in Nat /\ DOMAIN t.execs = 1..m
    BY <2>2, StoreFacts
  <2> HIDE DEF w, t
  <2> QED
    BY <2>1, <2>2, <2>3
<1> HIDE DEF t, n, m
<1>6. /\ store' \in Store /\ store'.recs = store.recs /\ store'.dismissed = store.dismissed
      /\ store'.execs = t.execs /\ store'.resolved = Resolved(t) /\ store'.short = store.short
  BY <1>1, <1>4, DerivedIs
<1>7. booking' \in Bookings /\ booking'.pc = "load"
  BY <1>1 DEF IInv, Typed, Bookings
<1>8. Typed'
  BY <1>1, <1>6, <1>7 DEF IInv, Typed
<1>9. FillsKept'
  <2> SUFFICES ASSUME ~crossed', NEW q \in DOMAIN orders', orders'[q].status = "booked"
               PROVE  \E i \in DOMAIN store'.execs : store'.execs[i].order = q
    BY DEF FillsKept
  <2>1. PICK i \in DOMAIN store.execs : store.execs[i].order = q
    BY <1>1 DEF IInv, FillsKept
  <2>2. i \in DOMAIN store'.execs /\ store'.execs[i].order = store.execs[i].order
    BY <1>3, <1>5, <1>6
  <2> QED
    BY <2>1, <2>2
<1>10. ~crossed' => Dated'
  <2> SUFFICES ASSUME ~crossed', NEW i \in DOMAIN store'.execs PROVE store'.execs[i].at <= clock
    BY <1>1 DEF Dated
  <2>1. i \in 1..n => store.execs[i].at <= clock
    BY <1>1, <1>3 DEF IInv, Dated
  <2>2. clock <= clock
    BY DatesAre
  <2> QED
    BY <1>2, <1>5, <1>6, <2>1, <2>2
<1>11. ~crossed => \A i \in DOMAIN store.execs :
                     i \in DOMAIN store'.execs /\ store.execs[i].at <= store'.execs[i].at
  <2> SUFFICES ASSUME ~crossed, NEW i \in DOMAIN store.execs
               PROVE  i \in DOMAIN store'.execs /\ store.execs[i].at <= store'.execs[i].at
    OBVIOUS
  <2>1. store.execs[i].at <= clock /\ store.execs[i].at \in Nat
    BY DatesAre DEF IInv, Dated
  <2> QED
    BY <1>2, <1>3, <1>5, <1>6, <2>1
<1>12. ASSUME InOrder'
       PROVE  InOrder /\ Good' /\ store.resolved \cap Open(store', clock') = {}
  <2>1. InOrder
    BY <1>1, <1>6, <1>11, <1>12, PassFacts, InOrderBefore DEF Ids
  <2>2. /\ Coherent(store) /\ Timely /\ ShortIs /\ HalfBooked
        /\ pass.pc = "emit" /\ Whole(pass.copy) => Prior(pass.copy, store, pass.now)
    BY <1>1, <2>1 DEF IInv, Good
  <2>3. t = Redated(store, x) /\ m = n /\ n > 0 /\ store.short = n
    <3>1. n > 0 /\ store.execs[n].order = x.order /\ store.short = n
      BY <1>1, <1>2, <2>2 DEF HalfBooked, ShortIs, n
    <3>2. t.execs = [store.execs EXCEPT ![n] = x]
      BY <1>2, <1>3, <1>4, <3>1, WithLegTyped DEF n
    <3>3. t = Redated(store, x)
      BY <3>2, <1>4 DEF Redated, t, AfterLeg, n
    <3>4. m = n
      BY <3>1, <3>3, <1>2, PassFacts, RedatedTyped DEF m, n
    <3> QED
      BY <3>1, <3>3, <3>4
  <2>4. t.execs[n] = x /\ \A i \in 1..n - 1 : t.execs[i] = store.execs[i]
    BY <1>2, <2>3, PassFacts, RedatedTyped DEF n
  <2>5. pass.now <= clock /\ \A q \in Ids(store) : store.recs[q].at <= x.at
    BY <1>2, <2>2, DatesAre DEF Timely
  <2>6. Coherent(Derived(t))
    <3>1. \A i \in DOMAIN store.execs : store.execs[i].at <= x.at
      BY <1>2, <2>2 DEF Timely
    <3> QED
      BY <1>2, <2>2, <2>3, <2>5, <3>1, PassFacts, Redating DEF HalfBooked
  <2>7. Timely'
    BY <1>1, <1>6, <1>10, <1>12, <2>2 DEF Timely, Dated, Ids, InOrder
  <2>8. ShortIs'
    <3>1. Len(store'.execs) = n
      BY <1>6, <2>3 DEF m
    <3> QED
      BY <1>6, <1>7, <2>2, <2>3, <3>1 DEF ShortIs, Ids
  <2>9. ASSUME pass'.pc = "emit", Whole(pass'.copy) PROVE Prior(pass'.copy, store', pass'.now)
    <3> DEFINE c == pass.copy
               k == Len(c.execs)
    <3>1. Prior(c, store, pass.now) /\ c.short = 1 + k
      BY <1>1, <2>2, <2>9 DEF Whole
    <3>2. k \in Nat /\ DOMAIN c.execs = 1..k
      BY PassFacts, StoreFacts
    <3>3. c.recs = store'.recs /\ c.dismissed \subseteq store'.dismissed /\ Coherent(c)
          /\ c.short <= store'.short
      BY <1>6, <3>1 DEF Prior
    <3> HIDE DEF k
    <3>4. k <= n - 1
      BY <1>3, <1>6, <2>3, <3>1, <3>2, <3>3
    <3>5. k <= Len(store'.execs) /\ DOMAIN store'.execs = 1..n
      BY <1>3, <1>5, <1>6, <2>3, <3>2, <3>4 DEF m
    <3>6. \A i \in DOMAIN c.execs : c.execs[i] = store'.execs[i]
      <4>1. \A i \in 1..k : i \in 1..n - 1
        BY <1>3, <3>2, <3>4
      <4> QED
        BY <1>6, <2>4, <3>1, <3>2, <4>1 DEF Prior
    <3>7. ASSUME NEW i \in DOMAIN store'.execs, k < i PROVE pass.now <= store'.execs[i].at
      <4>1. CASE i \in 1..n - 1
        <5>1. i \in DOMAIN store.execs /\ store'.execs[i] = store.execs[i]
          BY <1>3, <1>6, <2>4, <4>1
        <5> QED
          BY <3>1, <3>7, <5>1 DEF Prior, k
      <4>2. CASE i = n
        BY <1>2, <1>6, <2>4, <2>5, <4>2
      <4> QED
        BY <1>3, <3>5, <4>1, <4>2
    <3> QED
      BY <1>1, <3>3, <3>5, <3>6, <3>7 DEF Prior, k
  <2>10. Good'
    BY <1>1, <1>7, <2>6, <2>7, <2>8, <2>9 DEF Good
  <2>11. store.resolved \cap Open(store', clock') = {}
    <3>1. \A r \in Ids(store') : store'.recs[r].seen < Len(store'.execs)
      <4>1. Len(Before(store).execs) = n - 1 /\ Ids(Before(store)) = Ids(store)
            /\ Before(store).recs = store.recs
        BY <2>3, PassFacts, BeforeIs DEF n, Ids
      <4>2. \A r \in Ids(store) : store.recs[r].seen <= n - 1
        BY <2>2, <4>1 DEF HalfBooked, Coherent
      <4>3. \A r \in Ids(store) : store.recs[r].seen \in Nat
        BY PassFacts, StoreFacts DEF Record
      <4>4. Len(store'.execs) = n /\ Ids(store') = Ids(store)
        BY <1>6, <2>3 DEF m, Ids
      <4> QED
        BY <1>3, <1>6, <4>2, <4>3, <4>4
    <3>2. Len(store'.execs) = n /\ store'.execs[n].at = clock
      BY <1>2, <1>6, <2>3, <2>4 DEF m
    <3>3. clock \in Nat /\ store \in Store /\ Coherent(store')
      BY <1>1, <2>6, PassFacts, DatesAre
    <3> QED
      BY <1>1, <1>6, <2>2, <2>3, <3>1, <3>2, <3>3, RedatedOpen
  <2> QED
    BY <2>1, <2>10, <2>11
<1> QED
  BY <1>8, <1>9, <1>10, <1>12 DEF Kept

LEMMA BookLoadStep == ASSUME IInv, BookLoad PROVE Kept
<1>1. /\ store' = store /\ UNCHANGED <<clock, held, orders, pass, op, crossed>>
      /\ booking.pc = "load" /\ booking' = [booking EXCEPT !.pc = "save", !.copy = store]
  BY DEF BookLoad, Outside, broker
<1>2. booking' \in Bookings /\ booking'.pc = "save"
  BY <1>1, PassFacts DEF IInv, Typed, Bookings
<1>3. Typed'
  BY <1>1, <1>2 DEF IInv, Typed
<1>4. BooksOn
  <2>1. store.short <= store'.short
    BY <1>1, PassFacts DEF Store
  <2> QED
    BY <1>1, <1>2, <2>1 DEF BooksOn, ShortIs, Ids
<1>5. Onward
  BY <1>1, OutsideOnward
<1> QED
  BY <1>1, <1>3, <1>4, <1>5, SameRefl, SameOrders, QuietKept

\* The call sold is known.
Known(s) == [s EXCEPT !.short = @ + 1]

LEMMA BookSaveStep == ASSUME IInv, BookSave PROVE Kept
<1> DEFINE c == booking.copy
           t == Known(c)
<1>1. /\ UNCHANGED <<clock, held, orders, pass, op>> /\ booking.pc = "save" /\ booking' = NoBooking
      /\ store' = Derived(t) /\ crossed' = (crossed \/ store # c)
  BY DEF BookSave, SavesOver, Saves, Outside, broker, Known
<1>2. c \in Store
  BY DEF IInv, Typed, Bookings
<1> HIDE DEF c
<1>3. /\ t \in Store /\ t.recs = c.recs /\ t.execs = c.execs /\ t.dismissed = c.dismissed
      /\ t.short = c.short + 1
  <2> DEFINE sh == c.short + 1
  <2>1. sh \in Nat /\ t = [c EXCEPT !.short = sh]
    BY <1>2 DEF Store, Known
  <2> HIDE DEF sh, t
  <2>2. /\ t \in Store /\ t.recs = c.recs /\ t.execs = c.execs /\ t.dismissed = c.dismissed
        /\ t.short = sh
    BY <1>2, <2>1 DEF Store
  <2> QED
    BY <2>2 DEF sh
<1> HIDE DEF t
<1>4. /\ store' \in Store /\ store'.recs = c.recs /\ store'.execs = c.execs
      /\ store'.dismissed = c.dismissed /\ store'.short = c.short + 1
      /\ store'.resolved = Resolved(t)
  BY <1>1, <1>3, DerivedIs
<1>5. Typed'
  BY <1>1, <1>4, EmptyTyped DEF IInv, Typed
<1>6. CASE crossed'
  BY <1>5, <1>6 DEF Kept, FillsKept, InOrder
<1>7. CASE ~crossed'
  <2>1. store = c /\ ~crossed /\ crossed' = crossed
    BY <1>1, <1>7 DEF IInv, Typed
  <2>2. SameBook(store, store') /\ SameBook(store, t)
    BY <1>3, <1>4, <2>1 DEF SameBook, Ids
  <2>3. Onward /\ NoneBooked
    BY <1>1, <1>4, <2>1, OutsideOnward, SameOrders
  <2>4. InOrder => store'.resolved = store.resolved
    <3>1. Resolved(t) = Resolved(store)
      BY <1>2, <1>3, <2>1, <2>2, SameResolved
    <3> QED
      BY <1>4, <3>1 DEF IInv, Good, Coherent
  <2>5. BooksOn
    <3>1. store.short \in Nat /\ store.short <= store'.short /\ store'.short = store.short + 1
      BY <1>2, <1>4, <2>1 DEF Store
    <3>2. booking'.pc = "idle" /\ store'.execs = store.execs /\ store'.recs = store.recs
      BY <1>1, <1>4, <2>1, EmptyTyped
    <3>3. \A r \in Ids(store) : store.recs[r].of \in Nat
      BY PassFacts, StoreFacts DEF Record
    <3>4. ASSUME ShortIs PROVE ShortIs'
      <4>1. store.short = Len(store.execs) /\ Len(store.execs) \in Nat
            /\ \A r \in Ids(store) : store.recs[r].of <= store.short
        BY <1>1, <3>4, PassFacts, StoreFacts DEF ShortIs
      <4>2. store'.short = 1 + Len(store'.execs)
        BY <3>1, <3>2, <4>1
      <4>3. \A r \in Ids(store') : store'.recs[r].of <= store'.short
        BY <3>1, <3>2, <3>3, <4>1 DEF Ids
      <4> QED
        BY <3>2, <4>2, <4>3 DEF ShortIs, Ids
    <3> QED
      BY <3>1, <3>2, <3>4 DEF BooksOn
  <2>6. CASE InOrder
    BY <1>5, <1>7, <2>1, <2>2, <2>3, <2>4, <2>5, <2>6, QuietKept
  <2>7. CASE ~InOrder
    <3>1. \A i \in DOMAIN store.execs : store.execs[i].at <= store.execs[i].at
      BY DatesAre
    <3>2. InOrder' => InOrder
      BY <1>4, <2>1, <3>1, PassFacts, InOrderBefore DEF Ids
    <3>3. FillsKept'
      BY <1>1, <1>4, <2>1 DEF IInv, FillsKept
    <3>4. Dated'
      BY <1>1, <1>4, <2>1 DEF IInv, Dated
    <3> QED
      BY <1>5, <2>7, <3>2, <3>3, <3>4 DEF Kept
  <2> QED
    BY <2>6, <2>7
<1> QED
  BY <1>6, <1>7

LEMMA ReconcileStep == ASSUME IInv, Reconcile PROVE Kept
<1>1. /\ store' \in FlagWrites(store) /\ UNCHANGED <<clock, held, orders, pass, op, booking, crossed>>
  BY DEF Reconcile, Saves, broker, FlagWrites
<1>2. /\ store' \in Store /\ SameBook(store, store') /\ store'.resolved = store.resolved
      /\ store'.recs = store.recs /\ store'.short = store.short
  BY <1>1, PassFacts, FlagsSame
<1>3. Typed'
  BY <1>1, <1>2 DEF IInv, Typed
<1> QED
  BY <1>1, <1>2, <1>3, PassFacts, SameOrders, OutsideOnward, SameBooking, QuietKept

LEMMA EnabledStep == ASSUME IInv, SetEnabled PROVE Kept
<1>1. /\ store' \in FlagWrites(store) /\ UNCHANGED <<clock, held, orders, pass, op, booking, crossed>>
  BY DEF SetEnabled, Asks, Saves, broker, FlagWrites
<1>2. /\ store' \in Store /\ SameBook(store, store') /\ store'.resolved = store.resolved
      /\ store'.recs = store.recs /\ store'.short = store.short
  BY <1>1, PassFacts, FlagsSame
<1>3. Typed'
  BY <1>1, <1>2 DEF IInv, Typed
<1> QED
  BY <1>1, <1>2, <1>3, PassFacts, SameOrders, OutsideOnward, SameBooking, QuietKept

LEMMA HandRollStep == ASSUME IInv, HandRoll PROVE Kept
<1>1. store' = store /\ UNCHANGED <<clock, held, pass, op, booking, crossed>>
  BY DEF HandRoll, Asks
<1>2. orders' \in Seq(Order) /\ NoneBooked /\ DOMAIN orders \subseteq DOMAIN orders'
  <2>1. CASE \E r \in Open(store, clock) :
               /\ store.recs[r].claim \in Rolls
               /\ orders' = Append(orders, RollOrder(r, store.recs[r].of, store.recs[r].claim))
    <3>1. PICK r \in Open(store, clock) :
            orders' = Append(orders, RollOrder(r, store.recs[r].of, store.recs[r].claim))
      BY <2>1
    <3>2. r \in Ids(store) /\ r \in Nat /\ store.recs[r] \in Record
      BY PassFacts, StoreFacts DEF Open
    <3>3. store.recs[r].of \in Nat /\ store.recs[r].claim \in Moves
      BY <3>2 DEF Record
    <3> QED
      BY <3>1, <3>2, <3>3, SentIs DEF IInv, Typed
  <2>2. CASE \E claim \in Rolls : orders' = Append(orders, RollOrder(0, store.short, claim))
    <3>1. PICK claim \in Rolls : orders' = Append(orders, RollOrder(0, store.short, claim))
      BY <2>2
    <3>2. 0 \in Nat /\ store.short \in Nat /\ claim \in Moves
      BY PassFacts DEF Store, Moves, Claims
    <3> QED
      BY <3>1, <3>2, SentIs DEF IInv, Typed
  <2> QED
    BY <2>1, <2>2 DEF HandRoll
<1>3. Typed'
  BY <1>1, <1>2 DEF IInv, Typed
<1> QED
  BY <1>1, <1>2, <1>3, OutsideOnward, SilentKept

LEMMA DismissReadStep == ASSUME IInv, NEW r \in Ids(store), DismissRead(r) PROVE Kept
<1>1. /\ store' = store /\ UNCHANGED <<clock, held, orders, pass, booking, crossed>>
      /\ op' = [NoOp EXCEPT !.pc = "dismiss", !.rec = r]
  BY DEF DismissRead, Asks, broker
<1>2. r \in Nat
  BY PassFacts, StoreFacts
<1>3. op' \in Op
  BY <1>1, <1>2, EmptyTyped DEF Op
<1>4. Typed'
  BY <1>1, <1>3 DEF IInv, Typed
<1> QED
  BY <1>1, <1>4, SameOrders, OutsideOnward, SilentKept

LEMMA LoadsAllStep == ASSUME IInv, NEW pc \in {"grant", "spread"}, LoadsAll(pc) PROVE Kept
<1>1. /\ store' = store /\ UNCHANGED <<clock, held, orders, pass, booking, crossed>>
      /\ op' = [NoOp EXCEPT !.pc = pc, !.copy = store]
  BY DEF LoadsAll, Asks, broker
<1>2. op' \in Op
  BY <1>1, PassFacts, EmptyTyped DEF Op
<1>3. Typed'
  BY <1>1, <1>2 DEF IInv, Typed
<1> QED
  BY <1>1, <1>3, SameOrders, OutsideOnward, SilentKept

LEMMA SavesAllStep ==
  ASSUME IInv, NEW pc, NEW s, s \in FlagWrites(op.copy) \cup {op.copy}, SavesAll(pc, s)
  PROVE  Kept
<1>1. /\ store' = s /\ UNCHANGED <<clock, held, orders, pass, booking>>
      /\ op' = NoOp /\ op.copy \in Store /\ crossed' = (crossed \/ store # op.copy)
  <2>1. op.copy \in Store
    BY DEF IInv, Typed, Op
  <2> QED
    BY <2>1 DEF SavesAll, SavesOver, Saves, broker
<1>2. /\ store' \in Store /\ SameBook(op.copy, store') /\ store'.resolved = op.copy.resolved
      /\ store'.recs = op.copy.recs /\ store'.short = op.copy.short
  BY <1>1, FlagsSame, SameRefl
<1>3. Typed'
  BY <1>1, <1>2, EmptyTyped DEF IInv, Typed
<1>4. CASE crossed'
  BY <1>3, <1>4 DEF Kept, FillsKept, InOrder
<1>5. CASE ~crossed'
  <2>1. store = op.copy /\ ~crossed
    BY <1>1, <1>5
  <2>2. BooksOn
    BY <1>1, <1>2, <2>1, SameBooking
  <2> QED
    BY <1>1, <1>2, <1>3, <2>1, <2>2, SameOrders, OutsideOnward, QuietKept
<1> QED
  BY <1>4, <1>5

LEMMA GrantWriteStep == ASSUME IInv, GrantWrite PROVE Kept
<1>1. op.copy \in Store
  BY DEF IInv, Typed, Op
<1>2. [op.copy EXCEPT !.granted = ~@] \in FlagWrites(op.copy)
  BY <1>1 DEF Store, FlagWrites
<1> QED
  BY <1>2, SavesAllStep DEF GrantWrite

LEMMA DismissWriteStep == ASSUME IInv, DismissWrite PROVE Kept
<1> DEFINE t == AfterDismissal(store, op.rec)
<1>1. /\ store' = Derived(t) /\ UNCHANGED <<clock, held, orders, pass, booking, crossed>> /\ op' = NoOp
  BY DEF DismissWrite, Saves, broker, AfterDismissal
<1>2. op.rec \in Nat
  BY DEF IInv, Typed, Op
<1>3. /\ t \in Store /\ t.recs = store.recs /\ t.execs = store.execs
      /\ t.dismissed = store.dismissed \cup {op.rec} /\ t.short = store.short
  <2>1. store \in Store
    BY PassFacts
  <2> QED
    BY <1>2, <2>1 DEF AfterDismissal, Store
<1> HIDE DEF t
<1>4. /\ store' \in Store /\ store'.recs = store.recs /\ store'.execs = store.execs
      /\ store'.dismissed = store.dismissed \cup {op.rec} /\ store'.resolved = Resolved(t)
      /\ store'.short = store.short
  BY <1>1, <1>3, DerivedIs
<1>5. Typed'
  BY <1>1, <1>4, EmptyTyped DEF IInv, Typed
<1>6. FillsKept'
  BY <1>1, <1>4 DEF IInv, FillsKept
<1>8. ~crossed' => Dated'
  BY <1>1, <1>4 DEF IInv, Dated
<1>7. ASSUME InOrder'
      PROVE  InOrder /\ Good' /\ store.resolved \cap Open(store', clock') = {}
  <2>6. \A i \in DOMAIN store.execs : store.execs[i].at <= store.execs[i].at
    BY DatesAre
  <2>1. InOrder
    BY <1>1, <1>4, <1>7, <2>6, PassFacts, InOrderBefore DEF Ids
  <2>2. /\ Coherent(store) /\ Timely /\ ShortIs
        /\ booking.pc = "sell" => HalfBooked
        /\ pass.pc = "emit" /\ Whole(pass.copy) => Prior(pass.copy, store, pass.now)
    BY <2>1 DEF IInv, Good
  <2>3. store.resolved \subseteq Resolved(t) /\ Coherent(Derived(t))
    BY <1>2, <2>2, PassFacts, Dismissing DEF t
  <2>4. Timely'
    BY <1>1, <1>4, <2>2 DEF Timely, Ids
  <2>5. pass'.pc = "emit" /\ Whole(pass'.copy) => Prior(pass'.copy, store', pass'.now)
    BY <1>1, <1>4, <2>2 DEF Prior
  <2>7. ShortIs'
    BY <1>1, <1>4, <2>2 DEF ShortIs, Ids
  <2>8. ASSUME booking'.pc = "sell" PROVE HalfBooked'
    <3>1. HalfBooked /\ booking' = booking
      BY <1>1, <2>2, <2>8
    <3>2. Coherent(Before(Derived(t)))
      BY <1>2, <3>1, PassFacts, BeforeDismissal DEF t, HalfBooked
    <3> QED
      BY <1>1, <1>4, <3>1, <3>2 DEF HalfBooked, Before, Unfilled, Derived, Resolved
  <2>9. Good'
    BY <1>1, <2>3, <2>4, <2>5, <2>7, <2>8 DEF Good
  <2> QED
    BY <1>4, <2>1, <2>3, <2>9, NotOpen
<1> QED
  BY <1>5, <1>6, <1>7, <1>8 DEF Kept

LEMMA TickStep == ASSUME IInv, Tick PROVE Kept
<1>1. /\ clock < End /\ clock' = clock + 1 /\ UNCHANGED <<held, orders, store, pass, op, booking, crossed>>
  BY DEF Tick, broker
<1>2. End \in Nat
  BY RecommendationConstants
<1>3. clock' \in Instants /\ clock <= clock'
  BY <1>1, <1>2, PassFacts DEF Instants
<1>4. Typed'
  BY <1>1, <1>3 DEF IInv, Typed
<1>5. Onward
  BY <1>1, <1>3 DEF Onward
<1> QED
  BY <1>1, <1>4, <1>5, SameOrders, SilentKept

-----------------------------------------------------------------------------
(* The theorems.                                                            *)

LEMMA InitKept == Init => IInv
<1> SUFFICES ASSUME Init PROVE IInv
  OBVIOUS
<1>1. Typed
  BY InitTyped
<1>2. /\ store \in Store /\ store.recs = <<>> /\ store.execs = <<>> /\ store.dismissed = {}
      /\ store.short = 1 /\ store.resolved = {}
  <2>1. PICK g \in BOOLEAN : store = [EmptyStore EXCEPT !.granted = g]
    BY DEF Init
  <2>2. store \in Store
    BY <1>1 DEF Typed
  <2> QED
    BY <2>1, <2>2 DEF EmptyStore
<1>3. pass = NoPass /\ orders = <<>> /\ clock = 1 /\ booking = NoBooking
  BY DEF Init
<1>4. Ids(store) = {} /\ DOMAIN store.execs = {} /\ Len(store.execs) = 0
  BY <1>2 DEF Ids
<1>5. Resolved(store) = {}
  BY <1>2, <1>4, CreditsIn, ResolvedIs
<1>6. Coherent(store)
  BY <1>2, <1>4, <1>5 DEF Coherent, Unanswered
<1>7. Timely /\ pass.pc # "emit"
  BY <1>3, <1>4 DEF Timely, NoPass
<1>8. FillsKept /\ Dated
  BY <1>3, <1>4 DEF FillsKept, Dated
<1>9. ShortIs /\ booking.pc # "sell"
  BY <1>2, <1>3, <1>4, EmptyTyped DEF ShortIs
<1> QED
  BY <1>1, <1>6, <1>7, <1>8, <1>9 DEF IInv, Good

LEMMA NextKept == ASSUME IInv, [Next]_vars PROVE Kept
<1>1. CASE UNCHANGED vars
  <2>1. UNCHANGED <<clock, held, orders, store, pass, op, booking, crossed>>
    BY <1>1 DEF vars
  <2>2. Typed'
    BY <2>1 DEF IInv, Typed
  <2> QED
    BY <2>1, <2>2, SameOrders, OutsideOnward, SilentKept
<1>2. CASE PassStep
  BY <1>2, BeginStep, ReleaseStep, LoadStep, EmitStep, EmitFailsStep, StageStep, AutoLoadStep,
     ActStep DEF PassStep
<1>3. CASE BrokerStep
  BY <1>3, FillStep, CancelStep DEF BrokerStep
<1>5. CASE PollStep
  BY <1>5, BookCloseStep, BookSellStep, BookLoadStep, BookSaveStep DEF PollStep
<1>4. CASE OperatorStep
  <2>1. GrantRead \/ SpreadRead => Kept
    BY LoadsAllStep DEF GrantRead, SpreadRead
  <2>2. SpreadWrite => Kept
    BY SavesAllStep DEF SpreadWrite
  <2> QED
    BY <1>4, <2>1, <2>2, HandRollStep, DismissWriteStep, GrantWriteStep, EnabledStep,
       DismissReadStep DEF OperatorStep
<1> QED
  BY <1>1, <1>2, <1>3, <1>4, <1>5, ReconcileStep, TickStep DEF Next

LEMMA Inductive == Spec => []IInv
<1>1. IInv /\ [Next]_vars => IInv'
  BY NextKept DEF Kept, IInv
<1> QED
  BY <1>1, InitKept, PTL DEF Spec

\* The state keeps its shape: records, fills, orders and the locals of the
\* pass, of the booking and of the operator's requests.
THEOREM TypeCorrect == Spec => []Typed
<1>1. IInv => Typed
  BY DEF IInv
<1> QED
  BY <1>1, Inductive, PTL

\* A fill whose booking began stays in the log, whatever a pass, a release, a
\* deferral, a dismissal or the rest of a booking writes, unless a state was
\* saved that was loaded before another write.
THEOREM FillsKeptAlways == Spec => []FillsKept
<1>1. IInv => FillsKept
  BY DEF IInv
<1> QED
  BY <1>1, Inductive, PTL

\* Nothing that was resolved is open again, although every write matches all
\* fills anew and the second leg of a roll dates its fill anew, as long as no
\* record is antedated or halfway and no save crossed a write.
THEOREM NeverReopensAlways == Spec => NeverReopens
<1>1. IInv /\ [Next]_vars => [InOrder' => store.resolved \cap Open(store', clock') = {}]_store
  BY NextKept DEF Kept
<1> QED
  BY <1>1, Inductive, PTL DEF Spec, NeverReopens

\* An open roll buys back the call the position is short: what was sold since
\* its evaluation resolved it, and none is open while a roll is being booked.
THEOREM OpenClaimIsCurrentAlways == Spec => []OpenClaimIsCurrent
<1>1. IInv => OpenClaimIsCurrent
  <2> SUFFICES ASSUME IInv, InOrder, NEW r \in OpenActions(store, clock)
               PROVE  store.recs[r].of = store.short
    BY DEF OpenClaimIsCurrent
  <2> DEFINE n == Len(store.execs)
  <2>1. Coherent(store) /\ Timely /\ ShortIs
    BY DEF IInv, Good
  <2>2. r \in Unanswered(store) /\ r \in Ids(store) /\ clock <= Until(store.recs[r])
    BY DEF OpenActions, Open, Unanswered
  <2>3. /\ n \in Nat /\ DOMAIN store.execs = 1..n /\ Until(store.recs[r]) \in Nat
        /\ store.recs[r].seen \in Nat
    BY <2>2, PassFacts, StoreFacts DEF Record
  <2>4. /\ store.recs[r].of = 1 + store.recs[r].seen /\ store.recs[r].seen <= n
        /\ store.recs[r].of <= store.short
        /\ store.short = IF booking.pc = "idle" THEN 1 + n ELSE n
    BY <2>1, <2>2 DEF Coherent, ShortIs
  <2>5. ASSUME store.recs[r].seen < n PROVE FALSE
    <3>1. n \in DOMAIN store.execs
      BY <2>3, <2>5
    <3>2. Until(store.recs[r]) < store.execs[n].at
      BY <2>1, <2>2, <2>5, <3>1 DEF Coherent
    <3>3. store.execs[n].at <= clock /\ store.execs[n].at \in Nat /\ clock \in Nat
      BY <2>1, <3>1, DatesAre DEF Timely
    <3> QED
      BY <2>2, <2>3, <3>2, <3>3
  <2> HIDE DEF n
  <2>6. store.recs[r].seen = n
    BY <2>3, <2>4, <2>5
  <2>7. booking.pc = "idle"
    BY <2>3, <2>4, <2>6
  <2> QED
    BY <2>4, <2>6, <2>7
<1> QED
  BY <1>1, Inductive, PTL
=============================================================================
