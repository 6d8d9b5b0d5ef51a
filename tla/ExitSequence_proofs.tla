------------------------ MODULE ExitSequence_proofs ------------------------
(***************************************************************************)
(* What the exit of a covered position keeps, for any number of exits,     *)
(* calls, strikes, lots, orders and troubles.                              *)
(*                                                                         *)
(* A fill is booked by dropping the first leg of the strike it closes, so  *)
(* the book and the account can drift apart whenever the call that fills   *)
(* is not the leg that is dropped.  The invariant says why they do not:    *)
(* while no call is being sold (~crossed), the only close that can still   *)
(* fill is of the first leg of the book, every run's list is the book for  *)
(* as long as its head is held, and at most one purchase waits to be       *)
(* booked.  The shares go all at once or not at all, and a sale of shares  *)
(* stands alone only when no short call is left.                           *)
(*                                                                         *)
(* Booking folds over a set of calls; what a fold computes is proved by    *)
(* looking at the least place where it would go wrong (Smallest).          *)
(***************************************************************************)
EXTENDS ExitSequence, FiniteSetTheorems, WellFoundedInduction, TLAPS

(* A set of naturals that is not empty has a least member.                 *)
LEMMA Smallest == ASSUME NEW T \in SUBSET Nat, T # {} PROVE \E n \in T : \A m \in T : n <= m
<1> DEFINE R == OpToRel(<,Nat)
<1>1. IsWellFoundedOn(R,Nat) BY NatLessThanWellFounded
<1> HIDE DEF R
<1>2. PICK n \in T : \A m \in T : ~(<<m,n>> \in R) BY <1>1, WFMin
<1>3. \A m \in T : ~(m < n) BY <1>2 DEF R, OpToRel
<1> QED BY <1>2, <1>3

(* The fold of the community modules, as the function its definition       *)
(* chooses.                                                                *)
Top(s) == CHOOSE x \in s : \A y \in s : x >= y
Undone(g, legs, seq, s) == IF s = {} THEN legs ELSE Without(g[s \ {Top(s)}], seq[Top(s)])
Folds(g, legs, seq, m) == g = [s \in SUBSET (1..m) |-> Undone(g, legs, seq, s)]

(* Taking the largest index of a set of indices.                           *)
LEMMA TopOf ==
  ASSUME NEW m \in Nat, NEW s \in SUBSET (1..(m+1)), s # {}
  PROVE  s \ {Top(s)} \in SUBSET (1..m) /\ (m+1 \in s => Top(s) = m+1)
<1>0. \A x \in s : x \in Nat /\ 1 <= x /\ x <= m+1 OBVIOUS
<1>1. CASE m+1 \in s
  <2>1. \A y \in s : m+1 >= y OBVIOUS
  <2>2. Top(s) \in s /\ \A y \in s : Top(s) >= y BY <2>1, <1>1 DEF Top
  <2>3. Top(s) \in Nat BY <1>0, <2>2
  <2>4. Top(s) = m+1 BY <2>1, <2>2, <2>3, <1>1
  <2> QED BY <2>4
<1>2. CASE m+1 \notin s
  <2>1. \A x \in s : x \in 1..m BY <1>0, <1>2
  <2> QED BY <1>2, <2>1
<1> QED BY <1>1, <1>2

(* That function exists, for a sequence of any length.                     *)
LEMMA FoldExists ==
  ASSUME NEW legs, NEW seq, NEW n \in Nat
  PROVE  \E g : Folds(g, legs, seq, n)
<1> DEFINE Bad == {m \in Nat : ~\E g : Folds(g, legs, seq, m)}
<1>1. 0 \notin Bad
  <2>1. 1..0 = {} OBVIOUS
  <2>2. Folds([s \in SUBSET (1..0) |-> legs], legs, seq, 0) BY <2>1 DEF Folds, Undone
  <2> QED BY <2>2
<1>2. ASSUME NEW m \in Nat, m \notin Bad PROVE m+1 \notin Bad
  <2>1. PICK g : Folds(g, legs, seq, m) BY <1>2
  <2> DEFINE h == [s \in SUBSET (1..(m+1)) |-> Undone(g, legs, seq, s)]
  <2>2. \A s \in SUBSET (1..m) : h[s] = g[s] BY <2>1 DEF Folds
  <2>3. ASSUME NEW s \in SUBSET (1..(m+1)), s # {} PROVE s \ {Top(s)} \in SUBSET (1..m) BY <1>2, TopOf
  <2>4. \A s \in SUBSET (1..(m+1)) : Undone(g, legs, seq, s) = Undone(h, legs, seq, s)
    BY <2>2, <2>3 DEF Undone
  <2>5. Folds(h, legs, seq, m+1) BY <2>4 DEF Folds
  <2> QED BY <2>5
<1>3. Bad = {}
  <2>1. SUFFICES ASSUME Bad # {} PROVE FALSE OBVIOUS
  <2> HIDE DEF Bad
  <2>2. Bad \in SUBSET Nat BY DEF Bad
  <2>3. PICK k \in Bad : \A m \in Bad : k <= m BY <2>1, <2>2, Smallest
  <2>4. k # 0 /\ k - 1 \in Nat /\ k - 1 \notin Bad BY <2>2, <2>3, <1>1
  <2> QED BY <2>3, <2>4, <1>2, <2>2
<1> QED BY <1>3

Folded(legs, seq) == FoldLeft(Without, legs, seq)

(* So the fold is the value of such a function.                            *)
LEMMA FoldIs ==
  ASSUME NEW legs, NEW seq \in Seq(Calls)
  PROVE  \E g : Folds(g, legs, seq, Len(seq)) /\ Folded(legs, seq) = g[1..Len(seq)]
<1> DEFINE g == CHOOSE f : f = [s \in SUBSET DOMAIN seq |-> IF s = {} THEN legs ELSE Without(f[s \ {Top(s)}], seq[Top(s)])]
<1>1. Folded(legs, seq) = g[DOMAIN seq]
  BY DEF Folded, FoldLeft, MapThenFoldSet, Max, Top
<1>2. DOMAIN seq = 1..Len(seq) /\ Len(seq) \in Nat OBVIOUS
<1>3. \E f : Folds(f, legs, seq, Len(seq)) BY <1>2, FoldExists
<1>4. \E f : f = [s \in SUBSET DOMAIN seq |-> IF s = {} THEN legs ELSE Without(f[s \ {Top(s)}], seq[Top(s)])]
   BY <1>2, <1>3 DEF Folds, Undone
<1>5. Folds(g, legs, seq, Len(seq))
   BY <1>2, <1>4 DEF Folds, Undone
<1> QED BY <1>1, <1>2, <1>5

(* A fold is the last of a run of values, each got from the one before.    *)
LEMMA FoldRun ==
  ASSUME NEW legs, NEW seq \in Seq(Calls)
  PROVE  \E R : /\ R[0] = legs /\ R[Len(seq)] = Folded(legs, seq)
                /\ \A m \in 0..(Len(seq) - 1) : R[m+1] = Without(R[m], seq[m+1])
<1> DEFINE n == Len(seq)
<1>1. PICK g : Folds(g, legs, seq, n) /\ Folded(legs, seq) = g[1..n] BY FoldIs
<1> DEFINE R == [m \in 0..n |-> g[1..m]]
<1>2. n \in Nat OBVIOUS
<1> HIDE DEF n
<1>3. g[{}] = legs BY <1>1, <1>2 DEF Folds, Undone
<1>4. 1..0 = {} OBVIOUS
<1>5. ASSUME NEW m \in 0..(n-1) PROVE R[m+1] = Without(R[m], seq[m+1])
  <2>1. m \in Nat /\ m <= n /\ m+1 <= n /\ m \in 0..n /\ m+1 \in 0..n BY <1>2
  <2>2. 1..(m+1) \in SUBSET (1..n) /\ 1..(m+1) # {}
    <3>1. \A x \in 1..(m+1) : x \in 1..n BY <1>2, <2>1
    <3>2. m+1 \in 1..(m+1) BY <2>1
    <3> QED BY <3>1, <3>2
  <2>3. Top(1..(m+1)) = m+1 BY <2>1, TopOf
  <2>4. (1..(m+1)) \ {m+1} = 1..m BY <2>1
  <2>5. g[1..(m+1)] = Without(g[1..m], seq[m+1]) BY <1>1, <2>2, <2>3, <2>4 DEF Folds, Undone
  <2> QED BY <2>1, <2>5
<1>6. R[0] = legs BY <1>2, <1>3, <1>4
<1>7. R[n] = Folded(legs, seq) BY <1>1, <1>2
<1> QED BY <1>5, <1>6, <1>7 DEF n

(* SetToSeq lists every member of a finite set once.                       *)
LEMMA SequenceOf ==
  ASSUME NEW S \in SUBSET Calls
  PROVE  /\ SetToSeq(S) \in Seq(Calls) /\ Range(SetToSeq(S)) = S
         /\ Len(SetToSeq(S)) = Cardinality(S) /\ IsFiniteSet(S)
         /\ \A i, j \in DOMAIN SetToSeq(S) : SetToSeq(S)[i] = SetToSeq(S)[j] => i = j
<1> DEFINE n == Cardinality(S)  q == SetToSeq(S)
<1>1. IsFiniteSet(S) BY ExitAssumption, FS_Subset
<1>2. n \in Nat /\ ExistsBijection(1..n, S) BY <1>1, FS_CardinalityType
<1> HIDE DEF n
<1>3. PICK f : f \in Bijection(1..n, S) BY <1>2 DEF ExistsBijection
<1>4. f \in [1..n -> S] /\ IsInjective(f) BY <1>3 DEF Bijection, Injection, IsInjective
<1>5. q = CHOOSE h \in [1..n -> S] : IsInjective(h) BY DEF SetToSeq, n
<1>6. q \in [1..n -> S] /\ IsInjective(q) BY <1>4, <1>5
<1> HIDE DEF q
<1>7. q \in Injection(1..n, S) BY <1>6 DEF Injection, IsInjective
<1>8. Cardinality(1..n) = Cardinality(S) BY <1>2, FS_Interval DEF n
<1>9. q \in Surjection(1..n, S) BY <1>1, <1>7, <1>8, FS_Injection
<1>10. Range(q) = S BY <1>6, <1>9 DEF Surjection, Range
<1>11. q \in Seq(Calls) /\ Len(q) = n /\ DOMAIN q = 1..n BY <1>2, <1>6
<1> QED BY <1>1, <1>6, <1>10, <1>11 DEF n, q, IsInjective

(* The least index, as Min chooses it.                                     *)
LEMMA LeastOf ==
  ASSUME NEW T \in SUBSET Nat, T # {}
  PROVE  Min(T) \in T /\ \A x \in T : Min(T) <= x
BY Smallest DEF Min

(* Without drops the first leg of the strike, and keeps the rest in order. *)
Same(legs, c) == {i \in DOMAIN legs : StrikeOf[legs[i]] = StrikeOf[c]}

(* What is left: one leg of the strike less, the others where they were.   *)
LEMMA WithoutIs ==
  ASSUME NEW legs \in Seq(Calls), NEW c
  PROVE  /\ Without(legs, c) \in Seq(Calls)
         /\ Same(legs, c) = {} => Without(legs, c) = legs
         /\ Same(legs, c) # {} =>
              /\ Min(Same(legs, c)) \in Same(legs, c)
              /\ \A i \in Same(legs, c) : Min(Same(legs, c)) <= i
              /\ Len(Without(legs, c)) = Len(legs) - 1
              /\ \A i \in 1..(Len(legs)-1) : Without(legs, c)[i] = IF i < Min(Same(legs, c)) THEN legs[i] ELSE legs[i+1]
<1>1. CASE Same(legs, c) = {} BY <1>1 DEF Without, Same
<1>2. CASE Same(legs, c) # {}
  <2> DEFINE k == Min(Same(legs, c))
  <2>1. Same(legs, c) \in SUBSET (1..Len(legs)) /\ Len(legs) \in Nat BY DEF Same
  <2>2. k \in Same(legs, c) /\ \A i \in Same(legs, c) : k <= i
    <3>1. Same(legs, c) \in SUBSET Nat BY <2>1
    <3> QED BY <1>2, <3>1, LeastOf
  <2>3. Without(legs, c) = SubSeq(legs, 1, k-1) \o SubSeq(legs, k+1, Len(legs))
     BY <1>2 DEF Without, Same, RemoveAt
  <2>4. k \in 1..Len(legs) BY <2>1, <2>2
  <2> HIDE DEF k
  <2> DEFINE A == SubSeq(legs, 1, k-1)  B == SubSeq(legs, k+1, Len(legs))
  <2>5. A \in Seq(Calls) /\ B \in Seq(Calls) BY <2>1, <2>4
  <2>6. Len(A) = k-1 /\ Len(B) = Len(legs) - k BY <2>1, <2>4
  <2>7. \A i \in 1..(k-1) : A[i] = legs[i] BY <2>1, <2>4
  <2>8. \A i \in 1..(Len(legs)-k) : B[i] = legs[k+i] BY <2>1, <2>4
  <2> HIDE DEF A, B
  <2>9. /\ A \o B \in Seq(Calls) /\ Len(A \o B) = Len(A) + Len(B)
        /\ \A i \in 1..(Len(A) + Len(B)) : (A \o B)[i] = IF i <= Len(A) THEN A[i] ELSE B[i - Len(A)]
    BY <2>5
  <2>10. Without(legs, c) = A \o B BY <2>3 DEF A, B
  <2>11. Len(legs) - 1 = Len(A) + Len(B) BY <2>1, <2>4, <2>6
  <2>12. ASSUME NEW i \in 1..(Len(legs)-1)
         PROVE  Without(legs, c)[i] = IF i < k THEN legs[i] ELSE legs[i+1]
    <3>1. Without(legs, c)[i] = IF i <= k - 1 THEN A[i] ELSE B[i - (k - 1)]
      BY <2>6, <2>9, <2>10, <2>11
    <3>2. CASE i < k BY <3>1, <3>2, <2>1, <2>4, <2>7
    <3>3. CASE ~(i < k)
      <4>1. i - (k-1) \in 1..(Len(legs)-k) /\ k + (i - (k-1)) = i + 1 BY <2>1, <2>4, <3>3
      <4> QED BY <3>1, <3>3, <4>1, <2>1, <2>4, <2>8
    <3> QED BY <3>2, <3>3
  <2>13. Without(legs, c) \in Seq(Calls) /\ Len(Without(legs, c)) = Len(legs) - 1
    BY <2>9, <2>10, <2>11
  <2> QED BY <1>2, <2>2, <2>12, <2>13 DEF k
<1> QED BY <1>1, <1>2

(* Booking a close gives legs again ...                                    *)
LEMMA CloseTyped ==
  ASSUME NEW legs \in Seq(Calls), NEW S \in SUBSET Calls
  PROVE  _close_short(legs, S) \in Seq(Calls)
<1> DEFINE seq == SetToSeq(S)
<1>1. seq \in Seq(Calls) BY SequenceOf
<1>0. _close_short(legs, S) = Folded(legs, seq) BY DEF _close_short, Folded
<1> HIDE DEF seq
<1>2. PICK R : /\ R[0] = legs /\ R[Len(seq)] = Folded(legs, seq)
               /\ \A m \in 0..(Len(seq) - 1) : R[m+1] = Without(R[m], seq[m+1])
  BY <1>1, FoldRun
<1> DEFINE Bad == {m \in 0..Len(seq) : R[m] \notin Seq(Calls)}
<1>3. Bad \in SUBSET Nat OBVIOUS
<1>4. Bad = {}
  <2> SUFFICES ASSUME Bad # {} PROVE FALSE OBVIOUS
  <2>1. PICK k \in Bad : \A m \in Bad : k <= m BY <1>3, Smallest
  <2>2. k # 0 BY <1>2, <2>1
  <2>3. k - 1 \in 0..(Len(seq)-1) /\ k - 1 \notin Bad BY <1>1, <1>3, <2>1, <2>2
  <2>4. R[k-1] \in Seq(Calls) BY <1>1, <2>3
  <2>5. R[k] = Without(R[k-1], seq[k])
    <3>1. R[(k-1)+1] = Without(R[k-1], seq[(k-1)+1]) BY <1>2, <2>3
    <3>2. (k-1)+1 = k BY <2>1, <1>3
    <3> QED BY <3>1, <3>2
  <2> QED BY <2>1, <2>4, <2>5, WithoutIs
<1>5. Len(seq) \in 0..Len(seq) BY <1>1
<1>6. R[Len(seq)] \in Seq(Calls) BY <1>4, <1>5
<1> QED BY <1>0, <1>2, <1>6

(* ... changes nothing for no call ...                                     *)
LEMMA CloseNone ==
  ASSUME NEW legs \in Seq(Calls)
  PROVE  _close_short(legs, {}) = legs
<1> DEFINE seq == SetToSeq({})
<1>1. seq \in Seq(Calls) /\ Len(seq) = 0 BY SequenceOf, FS_EmptySet
<1>2. _close_short(legs, {}) = Folded(legs, seq) BY DEF _close_short, Folded
<1> HIDE DEF seq
<1>3. PICK R : /\ R[0] = legs /\ R[Len(seq)] = Folded(legs, seq)
               /\ \A m \in 0..(Len(seq) - 1) : R[m+1] = Without(R[m], seq[m+1])
  <2>1. seq \in Seq(Calls) BY <1>1
  <2> QED BY <2>1, FoldRun
<1> QED BY <1>1, <1>2, <1>3

(* ... and for the first leg drops that leg.                               *)
LEMMA CloseFirst ==
  ASSUME NEW legs \in Seq(Calls), legs # << >>, NEW c \in Calls, c = Head(legs)
  PROVE  _close_short(legs, {c}) = Tail(legs)
<1> DEFINE seq == SetToSeq({c})
<1>1. seq \in Seq(Calls) /\ Len(seq) = 1 /\ Range(seq) = {c} BY SequenceOf, FS_Singleton
<1>2. _close_short(legs, {c}) = Folded(legs, seq) BY DEF _close_short, Folded
<1> HIDE DEF seq
<1>3. seq[1] = c BY <1>1 DEF Range
<1>4. Folded(legs, seq) = Without(legs, c)
  <2>1. PICK R : /\ R[0] = legs /\ R[Len(seq)] = Folded(legs, seq)
               /\ \A m \in 0..(Len(seq) - 1) : R[m+1] = Without(R[m], seq[m+1])
    BY <1>1, FoldRun
  <2>2. R[0+1] = Without(R[0], seq[0+1]) BY <1>1, <2>1
  <2> QED BY <1>1, <1>3, <2>1, <2>2
<1>5. 1 \in Same(legs, c) BY DEF Same
<1>6. Min(Same(legs, c)) = 1
  <2>1. Same(legs, c) \in SUBSET (1..Len(legs)) BY DEF Same
  <2>2. Min(Same(legs, c)) \in Same(legs, c) /\ Min(Same(legs, c)) <= 1 BY <1>5, WithoutIs
  <2> QED BY <2>1, <2>2
<1> DEFINE w == Without(legs, c)
<1>7. /\ w \in Seq(Calls) /\ Len(w) = Len(legs) - 1
      /\ \A i \in 1..(Len(legs)-1) : w[i] = legs[i+1]
  <2>1. \A i \in 1..(Len(legs)-1) : ~(i < 1) OBVIOUS
  <2> QED BY <1>5, <1>6, <2>1, WithoutIs
<1> HIDE DEF w
<1>8. /\ Tail(legs) \in Seq(Calls) /\ Len(Tail(legs)) = Len(legs) - 1
      /\ \A i \in 1..(Len(legs)-1) : Tail(legs)[i] = legs[i+1] OBVIOUS
<1>9. w = Tail(legs) BY <1>7, <1>8
<1> QED BY <1>2, <1>4, <1>9 DEF w

(* The legs left are, one for one, of the strikes of the calls still to be *)
(* closed: so closing the calls of all legs leaves none.                   *)
Matched(legs, seq, m) ==
  /\ legs \in Seq(Calls)
  /\ \E b \in [1..Len(legs) -> m..Len(seq)] :
       /\ \A i, j \in 1..Len(legs) : b[i] = b[j] => i = j
       /\ \A k \in m..Len(seq) : \E i \in 1..Len(legs) : b[i] = k
       /\ \A i \in 1..Len(legs) : StrikeOf[seq[b[i]]] = StrikeOf[legs[i]]

(* Closing one more call keeps the match.                                  *)
LEMMA MatchedStep ==
  ASSUME NEW legs, NEW seq \in Seq(Calls), NEW m \in 1..Len(seq), Matched(legs, seq, m)
  PROVE  Matched(Without(legs, seq[m]), seq, m+1)
<1> DEFINE c == seq[m]  w == Without(legs, c)  n == Len(seq) k == Min(Same(legs, c))
<1>1. legs \in Seq(Calls) BY DEF Matched
<1>2. PICK b \in [1..Len(legs) -> m..Len(seq)] :
       /\ \A i, j \in 1..Len(legs) : b[i] = b[j] => i = j
       /\ \A l \in m..Len(seq) : \E i \in 1..Len(legs) : b[i] = l
       /\ \A i \in 1..Len(legs) : StrikeOf[seq[b[i]]] = StrikeOf[legs[i]]
  BY DEF Matched
<1>3. PICK j0 \in 1..Len(legs) : b[j0] = m BY <1>2
<1>4. j0 \in Same(legs, c) BY <1>1, <1>2, <1>3 DEF Same
<1>5. /\ w \in Seq(Calls) /\ k \in Same(legs, c) /\ Len(w) = Len(legs) - 1
      /\ \A i \in 1..(Len(legs)-1) : w[i] = IF i < k THEN legs[i] ELSE legs[i+1]
  BY <1>1, <1>4, WithoutIs
<1>6. k \in 1..Len(legs) /\ StrikeOf[legs[k]] = StrikeOf[c] BY <1>1, <1>5 DEF Same
<1> HIDE DEF w, k
<1> DEFINE At(i) == IF i < k THEN i ELSE i+1
           d == [i \in 1..Len(w) |-> IF b[At(i)] = m THEN b[k] ELSE b[At(i)]]
<1>7. \A i \in 1..Len(w) : At(i) \in 1..Len(legs) /\ At(i) # k /\ w[i] = legs[At(i)]
  BY <1>1, <1>5, <1>6
<1>8. \A i, j \in 1..Len(w) : At(i) = At(j) => i = j BY <1>1, <1>5, <1>6
<1>9. \A l \in 1..Len(legs) : l # k => \E i \in 1..Len(w) : At(i) = l
  <2> TAKE l \in 1..Len(legs)
  <2>1. CASE l < k
    <3>1. l \in 1..Len(w) BY <1>1, <1>5, <1>6, <2>1
    <3>2. At(l) = l BY <2>1
    <3> QED BY <3>1, <3>2
  <2>2. CASE l > k
    <3>1. l-1 \in 1..Len(w) /\ ~(l-1 < k) /\ (l-1)+1 = l BY <1>1, <1>5, <1>6, <2>2
    <3> QED BY <3>1
  <2> QED BY <1>6, <2>1, <2>2
<1> HIDE DEF At
<1>10. ASSUME NEW i \in 1..Len(w) PROVE d[i] \in (m+1)..n /\ StrikeOf[seq[d[i]]] = StrikeOf[w[i]]
  <2>1. At(i) \in 1..Len(legs) /\ At(i) # k /\ w[i] = legs[At(i)] BY <1>7
  <2>2. CASE b[At(i)] = m
    <3>1. b[k] # m BY <1>2, <1>6, <2>1, <2>2
    <3>2. d[i] = b[k] /\ b[k] \in m..n BY <1>6, <2>2
    <3>3. StrikeOf[seq[b[k]]] = StrikeOf[c] BY <1>2, <1>6
    <3>4. StrikeOf[w[i]] = StrikeOf[c] BY <1>2, <2>1, <2>2
    <3>5. d[i] \in (m+1)..n BY <3>1, <3>2
    <3> QED BY <3>2, <3>3, <3>4, <3>5
  <2>3. CASE b[At(i)] # m
    <3>1. d[i] = b[At(i)] BY <2>3
    <3>2. b[At(i)] \in m..n BY <2>1
    <3>3. StrikeOf[seq[b[At(i)]]] = StrikeOf[legs[At(i)]] BY <1>2, <2>1
    <3> QED BY <2>1, <2>3, <3>1, <3>2, <3>3
  <2> QED BY <2>2, <2>3
<1>11. ASSUME NEW i \in 1..Len(w), NEW j \in 1..Len(w), d[i] = d[j] PROVE i = j
  <2>1. At(i) \in 1..Len(legs) /\ At(i) # k /\ At(j) \in 1..Len(legs) /\ At(j) # k BY <1>7
  <2>2. d[i] = (IF b[At(i)] = m THEN b[k] ELSE b[At(i)]) /\ d[j] = (IF b[At(j)] = m THEN b[k] ELSE b[At(j)]) OBVIOUS
  <2> HIDE DEF d
  <2>3. At(i) = At(j)
    <3>1. b[At(i)] # b[k] /\ b[At(j)] # b[k] BY <1>2, <1>6, <2>1
    <3>2. b[At(i)] = b[At(j)] BY <1>11, <2>2, <3>1
    <3> QED BY <1>2, <2>1, <3>2
  <2> QED BY <1>8, <2>3
<1>12. ASSUME NEW l \in (m+1)..n PROVE \E i \in 1..Len(w) : d[i] = l
  <2>1. PICK x \in 1..Len(legs) : b[x] = l BY <1>2
  <2>2. l # m OBVIOUS
  <2>3. CASE x = k
    <3>1. j0 # k BY <1>3, <2>1, <2>2, <2>3
    <3>2. PICK i \in 1..Len(w) : At(i) = j0 BY <1>9, <3>1
    <3>3. d[i] = l BY <1>3, <2>1, <2>3, <3>2
    <3> QED BY <3>3
  <2>4. CASE x # k
    <3>1. PICK i \in 1..Len(w) : At(i) = x BY <1>9, <2>4
    <3>2. d[i] = l BY <2>1, <2>2, <3>1
    <3> QED BY <3>2
  <2> QED BY <2>3, <2>4
<1>13. d \in [1..Len(w) -> (m+1)..n] BY <1>10
<1> HIDE DEF d
<1>15. \E e \in [1..Len(w) -> (m+1)..Len(seq)] :
       /\ \A i, j \in 1..Len(w) : e[i] = e[j] => i = j
       /\ \A l \in (m+1)..Len(seq) : \E i \in 1..Len(w) : e[i] = l
       /\ \A i \in 1..Len(w) : StrikeOf[seq[e[i]]] = StrikeOf[w[i]]
  <2> WITNESS d \in [1..Len(w) -> (m+1)..Len(seq)]
  <2> QED BY <1>10, <1>11, <1>12
<1>16. Matched(w, seq, m+1) BY <1>5, <1>15 DEF Matched
<1> QED BY <1>16 DEF w

(* A book whose calls are all closed is empty, whatever strikes they share.*)
LEMMA CloseAll ==
  ASSUME NEW legs \in Seq(Calls), \A i, j \in DOMAIN legs : legs[i] = legs[j] => i = j
  PROVE  _close_short(legs, Range(legs)) = << >>
<1> DEFINE seq == SetToSeq(Range(legs))  n == Len(seq)
<1>0. Range(legs) \in SUBSET Calls BY DEF Range
<1>1. /\ seq \in Seq(Calls) /\ Range(seq) = Range(legs)
      /\ \A i, j \in DOMAIN seq : seq[i] = seq[j] => i = j
  BY <1>0, SequenceOf
<1>2. _close_short(legs, Range(legs)) = Folded(legs, seq) BY DEF _close_short, Folded
<1> HIDE DEF seq
<1>3. PICK R : /\ R[0] = legs /\ R[Len(seq)] = Folded(legs, seq)
               /\ \A m \in 0..(Len(seq) - 1) : R[m+1] = Without(R[m], seq[m+1])
  <2>1. seq \in Seq(Calls) BY <1>1
  <2> QED BY <2>1, FoldRun
<1>4. n \in Nat /\ DOMAIN seq = 1..n /\ DOMAIN legs = 1..Len(legs) BY <1>1
<1> HIDE DEF n
<1>5. Matched(legs, seq, 1)
  <2> DEFINE At(i) == CHOOSE k \in 1..n : seq[k] = legs[i]
             b == [i \in 1..Len(legs) |-> At(i)]
  <2>1. \A i \in 1..Len(legs) : At(i) \in 1..n /\ seq[At(i)] = legs[i]
    <3> TAKE i \in 1..Len(legs)
    <3>1. legs[i] \in Range(seq) BY <1>1, <1>4 DEF Range
    <3>2. \E k \in 1..n : seq[k] = legs[i] BY <1>4, <3>1 DEF Range
    <3> QED BY <3>2
  <2> HIDE DEF At
  <2>2. b \in [1..Len(legs) -> 1..n] BY <2>1
  <2>3. \A i \in 1..Len(legs) : b[i] \in 1..n /\ seq[b[i]] = legs[i] BY <2>1
  <2> HIDE DEF b
  <2>4. \A i, j \in 1..Len(legs) : b[i] = b[j] => i = j BY <1>4, <2>3
  <2>5. \A k \in 1..n : \E i \in 1..Len(legs) : b[i] = k
    <3> TAKE k \in 1..n
    <3>1. seq[k] \in Range(legs) BY <1>1, <1>4 DEF Range
    <3>2. PICK i \in 1..Len(legs) : legs[i] = seq[k] BY <1>4, <3>1 DEF Range
    <3> QED BY <1>1, <1>4, <2>3, <3>2
  <2> QED BY <2>2, <2>3, <2>4, <2>5 DEF Matched, n
<1> DEFINE Bad == {m \in 0..n : ~Matched(R[m], seq, m+1)}
<1>6. Bad = {}
  <2> SUFFICES ASSUME Bad # {} PROVE FALSE OBVIOUS
  <2>0. Bad \in SUBSET Nat OBVIOUS
  <2>1. PICK k \in Bad : \A m \in Bad : k <= m BY <2>0, Smallest
  <2>2. k # 0 BY <1>3, <1>5, <2>1
  <2>3. k \in 1..n /\ k - 1 \in 0..(n-1) /\ k - 1 \in 0..n /\ k - 1 \notin Bad /\ (k-1)+1 = k
    BY <1>4, <2>0, <2>1, <2>2
  <2>4. Matched(R[k-1], seq, k) BY <2>3
  <2>5. R[k] = Without(R[k-1], seq[k]) BY <1>3, <2>3 DEF n
  <2>6. Matched(R[k], seq, k+1) BY <1>1, <2>3, <2>4, <2>5, MatchedStep DEF n
  <2> QED BY <2>1, <2>6
<1>7. Matched(R[n], seq, n+1) BY <1>4, <1>6
<1>8. (n+1)..n = {} BY <1>4
<1>9. R[n] = << >>
  <2>1. R[n] \in Seq(Calls) /\ \E b : b \in [1..Len(R[n]) -> {}] BY <1>7, <1>8 DEF Matched, n
  <2>2. 1..Len(R[n]) = {} BY <2>1
  <2>3. Len(R[n]) \in Nat /\ 1 \notin 1..Len(R[n]) BY <2>1, <2>2
  <2>4. Len(R[n]) = 0 BY <2>3
  <2> QED BY <2>1, <2>4
<1> QED BY <1>2, <1>3, <1>9 DEF n

(* The invariant.  A run, an order and the variables have their shape.     *)
Run == [pc : {"idle", "place", "wait", "confirm"}, leg : {"none", "unwind", "close", "sell"},
        todo : Seq(Calls), read : SUBSET Calls, order : Nat, ticket : Nat,
        said : {"none", "covered", "uncovered", "ok", "raised"}]

Shaped(b) ==
  /\ b.kind = "open" => b.lots = 0 /\ \E c \in Calls : b.calls = {c}
  /\ b.kind = "close" => b.lots = 0 /\ \E c \in Calls : b.calls = {c}
  /\ b.kind = "sell" => b.lots > 0 /\ b.calls = {}
  /\ b.kind = "unwind" => b.lots > 0 /\ b.calls # {}
Typed ==
  /\ held \in [calls : SUBSET Calls, lots : 0..MaxLots]
  /\ order \in Seq(Order)
  /\ book \in [calls : Seq(Calls), lots : 0..MaxLots]
  /\ pending \subseteq Orders /\ lost \subseteq Orders \ pending
  /\ crossed \in BOOLEAN
Orderly ==
  \A o \in Orders :
     /\ Shaped(order[o])
     /\ IsAlive(o) => o \in pending \union lost
     /\ order[o].kind = "open" => o \notin lost

(* The shares: one sale takes all of them.                                 *)
Unbooked(o) == o \in pending /\ order[o].status = "filled"
Sells(o) == order[o].kind \in {"sell", "unwind"}
Lots ==
  /\ \A o \in Orders : Sells(o) /\ book.lots > 0 => order[o].lots = book.lots
  /\ held.lots > 0 => /\ book.lots = held.lots
                      /\ \A o \in Orders : Sells(o) => order[o].status # "filled"
  /\ held.lots = 0 => \/ book.lots = 0
                      \/ \E o \in pending \union lost : Sells(o) /\ order[o].status = "filled"

(* While nobody sells a call into an exit.  Closing orders and call sales  *)
(* are not out together.                                                   *)
Out(o) == order[o].kind # "open" /\ (IsAlive(o) \/ o \in pending \union lost)
Apart == \A o \in Orders : Out(o) => CallSales = {}
OneSale == \A o, p \in CallSales : o = p

(* Book and account differ by the fills that are not booked.               *)
Known == \A c \in held.calls :
           \/ c \in Range(book.calls)
           \/ \E o \in CallSales : order[o].status = "filled" /\ c \in order[o].calls
NoGhost == \A c \in Range(book.calls) :
             \/ c \in held.calls
             \/ \E o \in pending \union lost :
                  order[o].kind # "open" /\ order[o].status = "filled" /\ c \in order[o].calls
Gone == \A o \in Orders :
          Unbooked(o) /\ order[o].kind # "open" => order[o].calls \intersect held.calls = {}
Distinct == \A i, j \in DOMAIN book.calls : book.calls[i] = book.calls[j] => i = j
Fresh == \A o \in CallSales :
           /\ order[o].calls \intersect Range(book.calls) = {}
           /\ order[o].status = "filled" => order[o].calls \subseteq held.calls

(* What a purchase is of that can still fill, or is not booked.            *)
Buys(o) == order[o].kind \in {"close", "unwind"}
Live(o) == Unbooked(o) \/ (IsAlive(o) /\ order[o].calls \subseteq held.calls)
Entire == \A o \in Orders :
            order[o].kind = "unwind" /\ Live(o) => order[o].calls = Range(book.calls)
First == \A o \in Orders : order[o].kind = "close" /\ Live(o) =>
           book.calls # << >> /\ order[o].calls = {Head(book.calls)}
OneAtATime == \A o, p \in Orders : Buys(o) /\ Buys(p) /\ Unbooked(o) /\ Unbooked(p) => o = p

(* Shares are sold when no call is left, or with all of them; and a call   *)
(* only on a free lot.                                                     *)
SellsBare == \A o \in Orders : order[o].kind = "sell" /\ IsAlive(o) => held.calls = {}
Whole == \A o \in Orders : order[o].kind = "unwind" =>
           /\ IsAlive(o) => held.calls \subseteq order[o].calls
           /\ Unbooked(o) => held.calls = {}
Room == \A o \in Orders :
          order[o].kind = "open" /\ IsAlive(o) => Cardinality(held.calls) < held.lots
Covered == Cardinality(held.calls) <= held.lots

Steady ==
  /\ Apart /\ OneSale /\ Known /\ NoGhost /\ Gone /\ SellsBare /\ Whole /\ Entire
  /\ Room /\ Covered /\ First /\ OneAtATime /\ Distinct /\ Fresh
World == Typed /\ Orderly /\ Lots /\ (~crossed => Steady)

(* What a run knows: its order, the ticket that failed before it, and,     *)
(* while nobody sells a call, what its list has to do with the book.       *)
Waits(r) == r.pc \in {"wait", "confirm"}
RunOK(r) ==
  /\ r.pc = "idle" => r.leg = "none" /\ r.ticket = 0
  /\ r.pc # "idle" => r.leg # "none" /\ r.said = "none"
  /\ r.leg = "close" => r.todo # << >>
  /\ Waits(r) => /\ r.order \in Orders \ lost
                 /\ order[r.order].kind = r.leg
                 /\ r.leg = "close" => order[r.order].calls = {Head(r.todo)}
                 /\ r.leg = "unwind" => r.ticket = r.order
  /\ r.pc = "place" /\ r.leg = "unwind" => r.ticket = 0
  /\ r.leg \in {"close", "sell"} /\ r.ticket # 0 =>
       r.ticket \in Orders /\ (~IsAlive(r.ticket) \/ r.ticket \in lost)
RunSteady(r) ==
  /\ r.pc # "idle" => CallSales = {}
  /\ r.leg = "sell" => held.calls = {}
  /\ r.leg = "close" =>
       /\ held.calls \subseteq Range(r.todo)
       /\ Head(r.todo) \in held.calls \/ (r.pc = "wait" /\ Unbooked(r.order)) =>
            r.todo = book.calls
RunInv(e) == RunOK(exit[e]) /\ (~crossed => RunSteady(exit[e]))
IInv == World /\ exit \in [Exits -> Run] /\ \A e \in Exits : RunInv(e)

(* An order changes its status and nothing else.                           *)
LEMMA Restatused ==
  ASSUME order \in Seq(Order), NEW o \in Orders, NEW x \in {"working", "canceling", "filled", "dead"},
         order' = [order EXCEPT ![o].status = x]
  PROVE  /\ order' \in Seq(Order) /\ Orders' = Orders /\ order'[o].status = x
         /\ \A p \in Orders : /\ p # o => order'[p] = order[p]
                              /\ order'[p].kind = order[p].kind /\ order'[p].calls = order[p].calls
                              /\ order'[p].lots = order[p].lots
<1> DEFINE new == [order[o] EXCEPT !.status = x]
<1>1. order[o] \in Order BY DEF Orders
<1>2. /\ new \in Order /\ new.status = x /\ new.kind = order[o].kind
      /\ new.calls = order[o].calls /\ new.lots = order[o].lots
  BY <1>1 DEF Order, Alive
<1>3. order' = [order EXCEPT ![o] = new] OBVIOUS
<1> HIDE DEF new
<1>4. \A p \in Orders : order'[p] = IF p = o THEN new ELSE order[p] BY <1>3 DEF Orders
<1>5. Orders' = Orders /\ order' \in Seq(Order) BY <1>2, <1>3 DEF Orders
<1> QED BY <1>2, <1>4, <1>5

(* A new order is the last one.                                            *)
LEMMA Entered ==
  ASSUME order \in Seq(Order), NEW kind \in {"unwind", "close", "sell", "open"}, NEW calls \in SUBSET Calls,
         NEW lots \in 0..MaxLots, Enter(kind, calls, lots)
  PROVE  /\ order' \in Seq(Order) /\ Len(order') \notin Orders /\ Len(order') # 0 /\ Len(order') \in Nat
         /\ Orders' = Orders \union {Len(order')}
         /\ order'[Len(order')] = [kind |-> kind, calls |-> calls, lots |-> lots, status |-> "working"]
         /\ \A p \in Orders : order'[p] = order[p]
<1> DEFINE new == [kind |-> kind, calls |-> calls, lots |-> lots, status |-> "working"]
<1>1. new \in Order BY DEF Order, Alive
<1>2. order' = Append(order, new) BY DEF Enter
<1> HIDE DEF new
<1>3. /\ order' \in Seq(Order) /\ Len(order') = Len(order) + 1 /\ order'[Len(order')] = new
      /\ \A p \in 1..Len(order) : order'[p] = order[p]
  BY <1>1, <1>2
<1>4. Len(order) \in Nat /\ DOMAIN order = 1..Len(order) /\ DOMAIN order' = 1..(Len(order) + 1) BY <1>3
<1> QED BY <1>3, <1>4 DEF Orders, new

(* An order that dies, or is being cancelled, changes nothing else.        *)
LEMMA DeadOrDying ==
  ASSUME World, NEW o \in Orders, IsAlive(o), NEW x \in {"canceling", "dead"},
         order' = [order EXCEPT ![o].status = x],
         UNCHANGED <<held, book, pending, lost, crossed>>
  PROVE  World'
<1>1. /\ order' \in Seq(Order) /\ Orders' = Orders /\ order'[o].status = x
      /\ \A p \in Orders : /\ p # o => order'[p] = order[p]
                           /\ order'[p].kind = order[p].kind /\ order'[p].calls = order[p].calls
                           /\ order'[p].lots = order[p].lots
  BY Restatused DEF World, Typed
<1>3. \A p \in Orders : /\ IsAlive(p)' => IsAlive(p)
                        /\ order'[p].status = "filled" <=> order[p].status = "filled"
  BY <1>1 DEF IsAlive, Alive
<1>4. Typed' BY <1>1 DEF World, Typed
<1>5. Orderly' BY <1>1, <1>3 DEF World, Orderly, Shaped
<1>6. Lots' BY <1>1, <1>3 DEF World, Lots, Sells, Typed
<1>7. ASSUME ~crossed PROVE Steady'
  <2>1. Steady BY <1>7 DEF World
  <2>2. pending \subseteq Orders /\ lost \subseteq Orders BY DEF World, Typed
  <2>3. CallSales' = CallSales BY <1>1, <2>2 DEF CallSales
  <2> USE <1>1, <1>3, <2>1, <2>2, <2>3
  <2>4. Apart' /\ OneSale' BY DEF Steady, Apart, OneSale, Out
  <2>5. Known' BY DEF Steady, Known, CallSales
  <2>6. NoGhost' BY DEF Steady, NoGhost
  <2>7. Gone' BY DEF Steady, Gone, Unbooked
  <2>8. SellsBare' BY DEF Steady, SellsBare
  <2>9. Whole' BY DEF Steady, Whole, Unbooked
  <2>10. Entire' BY DEF Steady, Entire, Unbooked, Live
  <2>11. Room' /\ Covered' BY DEF Steady, Room, Covered
  <2>12. First' BY DEF Steady, First, Unbooked, Live
  <2>13. OneAtATime' BY DEF Steady, OneAtATime, Unbooked, Buys
  <2>14. Distinct' BY DEF Steady, Distinct
  <2>15. Fresh' BY DEF Steady, Fresh, CallSales
  <2> QED BY <2>4, <2>5, <2>6, <2>7, <2>8, <2>9, <2>10, <2>11, <2>12, <2>13, <2>14, <2>15 DEF Steady
<1> QED BY <1>4, <1>5, <1>6, <1>7 DEF World

(* The broker fills an order.                                              *)
LEMMA FillWorld ==
  ASSUME World, NEW o \in Orders, BrokerFills(o)
  PROVE  World'
<1>1. /\ order' \in Seq(Order) /\ Orders' = Orders /\ order'[o].status = "filled"
      /\ \A p \in Orders : /\ p # o => order'[p] = order[p]
                           /\ order'[p].kind = order[p].kind /\ order'[p].calls = order[p].calls
                           /\ order'[p].lots = order[p].lots
  BY Restatused DEF World, Typed, BrokerFills
<1>2. UNCHANGED <<book, pending, lost, exit, crossed>> /\ IsAlive(o) BY DEF BrokerFills
<1>3. \A p \in Orders : /\ IsAlive(p)' <=> IsAlive(p) /\ p # o
                        /\ order'[p].status = "filled" <=> order[p].status = "filled" \/ p = o
                        /\ IsAlive(p) => order[p].status # "filled"
  BY <1>1, <1>2 DEF IsAlive, Alive
<1>4. /\ order[o].kind = "open" => held' = [held EXCEPT !.calls = @ \union order[o].calls]
      /\ order[o].kind # "open" => /\ order[o].calls \subseteq held.calls /\ order[o].lots <= held.lots
                                   /\ held' = [calls |-> held.calls \ order[o].calls, lots |-> held.lots - order[o].lots]
  BY DEF BrokerFills
<1>5. /\ held \in [calls : SUBSET Calls, lots : 0..MaxLots] /\ held.lots \in Nat /\ book.lots \in Nat
      /\ pending \subseteq Orders /\ lost \subseteq Orders \ pending
  BY ExitAssumption DEF World, Typed
<1>6. /\ order[o].kind \in {"unwind", "close", "sell", "open"}
      /\ order[o].calls \in SUBSET Calls /\ order[o].lots \in 0..MaxLots /\ order[o].lots \in Nat
  <2>1. order[o] \in Order BY DEF World, Typed, Orders
  <2> QED BY <2>1, ExitAssumption DEF Order
<1>7. Shaped(order[o]) BY DEF World, Orderly
<1>8. /\ held'.calls \in SUBSET Calls /\ held'.lots \in Nat /\ held' \in [calls : SUBSET Calls, lots : 0..MaxLots]
      /\ held'.lots = IF order[o].kind = "open" THEN held.lots ELSE held.lots - order[o].lots
      /\ held'.calls = IF order[o].kind = "open" THEN held.calls \union order[o].calls ELSE held.calls \ order[o].calls
  <2>1. CASE order[o].kind = "open" BY <2>1, <1>4, <1>5, <1>6
  <2>2. CASE order[o].kind # "open" BY <2>2, <1>4, <1>5, <1>6, ExitAssumption
  <2> QED BY <2>1, <2>2
<1>9. Typed' BY <1>1, <1>2, <1>8 DEF World, Typed
<1>10. Orderly' BY <1>1, <1>2, <1>3 DEF World, Orderly, Shaped
<1>11. Lots'
  <2>1. CASE ~Sells(o)
    <3>1. held'.lots = held.lots BY <2>1, <1>5, <1>6, <1>7, <1>8 DEF Sells, Shaped
    <3> QED BY <1>1, <1>2, <1>3, <1>5, <2>1, <3>1 DEF World, Lots, Sells
  <2>2. CASE Sells(o)
    <3>1. order[o].lots > 0 /\ order[o].kind # "open" BY <1>7, <2>2 DEF Shaped, Sells
    <3>2. held.lots > 0 BY <1>4, <1>5, <1>6, <3>1
    <3>3. order[o].lots = held.lots /\ book.lots = held.lots BY <3>2, <2>2, <1>5 DEF World, Lots
    <3>4. held'.lots = 0 BY <1>5, <1>6, <1>8, <3>1, <3>3
    <3>5. o \in pending \union lost BY <1>2 DEF World, Orderly
    <3>6. (\E p \in pending \union lost : Sells(p) /\ order[p].status = "filled")'
      BY <1>1, <1>2, <2>2, <3>5 DEF Sells
    <3>7. (\A p \in Orders : Sells(p) /\ book.lots > 0 => order[p].lots = book.lots)'
      BY <1>1, <1>2 DEF World, Lots, Sells
    <3> QED BY <3>4, <3>6, <3>7 DEF Lots
  <2> QED BY <2>1, <2>2
<1>12. ASSUME ~crossed PROVE Steady'
  <2>1. Steady BY <1>12 DEF World
  <2>2. CallSales' = CallSales BY <1>1, <1>2, <1>5 DEF CallSales
  <2>3. IsFiniteSet(held.calls) BY <1>5, ExitAssumption, FS_Subset
  <2>4. CASE order[o].kind = "open"
    <3>1. o \in CallSales BY <1>2, <2>4 DEF World, Orderly, CallSales
    <3>2. \A p \in Orders : ~Out(p) BY <2>1, <3>1 DEF Steady, Apart
    <3>3. \A p \in Orders : order[p].kind # "open" => ~IsAlive(p) /\ ~Unbooked(p)
      BY <3>2 DEF Out, Unbooked
    <3>4. PICK c \in Calls : order[o].calls = {c} BY <1>7, <2>4 DEF Shaped
    <3>5. held'.calls = held.calls \union {c} /\ held'.lots = held.lots BY <1>8, <2>4, <3>4
    <3>6. \A p \in Orders : order'[p].kind = "open" => ~IsAlive(p)'
      <4> SUFFICES ASSUME NEW p \in Orders, order'[p].kind = "open", IsAlive(p)' PROVE FALSE OBVIOUS
      <4>1. IsAlive(p) /\ p # o /\ order[p].kind = "open" BY <1>1, <1>3
      <4>2. p \in CallSales BY <4>1 DEF World, Orderly, CallSales
      <4> QED BY <2>1, <3>1, <4>1, <4>2 DEF Steady, OneSale
    <3>7. (\A p \in Orders : order[p].kind # "open" => ~IsAlive(p) /\ ~Unbooked(p) /\ ~Out(p))'
      BY <1>1, <1>2, <1>3, <2>4, <3>2, <3>3 DEF Unbooked, Out
    <3>8. Apart' /\ OneSale' BY <1>1, <2>1, <2>2, <3>7 DEF Steady, Apart, OneSale, Out
    <3>9. Known'
      <4> SUFFICES ASSUME NEW d \in held'.calls, d \notin Range(book.calls)
                   PROVE  \E p \in CallSales : order'[p].status = "filled" /\ d \in order'[p].calls
        BY <1>2, <2>2 DEF Known
      <4>1. \A p \in CallSales : p \in Orders BY <1>5 DEF CallSales
      <4>2. CASE d = c BY <1>1, <3>1, <3>4, <4>1, <4>2
      <4>3. CASE d # c
        <5>1. d \in held.calls BY <3>5, <4>3
        <5>2. PICK p \in CallSales : order[p].status = "filled" /\ d \in order[p].calls
          BY <2>1, <5>1 DEF Steady, Known
        <5> QED BY <1>1, <1>3, <4>1, <5>2
      <4> QED BY <4>2, <4>3
    <3>10. NoGhost' BY <1>1, <1>2, <1>3, <1>5, <2>1, <3>5 DEF Steady, NoGhost
    <3>11. Gone' /\ SellsBare' /\ Whole' /\ Entire' /\ First' /\ OneAtATime'
      BY <3>7 DEF Gone, SellsBare, Whole, Entire, First, OneAtATime, Buys, Live
    <3>12. Cardinality(held.calls) < held.lots BY <1>2, <2>1, <2>4 DEF Steady, Room
    <3>13. Covered'
      <4>1. Cardinality(held.calls) \in Nat BY <2>3, FS_CardinalityType
      <4>2. Cardinality(held.calls \union {c}) = IF c \in held.calls THEN Cardinality(held.calls) ELSE Cardinality(held.calls) + 1
        BY <2>3, FS_AddElement
      <4> QED BY <1>5, <3>5, <3>12, <4>1, <4>2 DEF Covered
    <3>14. Room' BY <1>1, <3>6 DEF Room
    <3>15. Distinct' BY <1>2, <2>1 DEF Steady, Distinct
    <3>16. Fresh'
      <4> SUFFICES ASSUME NEW p \in CallSales
                   PROVE  /\ order'[p].calls \intersect Range(book.calls) = {}
                          /\ order'[p].status = "filled" => order'[p].calls \subseteq held'.calls
        BY <1>2, <2>2 DEF Fresh
      <4>1. p \in Orders BY <1>5 DEF CallSales
      <4>2. p = o BY <2>1, <3>1 DEF Steady, OneSale
      <4> QED BY <1>1, <2>1, <3>4, <3>5, <4>1, <4>2 DEF Steady, Fresh
    <3> QED BY <3>8, <3>9, <3>10, <3>11, <3>13, <3>14, <3>15, <3>16 DEF Steady
  <2>5. CASE order[o].kind # "open"
    <3>1. CallSales = {} BY <1>2, <2>1, <2>5 DEF Steady, Apart, Out
    <3>2. /\ held'.calls = held.calls \ order[o].calls /\ held'.lots = held.lots - order[o].lots
          /\ order[o].calls \subseteq held.calls /\ o \in pending \union lost
      BY <1>2, <1>4, <1>8, <2>5 DEF World, Orderly
    <3>3. held.calls \subseteq Range(book.calls) BY <2>1, <3>1 DEF Steady, Known
    <3> USE <1>1, <1>2, <1>3, <1>5, <2>1, <2>2, <2>5, <3>1, <3>2, <3>3
    <3>4. Apart' /\ OneSale' BY DEF Steady, Apart, OneSale, Out
    <3>5. Known' BY DEF Steady, Known, CallSales
    <3>6. NoGhost' BY DEF Steady, NoGhost
    <3>7. Gone' BY DEF Steady, Gone, Unbooked
    <3>8. SellsBare' BY DEF Steady, SellsBare
    <3>9. order[o].kind = "unwind" => held'.calls = {} BY DEF Steady, Whole
    <3>10. Whole' BY <3>9 DEF Steady, Whole, Unbooked
    <3>11. Entire' BY DEF Steady, Entire, Unbooked, Live
    <3>12. Room' /\ Fresh' /\ Distinct'
      <4>1. (\A p \in Orders : order[p].kind = "open" => ~IsAlive(p))' BY DEF World, Orderly, CallSales
      <4> QED BY <4>1 DEF Steady, Room, Distinct, Fresh
    <3>13. First' BY DEF Steady, First, Unbooked, Live
    <3>14. OneAtATime'
      <4> SUFFICES ASSUME NEW p \in Orders, Buys(o), Buys(p), Unbooked(p), p # o PROVE FALSE
        BY DEF Steady, OneAtATime, Unbooked, Buys
      <4>1. order[p].calls # {} /\ order[p].calls \intersect held.calls = {} /\ order[o].calls # {}
        <5>1. Shaped(order[p]) /\ Shaped(order[o]) BY DEF World, Orderly
        <5> QED BY <5>1 DEF Steady, Gone, Buys, Shaped
      <4>2. order[p].kind = "close" => order[p].calls = {Head(book.calls)} /\ book.calls # << >>
        BY DEF Steady, First, Live
      <4>3. order[p].kind = "unwind" => held.calls = {} BY DEF Steady, Whole
      <4>4. order[p].kind = "close" BY <4>1, <4>3 DEF Buys
      <4>5. order[o].kind = "close" => order[o].calls = {Head(book.calls)} BY DEF Steady, First, Live
      <4>6. order[o].kind = "unwind" => order[o].calls = Range(book.calls) BY DEF Steady, Entire, Live
      <4>7. Head(book.calls) \in Range(book.calls)
        <5>1. book.calls \in Seq(Calls) BY DEF World, Typed
        <5> QED BY <4>2, <4>4, <5>1 DEF Range
      <4> QED BY <4>1, <4>2, <4>4, <4>5, <4>6, <4>7 DEF Buys
    <3>15. Covered'
      <4>1. Cardinality(held'.calls) <= Cardinality(held.calls) /\ Cardinality(held.calls) \in Nat /\ Cardinality(held'.calls) \in Nat
        BY <2>3, FS_Subset, FS_CardinalityType
      <4>2. CASE ~Sells(o)
        <5>1. order[o].lots = 0 BY <1>6, <1>7, <4>2 DEF Shaped, Sells
        <5> QED BY <4>1, <5>1 DEF Steady, Covered
      <4>3. CASE Sells(o)
        <5>1. held'.calls = {} BY <3>9, <4>3 DEF Steady, SellsBare, Sells
        <5>2. Cardinality(held'.calls) = 0 BY <5>1, FS_EmptySet
        <5> QED BY <5>2, <1>8 DEF Covered
      <4> QED BY <4>2, <4>3
    <3> QED BY <3>4, <3>5, <3>6, <3>7, <3>8, <3>10, <3>11, <3>12, <3>13, <3>14, <3>15 DEF Steady
  <2> QED BY <2>4, <2>5
<1> QED BY <1>2, <1>9, <1>10, <1>11, <1>12 DEF World

(* What the book becomes when a filled order is booked.                    *)
LEMMA BookedTyped ==
  ASSUME World, NEW o \in Orders
  PROVE  /\ Booked(o) \in [calls : Seq(Calls), lots : 0..MaxLots]
         /\ Booked(o).lots = IF ~Sells(o) THEN book.lots
                             ELSE IF book.lots > order[o].lots THEN book.lots - order[o].lots ELSE 0
<1>1. /\ order[o].kind \in {"unwind", "close", "sell", "open"}
      /\ order[o].calls \in SUBSET Calls /\ order[o].lots \in Nat
  <2>1. order[o] \in Order BY DEF World, Typed, Orders
  <2> QED BY <2>1, ExitAssumption DEF Order
<1>2. Shaped(order[o]) BY DEF World, Orderly
<1>3. book \in [calls : Seq(Calls), lots : 0..MaxLots] /\ book.calls \in Seq(Calls) /\ book.lots \in 0..MaxLots /\ MaxLots \in Nat
  BY ExitAssumption DEF World, Typed
<1>4. CASE order[o].kind = "open"
  <2>1. Booked(o) = [book EXCEPT !.calls = @ \o SetToSeq(order[o].calls)] BY <1>4 DEF Booked
  <2>2. SetToSeq(order[o].calls) \in Seq(Calls) BY <1>1, SequenceOf
  <2>3. book.calls \o SetToSeq(order[o].calls) \in Seq(Calls) BY <1>3, <2>2
  <2> QED BY <1>3, <1>4, <2>1, <2>3 DEF Sells
<1>5. CASE order[o].kind # "open"
  <2>1. Booked(o) = [calls |-> _close_short(book.calls, order[o].calls), lots |-> _reduce_shares(book.lots, order[o].lots)]
    BY <1>5 DEF Booked
  <2>2. _close_short(book.calls, order[o].calls) \in Seq(Calls) BY <1>1, <1>3, CloseTyped
  <2>3. _reduce_shares(book.lots, order[o].lots) \in 0..MaxLots BY <1>1, <1>3 DEF _reduce_shares
  <2>4. ~Sells(o) => order[o].lots = 0 BY <1>1, <1>2, <1>5 DEF Sells, Shaped
  <2> QED BY <1>1, <1>3, <2>1, <2>2, <2>3, <2>4 DEF _reduce_shares
<1> QED BY <1>4, <1>5

(* Sequences put together.                                                 *)
LEMMA Concatenated ==
  ASSUME NEW b \in Seq(Calls), NEW q \in Seq(Calls)
  PROVE  /\ b \o q \in Seq(Calls) /\ Len(b \o q) = Len(b) + Len(q)
         /\ \A i \in 1..(Len(b) + Len(q)) : (b \o q)[i] = IF i <= Len(b) THEN b[i] ELSE q[i - Len(b)]
OBVIOUS

(* A new leg keeps the legs distinct.                                      *)
LEMMA Appended ==
  ASSUME NEW b \in Seq(Calls), NEW q \in Seq(Calls), Len(q) = 1, NEW c, q[1] = c,
         c \notin Range(b), \A i, j \in DOMAIN b : b[i] = b[j] => i = j
  PROVE  /\ Range(b \o q) = Range(b) \union {c}
         /\ \A i, j \in DOMAIN (b \o q) : (b \o q)[i] = (b \o q)[j] => i = j
<1> DEFINE all == b \o q
<1>1. Len(b) \in Nat /\ DOMAIN b = 1..Len(b) OBVIOUS
<1>2. /\ DOMAIN all = 1..(Len(b) + 1) /\ all[Len(b) + 1] = c
      /\ \A i \in 1..Len(b) : all[i] = b[i]
  <2>0. /\ b \o q \in Seq(Calls) /\ Len(b \o q) = Len(b) + Len(q)
        /\ \A i \in 1..(Len(b) + Len(q)) : (b \o q)[i] = IF i <= Len(b) THEN b[i] ELSE q[i - Len(b)]
    BY Concatenated
  <2>1. all \in Seq(Calls) /\ Len(all) = Len(b) + 1 BY <2>0
  <2>2. \A i \in 1..(Len(b) + 1) : all[i] = IF i <= Len(b) THEN b[i] ELSE q[i - Len(b)] BY <2>0
  <2>3. Len(b) + 1 \in 1..(Len(b) + 1) /\ ~(Len(b) + 1 <= Len(b)) /\ (Len(b) + 1) - Len(b) = 1 BY <1>1
  <2>4. all[Len(b) + 1] = c BY <2>2, <2>3
  <2>5. \A i \in 1..Len(b) : i \in 1..(Len(b) + 1) /\ i <= Len(b) BY <1>1
  <2> HIDE DEF all
  <2> QED BY <2>1, <2>2, <2>4, <2>5
<1> HIDE DEF all
<1>3. \A i \in DOMAIN all : i \in 1..Len(b) \/ i = Len(b) + 1 BY <1>1, <1>2
<1>4. Range(all) = Range(b) \union {c}
  <2>1. \A x \in Range(all) : x \in Range(b) \union {c} BY <1>1, <1>2, <1>3 DEF Range
  <2>2. \A x \in Range(b) : x \in Range(all)
    <3> TAKE x \in Range(b)
    <3>1. PICK i \in 1..Len(b) : b[i] = x BY <1>1 DEF Range
    <3>2. i \in DOMAIN all /\ all[i] = x BY <1>1, <1>2, <3>1
    <3> QED BY <3>2 DEF Range
  <2>3. Len(b) + 1 \in DOMAIN all BY <1>1, <1>2
  <2>4. c \in Range(all) BY <1>2, <2>3 DEF Range
  <2> QED BY <2>1, <2>2, <2>4
<1>5. \A i \in 1..Len(b) : all[i] # c BY <1>1, <1>2 DEF Range
<1>6. \A i, j \in DOMAIN all : all[i] = all[j] => i = j BY <1>1, <1>2, <1>3, <1>5
<1> QED BY <1>4, <1>6 DEF all

(* What a fill leaves of the legs: a sale adds its call, a close takes the *)
(* first leg, a ticket takes all.                                          *)
LEMMA BookedCalls ==
  ASSUME World, NEW o \in Orders, ~crossed, Unbooked(o)
  PROVE  /\ order[o].kind = "open" => /\ Range(Booked(o).calls) = Range(book.calls) \union order[o].calls
                                      /\ \A i, j \in DOMAIN Booked(o).calls : Booked(o).calls[i] = Booked(o).calls[j] => i = j
         /\ order[o].kind = "close" => /\ book.calls # << >> /\ order[o].calls = {Head(book.calls)}
                                       /\ Booked(o).calls = Tail(book.calls)
         /\ order[o].kind = "sell" => Booked(o).calls = book.calls
         /\ order[o].kind = "unwind" => Booked(o).calls = << >> /\ order[o].calls = Range(book.calls)
<1>1. Steady BY DEF World
<1>2. Shaped(order[o]) BY DEF World, Orderly
<1>3. book \in [calls : Seq(Calls), lots : 0..MaxLots] /\ book.calls \in Seq(Calls) BY DEF World, Typed
<1>4. Distinct BY <1>1 DEF Steady
<1>5. ASSUME order[o].kind = "open"
      PROVE  /\ Range(Booked(o).calls) = Range(book.calls) \union order[o].calls
             /\ \A i, j \in DOMAIN Booked(o).calls : Booked(o).calls[i] = Booked(o).calls[j] => i = j
  <2>1. PICK c \in Calls : order[o].calls = {c} BY <1>2, <1>5 DEF Shaped
  <2> DEFINE q == SetToSeq({c})  b == book.calls  all == b \o q
  <2>2. q \in Seq(Calls) /\ Len(q) = 1 /\ Range(q) = {c} BY SequenceOf, FS_Singleton
  <2>3. q[1] = c
    <3>1. 1 \in DOMAIN q BY <2>2
    <3>2. q[1] \in Range(q) BY <3>1 DEF Range
    <3> QED BY <2>2, <3>2
  <2>4. Booked(o).calls = all BY <1>3, <1>5, <2>1 DEF Booked
  <2>5. c \notin Range(b)
    <3>1. o \in CallSales BY <1>5 DEF Unbooked, CallSales
    <3> QED BY <1>1, <2>1, <3>1 DEF Steady, Fresh
  <2>6. b \in Seq(Calls) /\ Len(b) \in Nat /\ DOMAIN b = 1..Len(b) BY <1>3
  <2>7. \A i, j \in DOMAIN b : b[i] = b[j] => i = j BY <1>4 DEF Distinct
  <2> HIDE DEF q, b
  <2>8. Range(all) = Range(b) \union {c} /\ \A i, j \in DOMAIN all : all[i] = all[j] => i = j
    BY <2>2, <2>3, <2>5, <2>6, <2>7, Appended
  <2> QED BY <2>1, <2>4, <2>8 DEF b
<1>6. ASSUME order[o].kind = "close"
      PROVE  /\ book.calls # << >> /\ order[o].calls = {Head(book.calls)}
             /\ Booked(o).calls = Tail(book.calls)
  <2>1. book.calls # << >> /\ order[o].calls = {Head(book.calls)} BY <1>1, <1>6 DEF Steady, First, Live
  <2>2. Head(book.calls) \in Calls BY <1>3, <2>1
  <2>3. _close_short(book.calls, {Head(book.calls)}) = Tail(book.calls) BY <1>3, <2>1, <2>2, CloseFirst
  <2> QED BY <1>6, <2>1, <2>3 DEF Booked
<1>7. ASSUME order[o].kind = "sell" PROVE Booked(o).calls = book.calls
  <2>1. order[o].calls = {} BY <1>2, <1>7 DEF Shaped
  <2> QED BY <1>3, <1>7, <2>1, CloseNone DEF Booked
<1>8. ASSUME order[o].kind = "unwind" PROVE Booked(o).calls = << >> /\ order[o].calls = Range(book.calls)
  <2>1. order[o].calls = Range(book.calls) BY <1>1, <1>8 DEF Steady, Entire, Live
  <2>2. _close_short(book.calls, Range(book.calls)) = << >> BY <1>3, <1>4, CloseAll DEF Distinct
  <2> QED BY <1>8, <2>1, <2>2 DEF Booked
<1> QED BY <1>5, <1>6, <1>7, <1>8

(* The legs after the first.                                               *)
LEMMA TailOf ==
  ASSUME NEW b \in Seq(Calls), b # << >>, \A i, j \in DOMAIN b : b[i] = b[j] => i = j
  PROVE  /\ Tail(b) \in Seq(Calls) /\ Head(b) \in Calls /\ Range(Tail(b)) = Range(b) \ {Head(b)}
         /\ Head(b) \in Range(b) /\ \A i, j \in DOMAIN Tail(b) : Tail(b)[i] = Tail(b)[j] => i = j
<1> DEFINE t == Tail(b)
<1>1. /\ t \in Seq(Calls) /\ Len(t) = Len(b) - 1 /\ Head(b) = b[1] /\ Len(b) \in Nat /\ Len(b) > 0
      /\ \A i \in 1..(Len(b) - 1) : t[i] = b[i+1]
      /\ DOMAIN t = 1..(Len(b) - 1) /\ DOMAIN b = 1..Len(b) OBVIOUS
<1> HIDE DEF t
<1>2. \A i \in 1..(Len(b) - 1) : i+1 \in 1..Len(b) /\ i+1 # 1 BY <1>1
<1>3. \A i, j \in DOMAIN t : t[i] = t[j] => i = j
  <2> SUFFICES ASSUME NEW i \in 1..(Len(b) - 1), NEW j \in 1..(Len(b) - 1), t[i] = t[j] PROVE i = j BY <1>1
  <2>1. b[i+1] = b[j+1] BY <1>1
  <2>2. i+1 = j+1 BY <1>1, <1>2, <2>1
  <2> QED BY <1>1, <2>2
<1>4. \A x \in Range(t) : x \in Range(b) /\ x # Head(b)
  <2> TAKE x \in Range(t)
  <2>1. PICK i \in 1..(Len(b) - 1) : t[i] = x BY <1>1 DEF Range
  <2>2. i+1 \in DOMAIN b /\ b[i+1] = x /\ i+1 # 1 /\ 1 \in DOMAIN b BY <1>1, <1>2, <2>1
  <2> QED BY <1>1, <2>2 DEF Range
<1>5. \A x \in Range(b) : x # Head(b) => x \in Range(t)
  <2> TAKE x \in Range(b)
  <2>1. PICK i \in 1..Len(b) : b[i] = x BY <1>1 DEF Range
  <2> HAVE x # Head(b)
  <2>2. i - 1 \in 1..(Len(b) - 1) /\ (i-1)+1 = i BY <1>1, <2>1
  <2>3. t[i-1] = x /\ i-1 \in DOMAIN t BY <1>1, <2>1, <2>2
  <2> QED BY <2>3 DEF Range
<1>6. 1 \in DOMAIN b BY <1>1
<1>7. Head(b) \in Range(b) BY <1>1, <1>6 DEF Range
<1>8. Head(b) \in Calls BY <1>1
<1> QED BY <1>1, <1>3, <1>4, <1>5, <1>7, <1>8 DEF t

(* A settled order loses its record; a fill with a record is booked.       *)
LEMMA StatusWorld ==
  ASSUME World, NEW o \in Orders, order_status(o), UNCHANGED <<held, order, lost, crossed>>
  PROVE  World'
<1>1. Orders' = Orders /\ \A p \in Orders : IsAlive(p)' <=> IsAlive(p) BY DEF Orders, IsAlive
<1>2. /\ held \in [calls : SUBSET Calls, lots : 0..MaxLots] /\ held.lots \in Nat /\ book.lots \in Nat
      /\ pending \subseteq Orders /\ lost \subseteq Orders \ pending
  BY ExitAssumption DEF World, Typed
<1>3. IsAlive(o) => order[o].status # "filled" BY DEF IsAlive, Alive
<1>4. Typed'
  <2>1. Booked(o) \in [calls : Seq(Calls), lots : 0..MaxLots] BY BookedTyped
  <2> QED BY <1>1, <2>1 DEF World, Typed, order_status
<1>5. Orderly'
  <2>1. \A p \in Orders : IsAlive(p) => (p \in pending \union lost)'
    BY DEF World, Orderly, order_status
  <2> QED BY <1>1, <2>1 DEF World, Orderly, Shaped
<1>6. CASE ~Unbooked(o)
  <2>1. book' = book BY <1>6 DEF order_status, Unbooked
  <2>2. pending' \subseteq pending /\ \A p \in pending \ pending' : p = o /\ ~IsAlive(o) BY DEF order_status
  <2>3. \A p \in Orders : Unbooked(p)' <=> Unbooked(p) BY <1>6, <2>2 DEF Unbooked
  <2>4. Lots' BY <1>1, <1>6, <2>1, <2>2 DEF World, Lots, Sells, Unbooked
  <2>5. ASSUME ~crossed PROVE Steady'
    <3>1. Steady BY <2>5 DEF World
    <3> USE <1>1, <1>2, <1>6, <2>1, <2>2, <2>3, <3>1
    <3>2. \A p \in CallSales : order[p].status = "filled" => p \in CallSales' BY DEF CallSales, Unbooked
    <3>3. CallSales' \subseteq CallSales BY DEF CallSales
    <3>4. Apart' /\ OneSale' BY <3>3 DEF Steady, Apart, OneSale, Out
    <3>5. Known' BY <3>2 DEF Steady, Known
    <3>6. NoGhost' BY DEF Steady, NoGhost, Unbooked
    <3>7. Gone' BY DEF Steady, Gone
    <3>8. SellsBare' BY DEF Steady, SellsBare
    <3>9. Whole' BY DEF Steady, Whole
    <3>10. Entire' BY DEF Steady, Entire, Live
    <3>11. Room' /\ Covered' BY DEF Steady, Room, Covered
    <3>12. First' BY DEF Steady, First, Live
    <3>13. OneAtATime' BY DEF Steady, OneAtATime, Buys
    <3>14. Distinct' BY DEF Steady, Distinct
    <3>15. Fresh' BY <3>3 DEF Steady, Fresh
    <3> QED BY <3>4, <3>5, <3>6, <3>7, <3>8, <3>9, <3>10, <3>11, <3>12, <3>13, <3>14, <3>15 DEF Steady
  <2> QED BY <1>4, <1>5, <2>4, <2>5 DEF World
<1>7. CASE Unbooked(o)
  <2>1. book' = Booked(o) /\ pending' = pending \ {o} BY <1>3, <1>7 DEF order_status, Unbooked
  <2>2. \A p \in Orders : Unbooked(p)' <=> Unbooked(p) /\ p # o BY <2>1 DEF Unbooked
  <2>3. Lots'
    <3>1. book'.lots = IF ~Sells(o) THEN book.lots
                       ELSE IF book.lots > order[o].lots THEN book.lots - order[o].lots ELSE 0
      BY <2>1, BookedTyped
    <3>2. CASE ~Sells(o) BY <1>1, <2>1, <3>1, <3>2 DEF World, Lots, Sells
    <3>3. CASE Sells(o)
      <4>1. held.lots = 0 BY <1>2, <1>7, <3>3 DEF World, Lots, Unbooked
      <4>2. book.lots > 0 => order[o].lots = book.lots BY <3>3 DEF World, Lots
      <4>3. order[o].lots \in Nat
        <5>1. order[o] \in Order BY DEF World, Typed, Orders
        <5> QED BY <5>1, ExitAssumption DEF Order
      <4>4. book'.lots = 0 BY <1>2, <3>1, <3>3, <4>2, <4>3
      <4> QED BY <4>1, <4>4 DEF Lots
    <3> QED BY <3>2, <3>3
  <2>4. ASSUME ~crossed PROVE Steady'
    <3>1. Steady BY <2>4 DEF World
    <3>2. Gone' /\ SellsBare' /\ Whole' /\ Room' /\ Covered' /\ OneAtATime'
      BY <1>1, <2>2, <3>1 DEF Steady, Gone, SellsBare, Whole, Room, Covered, OneAtATime, Buys
    <3>3. Apart' /\ OneSale' /\ CallSales' = CallSales \ {o}
      <4>1. CallSales' = CallSales \ {o} BY <2>1 DEF CallSales
      <4> QED BY <1>1, <2>1, <3>1, <4>1 DEF Steady, Apart, OneSale, Out
    <3>4. CASE order[o].kind = "open"
      <4>1. o \in CallSales BY <1>7, <3>4 DEF CallSales, Unbooked
      <4>2. \A p \in Orders : order[p].kind # "open" => ~IsAlive(p) /\ ~Unbooked(p) /\ ~Out(p)
        BY <3>1, <4>1 DEF Steady, Apart, Out, Unbooked
      <4>3. CallSales' = {} BY <3>1, <3>3, <4>1 DEF Steady, OneSale
      <4>4. /\ Range(book'.calls) = Range(book.calls) \union order[o].calls
            /\ \A i, j \in DOMAIN book'.calls : book'.calls[i] = book'.calls[j] => i = j
        BY <1>7, <2>1, <2>4, <3>4, BookedCalls
      <4>5. order[o].calls \subseteq held.calls BY <1>7, <3>1, <4>1 DEF Steady, Fresh, Unbooked
      <4>6. Known'
        <5>1. \A c \in held.calls : c \in Range(book.calls) \/ c \in order[o].calls
          BY <3>1, <4>1 DEF Steady, Known, OneSale
        <5> QED BY <4>4, <5>1 DEF Known
      <4>7. NoGhost' BY <2>1, <3>1, <3>4, <4>4, <4>5 DEF Steady, NoGhost
      <4>8. Entire' /\ First' BY <1>1, <2>2, <4>2 DEF Entire, First, Live
      <4>9. Distinct' /\ Fresh' BY <4>3, <4>4 DEF Distinct, Fresh
      <4> QED BY <3>2, <3>3, <4>6, <4>7, <4>8, <4>9 DEF Steady
    <3>5. CASE order[o].kind # "open"
      <4>1. CallSales = {} /\ CallSales' = {} BY <1>7, <3>1, <3>3, <3>5 DEF Steady, Apart, Out, Unbooked
      <4>2. held.calls \subseteq Range(book.calls) BY <3>1, <4>1 DEF Steady, Known
      <4>3. Fresh' BY <4>1 DEF Fresh
      <4>4. order[o].calls \intersect held.calls = {} BY <1>7, <3>1, <3>5 DEF Steady, Gone
      <4>5. CASE order[o].kind = "close"
        <5>1. book.calls # << >> /\ order[o].calls = {Head(book.calls)} /\ book'.calls = Tail(book.calls)
          BY <1>7, <2>1, <2>4, <4>5, BookedCalls
        <5>2. /\ Range(book'.calls) = Range(book.calls) \ {Head(book.calls)} /\ Head(book.calls) \in Range(book.calls)
              /\ Distinct'
          <6>1. book.calls \in Seq(Calls) BY DEF World, Typed
          <6> QED BY <3>1, <5>1, <6>1, TailOf DEF Steady, Distinct
        <5>3. Known' BY <4>2, <4>4, <5>1, <5>2 DEF Known
        <5>4. NoGhost' BY <2>1, <3>1, <5>1, <5>2 DEF Steady, NoGhost
        <5>5. \A p \in Orders : Buys(p) => ~Unbooked(p)'
          BY <1>7, <2>2, <3>1, <4>5 DEF Steady, OneAtATime, Buys
        <5>6. Entire' BY <1>1, <3>1, <4>4, <5>1, <5>2, <5>5 DEF Steady, Entire, Buys, Live
        <5>7. First' BY <1>1, <3>1, <4>4, <5>1, <5>5 DEF Steady, First, Buys, Live
        <5> QED BY <3>2, <3>3, <4>3, <5>2, <5>3, <5>4, <5>6, <5>7 DEF Steady
      <4>6. CASE order[o].kind = "sell"
        <5>1. book'.calls = book.calls BY <1>7, <2>1, <2>4, <4>6, BookedCalls
        <5>2. order[o].calls = {} BY <4>6 DEF World, Orderly, Shaped
        <5>3. Known' BY <4>2, <5>1 DEF Known
        <5>4. NoGhost' BY <2>1, <3>1, <5>1, <5>2 DEF Steady, NoGhost
        <5>5. Entire' /\ First' /\ Distinct'
          BY <1>1, <2>2, <3>1, <5>1 DEF Steady, Entire, First, Distinct, Live
        <5> QED BY <3>2, <3>3, <4>3, <5>3, <5>4, <5>5 DEF Steady
      <4>7. CASE order[o].kind = "unwind"
        <5>1. book'.calls = << >> BY <1>7, <2>1, <2>4, <4>7, BookedCalls
        <5>2. held.calls = {} BY <1>7, <3>1, <4>7 DEF Steady, Whole
        <5>3. Range(book'.calls) = {} /\ DOMAIN book'.calls = {} BY <5>1 DEF Range
        <5>4. Known' /\ NoGhost' /\ Distinct' BY <5>2, <5>3 DEF Known, NoGhost, Distinct
        <5>5. \A p \in Orders : Buys(p) => ~Unbooked(p)'
          BY <1>7, <2>2, <3>1, <4>7 DEF Steady, OneAtATime, Buys
        <5>6. \A p \in Orders : Buys(p) => order[p].calls # {} BY DEF World, Orderly, Shaped, Buys
        <5>7. Entire' /\ First' BY <1>1, <5>2, <5>5, <5>6 DEF Entire, First, Buys, Live
        <5> QED BY <3>2, <3>3, <4>3, <5>4, <5>7 DEF Steady
      <4>8. order[o].kind \in {"unwind", "close", "sell", "open"}
        <5>1. order[o] \in Order BY DEF World, Typed, Orders
        <5> QED BY <5>1 DEF Order
      <4> QED BY <3>5, <4>5, <4>6, <4>7, <4>8
    <3> QED BY <3>4, <3>5
  <2> QED BY <1>4, <1>5, <2>3, <2>4 DEF World
<1> QED BY <1>6, <1>7

(* The operator sells a call.                                              *)
LEMMA SaleWorld ==
  ASSUME World, NEW c \in Calls, _sell_short(c)
  PROVE  World'
<1>0. PICK n : n = Len(order') OBVIOUS
<1>1. /\ order' \in Seq(Order) /\ n \notin Orders /\ Orders' = Orders \union {n}
      /\ order'[n] = [kind |-> "open", calls |-> {c}, lots |-> 0, status |-> "working"]
      /\ \A p \in Orders : order'[p] = order[p]
  <2>1. order \in Seq(Order) /\ 0 \in 0..MaxLots BY ExitAssumption DEF World, Typed
  <2>2. Enter("open", {c}, 0) BY DEF _sell_short
  <2> QED BY <1>0, <2>1, <2>2, Entered
<1>2. /\ UNCHANGED <<held, book, lost>> /\ pending' = pending \union {n}
      /\ CallSales = {} /\ Len(book.calls) < book.lots /\ c \notin Range(book.calls)
      /\ crossed' = (crossed \/ Leaving)
  BY <1>0 DEF _sell_short
<1>3. /\ held \in [calls : SUBSET Calls, lots : 0..MaxLots] /\ held.lots \in Nat /\ book.lots \in Nat
      /\ book.calls \in Seq(Calls) /\ pending \subseteq Orders /\ lost \subseteq Orders \ pending
  BY ExitAssumption DEF World, Typed
<1>4. \A p \in Orders : p # n /\ (IsAlive(p)' <=> IsAlive(p)) /\ (Unbooked(p)' <=> Unbooked(p))
  BY <1>1, <1>2 DEF IsAlive, Unbooked
<1>5. n \in pending' /\ n \notin lost /\ IsAlive(n)' /\ ~Unbooked(n)'
  BY <1>1, <1>2, <1>3 DEF IsAlive, Alive, Unbooked
<1>6. Typed'
  <2>1. crossed' \in BOOLEAN BY <1>2 DEF World, Typed, Leaving
  <2> QED BY <1>1, <1>2, <1>3, <2>1 DEF World, Typed
<1>7. Orderly'
  <2>1. \A p \in Orders : /\ (Shaped(order[p]))' /\ (IsAlive(p)' => p \in pending' \union lost')
                          /\ order'[p].kind = "open" => p \notin lost'
    BY <1>1, <1>2, <1>4 DEF World, Orderly, Shaped
  <2>2. (Shaped(order[n]))' BY <1>1 DEF Shaped
  <2> QED BY <1>1, <1>2, <1>5, <2>1, <2>2 DEF Orderly
<1>8. Lots'
  <2>1. ~Sells(n)' BY <1>1 DEF Sells
  <2>2. \A p \in Orders : Sells(p)' <=> Sells(p) BY <1>1 DEF Sells
  <2> QED BY <1>1, <1>2, <1>3, <2>1, <2>2 DEF World, Lots
<1>9. ASSUME ~crossed' PROVE Steady'
  <2>1. Steady BY <1>2, <1>9 DEF World, Typed
  <2>2. \A p \in Orders : ~Out(p) BY <1>2, <1>9 DEF Leaving, Out
  <2>3. CallSales' = {n} BY <1>1, <1>2, <1>3 DEF CallSales
  <2>4. Apart' /\ OneSale' BY <1>1, <1>2, <1>4, <2>2, <2>3 DEF Apart, OneSale, Out
  <2>5. held.calls \subseteq Range(book.calls) BY <1>2, <2>1 DEF Steady, Known
  <2>6. Known' BY <1>2, <2>5 DEF Known
  <2>7. NoGhost' BY <1>1, <1>2, <1>3, <2>1 DEF Steady, NoGhost
  <2>8. \A p \in Orders : order[p].kind # "open" => ~IsAlive(p) /\ ~Unbooked(p) BY <2>2 DEF Out, Unbooked
  <2>9. Gone' /\ SellsBare' /\ Whole' /\ Entire' /\ First' /\ OneAtATime'
    BY <1>1, <1>4, <1>5, <2>8 DEF Gone, SellsBare, Whole, Entire, First, OneAtATime, Buys, Live
  <2>10. Covered' /\ Distinct' BY <1>2, <2>1 DEF Steady, Covered, Distinct
  <2>11. Fresh' BY <1>1, <1>2, <2>3 DEF Fresh
  <2>12. Room'
    <3>1. held.lots = book.lots
      <4>1. held.lots = 0 => FALSE
        <5>1. book.lots > 0 BY <1>2, <1>3
        <5>2. ~\E p \in pending \union lost : Sells(p) /\ order[p].status = "filled"
          BY <1>3, <2>2 DEF Out, Sells
        <5> QED BY <5>1, <5>2, <1>3 DEF World, Lots
      <4> QED BY <1>3, <4>1 DEF World, Lots
    <3>2. Cardinality(held.calls) <= Len(book.calls) /\ Cardinality(held.calls) \in Nat
      <4> DEFINE b == book.calls
      <4>1. b \in Seq(Calls) /\ Len(b) \in Nat /\ DOMAIN b = 1..Len(b) BY <1>3
      <4> HIDE DEF b
      <4>2. b \in Surjection(1..Len(b), Range(b)) BY <4>1 DEF Surjection, Range
      <4>3. IsFiniteSet(1..Len(b)) /\ Cardinality(1..Len(b)) = Len(b) BY <4>1, FS_Interval
      <4>4. IsFiniteSet(Range(b)) /\ Cardinality(Range(b)) <= Len(b) BY <4>2, <4>3, FS_Surjection
      <4>5. IsFiniteSet(held.calls) /\ Cardinality(held.calls) <= Cardinality(Range(b))
        BY <2>5, <4>4, FS_Subset DEF b
      <4>6. Cardinality(held.calls) \in Nat /\ Cardinality(Range(b)) \in Nat BY <4>4, <4>5, FS_CardinalityType
      <4> QED BY <4>1, <4>4, <4>5, <4>6 DEF b
    <3>3. Cardinality(held.calls) < held.lots BY <1>2, <1>3, <3>1, <3>2
    <3> QED BY <1>2, <3>3 DEF Room
  <2> QED BY <2>4, <2>6, <2>7, <2>9, <2>10, <2>11, <2>12 DEF Steady
<1> QED BY <1>6, <1>7, <1>8, <1>9 DEF World

(* The order a leg is sent as.                                             *)
LEMMA SentOrder ==
  ASSUME World, NEW e \in Exits, exit[e] \in Run, RunInv(e), Sent(exit[e]), NEW n, n = Len(order')
  PROVE  LET r == exit[e]  w == Wanted(r) IN
         /\ r.leg \in {"unwind", "close", "sell"} /\ r.pc = "place"
         /\ r.leg = "unwind" => OneForOne
         /\ r.leg = "sell" => book.lots > 0
         /\ r.leg = "close" => r.todo # << >> /\ r.todo \in Seq(Calls)
         /\ w.kind = r.leg /\ w.kind \in {"unwind", "close", "sell"} /\ w.calls \in SUBSET Calls /\ w.lots \in 0..MaxLots
         /\ w.lots = IF w.kind = "close" THEN 0 ELSE book.lots
         /\ w.kind = "unwind" => w.calls = Range(book.calls) /\ book.calls # << >> /\ book.lots = Len(book.calls)
         /\ w.kind = "sell" => w.calls = {} /\ book.lots > 0
         /\ w.kind = "close" => w.calls = {Head(r.todo)} /\ Head(r.todo) \in Calls
         /\ order' \in Seq(Order) /\ n \notin Orders /\ Orders' = Orders \union {n}
         /\ order'[n] = [kind |-> w.kind, calls |-> w.calls, lots |-> w.lots, status |-> "working"]
         /\ \A p \in Orders : order'[p] = order[p]
         /\ n \in Nat /\ n # 0
<1> DEFINE r == exit[e]  w == Wanted(r)
<1>1. /\ r.leg \in {"unwind", "close", "sell"} /\ r.pc = "place"
      /\ r.leg = "unwind" => OneForOne
      /\ r.leg = "sell" => book.lots > 0
      /\ r.leg = "close" => r.todo # << >> /\ r.todo \in Seq(Calls)
  BY DEF Sent, Run, RunInv, RunOK
<1>2. /\ held \in [calls : SUBSET Calls, lots : 0..MaxLots] /\ held.lots \in Nat /\ book.lots \in Nat
      /\ book.calls \in Seq(Calls) /\ book.lots \in 0..MaxLots /\ MaxLots \in Nat
      /\ pending \subseteq Orders /\ lost \subseteq Orders \ pending
  BY ExitAssumption DEF World, Typed
<1>3. /\ r.leg = "unwind" => w = [kind |-> "unwind", calls |-> Range(book.calls), lots |-> book.lots]
      /\ r.leg = "close" => w = [kind |-> "close", calls |-> {Head(r.todo)}, lots |-> 0]
      /\ r.leg = "sell" => w = [kind |-> "sell", calls |-> {}, lots |-> book.lots]
  BY DEF Wanted
<1>4. Enter(w.kind, w.calls, w.lots) BY DEF Sent
<1> HIDE DEF w
<1>5. /\ w.kind = r.leg /\ w.kind \in {"unwind", "close", "sell"} /\ w.calls \in SUBSET Calls /\ w.lots \in 0..MaxLots
      /\ w.lots = IF w.kind = "close" THEN 0 ELSE book.lots
      /\ w.kind = "unwind" => w.calls = Range(book.calls) /\ book.calls # << >> /\ book.lots = Len(book.calls)
      /\ w.kind = "sell" => w.calls = {} /\ book.lots > 0
      /\ w.kind = "close" => w.calls = {Head(r.todo)} /\ Head(r.todo) \in Calls
  <2>1. CASE r.leg = "unwind"
    <3>1. Range(book.calls) \in SUBSET Calls BY <1>2 DEF Range
    <3> QED BY <1>1, <1>2, <1>3, <2>1, <3>1 DEF OneForOne
  <2>2. CASE r.leg = "close"
    <3>1. Head(r.todo) \in Calls BY <1>1, <2>2
    <3> QED BY <1>2, <1>3, <2>2, <3>1
  <2>3. CASE r.leg = "sell" BY <1>1, <1>2, <1>3, <2>3
  <2> QED BY <1>1, <2>1, <2>2, <2>3
<1>6. /\ order' \in Seq(Order) /\ n \notin Orders /\ Orders' = Orders \union {n}
      /\ order'[n] = [kind |-> w.kind, calls |-> w.calls, lots |-> w.lots, status |-> "working"]
      /\ \A p \in Orders : order'[p] = order[p]
  <2>1. order \in Seq(Order) BY DEF World, Typed
  <2>2. w.kind \in {"unwind", "close", "sell", "open"} /\ w.calls \in SUBSET Calls /\ w.lots \in 0..MaxLots
    BY <1>5
  <2> DEFINE k == w.kind  c == w.calls  l == w.lots
  <2>3. k \in {"unwind", "close", "sell", "open"} /\ c \in SUBSET Calls /\ l \in 0..MaxLots /\ Enter(k, c, l)
    BY <1>4, <2>2
  <2> HIDE DEF k, c, l
  <2>4. /\ order' \in Seq(Order) /\ Len(order') \notin Orders
        /\ Orders' = Orders \union {Len(order')}
        /\ order'[Len(order')] = [kind |-> k, calls |-> c, lots |-> l, status |-> "working"]
        /\ \A p \in Orders : order'[p] = order[p]
    BY <2>1, <2>3, Entered
  <2> QED BY <2>4 DEF k, c, l
<1>7. n \in Nat /\ n # 0
  <2>1. Len(order) \in Nat /\ Orders = 1..Len(order) /\ n = Len(order) + 1
    BY <1>4 DEF World, Typed, Enter, Orders
  <2> QED BY <2>1
<1> QED BY <1>1, <1>5, <1>6, <1>7 DEF w

(* A leg is sent, and its answer arrives or is lost.                       *)
LEMMA SentWorld ==
  ASSUME World, NEW e \in Exits, exit[e] \in Run, RunInv(e), Sent(exit[e]),
         \/ pending' = pending \union {Len(order')} /\ lost' = lost
         \/ lost' = lost \union {Len(order')} /\ pending' = pending,
         UNCHANGED <<held, book, crossed>>
  PROVE  World'
<1>0. PICK n : n = Len(order') OBVIOUS
<1> DEFINE r == exit[e]  w == Wanted(r)
<1>2. /\ held \in [calls : SUBSET Calls, lots : 0..MaxLots] /\ held.lots \in Nat /\ book.lots \in Nat
      /\ book.calls \in Seq(Calls) /\ book.lots \in 0..MaxLots /\ MaxLots \in Nat
      /\ pending \subseteq Orders /\ lost \subseteq Orders \ pending
  BY ExitAssumption DEF World, Typed
<1>3. /\ /\ r.leg \in {"unwind", "close", "sell"} /\ r.pc = "place"
         /\ r.leg = "unwind" => OneForOne
         /\ r.leg = "sell" => book.lots > 0
         /\ r.leg = "close" => r.todo # << >> /\ r.todo \in Seq(Calls)
      /\ /\ w.kind = r.leg /\ w.kind \in {"unwind", "close", "sell"} /\ w.calls \in SUBSET Calls /\ w.lots \in 0..MaxLots
         /\ w.lots = IF w.kind = "close" THEN 0 ELSE book.lots
         /\ w.kind = "unwind" => w.calls = Range(book.calls) /\ book.calls # << >> /\ book.lots = Len(book.calls)
         /\ w.kind = "sell" => w.calls = {} /\ book.lots > 0
         /\ w.kind = "close" => w.calls = {Head(r.todo)} /\ Head(r.todo) \in Calls
      /\ /\ order' \in Seq(Order) /\ n \notin Orders /\ Orders' = Orders \union {n}
         /\ order'[n] = [kind |-> w.kind, calls |-> w.calls, lots |-> w.lots, status |-> "working"]
         /\ \A p \in Orders : order'[p] = order[p]
  BY <1>0, SentOrder
<1> HIDE DEF w
<1>7. /\ pending' \union lost' = pending \union lost \union {n} /\ pending \subseteq pending' /\ lost \subseteq lost'
      /\ pending' \subseteq pending \union {n} /\ lost' \subseteq lost \union {n}
      /\ lost' \subseteq Orders' \ pending' /\ pending' \subseteq Orders'
  BY <1>0, <1>2, <1>3
<1>8. \A p \in Orders : p # n /\ (IsAlive(p)' <=> IsAlive(p)) /\ (Unbooked(p)' <=> Unbooked(p))
                        /\ (Sells(p)' <=> Sells(p)) /\ (Buys(p)' <=> Buys(p)) /\ (Out(p)' <=> Out(p))
  BY <1>3, <1>7 DEF IsAlive, Unbooked, Sells, Buys, Out
<1>9. IsAlive(n)' /\ ~Unbooked(n)' BY <1>3 DEF IsAlive, Alive, Unbooked
<1>10. Typed' BY <1>3, <1>7 DEF World, Typed
<1>11. Orderly'
  <2>1. \A p \in Orders : /\ (Shaped(order[p]))' /\ (IsAlive(p)' => p \in pending' \union lost')
                          /\ order'[p].kind = "open" => p \notin lost'
    BY <1>3, <1>7, <1>8 DEF World, Orderly, Shaped
  <2>2. (Shaped(order[n]))'
    <3>1. w.kind = "unwind" => w.calls # {} /\ book.lots > 0
      <4> SUFFICES ASSUME w.kind = "unwind" PROVE w.calls # {} /\ book.lots > 0 OBVIOUS
      <4>1. book.calls # << >> /\ w.calls = Range(book.calls) /\ book.lots = Len(book.calls) BY <1>3
      <4>2. Len(book.calls) > 0 /\ 1 \in DOMAIN book.calls BY <1>2, <4>1
      <4> QED BY <4>1, <4>2 DEF Range
    <3> QED BY <1>3, <3>1 DEF Shaped
  <2> QED BY <1>3, <1>7, <2>1, <2>2 DEF Orderly
<1>12. Lots'
  <2>1. order'[n].status # "filled" /\ (Sells(n)' => order'[n].lots = book.lots) BY <1>3 DEF Sells
  <2> QED BY <1>2, <1>3, <1>7, <1>8, <2>1 DEF World, Lots
<1>13. ASSUME ~crossed PROVE Steady'
  <2>1. Steady BY <1>13 DEF World
  <2>2. CallSales = {} /\ RunSteady(r) BY <1>3, <1>13 DEF RunInv, RunSteady
  <2>3. CallSales' = {}
    <3>1. order'[n].kind # "open" BY <1>3
    <3>2. \A p \in Orders : order'[p].kind = order[p].kind BY <1>3
    <3>3. pending' \subseteq pending \union {n} /\ pending \subseteq Orders BY <1>2, <1>7
    <3> QED BY <2>2, <3>1, <3>2, <3>3 DEF CallSales
  <2>4. Apart' /\ OneSale' /\ Fresh' BY <2>3 DEF Apart, OneSale, Fresh
  <2>5. held.calls \subseteq Range(book.calls) BY <2>1, <2>2 DEF Steady, Known
  <2>6. Known' BY <2>5 DEF Known
  <2>7. NoGhost' BY <1>2, <1>3, <1>7, <2>1 DEF Steady, NoGhost
  <2>8. Gone' BY <1>3, <1>8, <1>9, <2>1 DEF Steady, Gone
  <2>9. SellsBare' BY <1>3, <1>8, <2>1, <2>2 DEF Steady, SellsBare, RunSteady
  <2>10. Whole' BY <1>3, <1>8, <1>9, <2>1, <2>5 DEF Steady, Whole
  <2>11. Entire' BY <1>3, <1>8, <1>9, <2>1 DEF Steady, Entire, Live
  <2>12. Covered' /\ Distinct' BY <2>1 DEF Steady, Covered, Distinct
  <2>13. Room' BY <1>3, <1>8, <2>1 DEF Steady, Room
  <2>14. OneAtATime' BY <1>3, <1>8, <1>9, <2>1 DEF Steady, OneAtATime
  <2>15. First'
    <3>1. w.kind = "close" /\ w.calls \subseteq held.calls => book.calls # << >> /\ w.calls = {Head(book.calls)}
      BY <1>3, <2>2 DEF RunSteady
    <3> QED BY <1>3, <1>8, <1>9, <2>1, <3>1 DEF Steady, First, Live
  <2> QED BY <2>4, <2>6, <2>7, <2>8, <2>9, <2>10, <2>11, <2>12, <2>13, <2>14, <2>15 DEF Steady
<1> QED BY <1>10, <1>11, <1>12, <1>13 DEF World

(* A run that does not move keeps what it knows of its orders.             *)
LEMMA RunOKKept ==
  ASSUME NEW e \in Exits, exit[e] \in Run, RunOK(exit[e]), exit'[e] = exit[e],
         Orders \subseteq Orders',
         \A p \in Orders : /\ order'[p].kind = order[p].kind /\ order'[p].calls = order[p].calls
                           /\ IsAlive(p)' => IsAlive(p)
                           /\ p \in lost' <=> p \in lost
  PROVE  RunOK(exit[e])'
<1> DEFINE r == exit[e]
<1>1. Waits(r) => order'[r.order].kind = order[r.order].kind /\ order'[r.order].calls = order[r.order].calls
                  /\ r.order \in Orders' \ lost'
  BY DEF RunOK
<1>2. r.leg \in {"close", "sell"} /\ r.ticket # 0 => r.ticket \in Orders' /\ (~IsAlive(r.ticket)' \/ r.ticket \in lost')
  BY DEF RunOK
<1> QED BY <1>1, <1>2 DEF RunOK, Waits

(* A run that does not move keeps its part when an order dies, ...         *)
LEMMA RunKeptDying ==
  ASSUME World, NEW o \in Orders, IsAlive(o), NEW x \in {"canceling", "dead"},
         order' = [order EXCEPT ![o].status = x],
         UNCHANGED <<held, book, pending, lost, crossed>>,
         NEW e \in Exits, exit[e] \in Run, RunInv(e), exit'[e] = exit[e]
  PROVE  RunInv(e)'
<1>1. /\ Orders' = Orders /\ order'[o].status = x
      /\ \A p \in Orders : /\ p # o => order'[p] = order[p]
                           /\ order'[p].kind = order[p].kind /\ order'[p].calls = order[p].calls
  BY Restatused DEF World, Typed
<1>2. \A p \in Orders : (IsAlive(p)' => IsAlive(p)) /\ (Unbooked(p)' <=> Unbooked(p))
  BY <1>1 DEF IsAlive, Alive, Unbooked
<1>3. RunOK(exit[e])' BY <1>1, <1>2, RunOKKept DEF RunInv
<1>4. ASSUME ~crossed PROVE RunSteady(exit[e])'
  <2>1. pending \subseteq Orders BY DEF World, Typed
  <2>2. CallSales' = CallSales BY <1>1, <2>1 DEF CallSales
  <2>3. exit[e].pc = "wait" => exit[e].order \in Orders BY DEF RunInv, RunOK, Waits
  <2> QED BY <1>2, <1>4, <2>2, <2>3 DEF RunInv, RunSteady
<1> QED BY <1>3, <1>4 DEF RunInv

(* ... is filled, ...                                                      *)
LEMMA RunKeptFill ==
  ASSUME World, NEW o \in Orders, BrokerFills(o),
         NEW e \in Exits, exit[e] \in Run, RunInv(e)
  PROVE  RunInv(e)'
<1>1. /\ Orders' = Orders /\ order'[o].status = "filled"
      /\ \A p \in Orders : /\ p # o => order'[p] = order[p]
                           /\ order'[p].kind = order[p].kind /\ order'[p].calls = order[p].calls
  BY Restatused DEF World, Typed, BrokerFills
<1>2. UNCHANGED <<book, pending, lost, exit, crossed>> /\ IsAlive(o) BY DEF BrokerFills
<1>3. \A p \in Orders : (IsAlive(p)' => IsAlive(p)) /\ (p # o => (Unbooked(p)' <=> Unbooked(p)))
  BY <1>1, <1>2 DEF IsAlive, Alive, Unbooked
<1>4. exit'[e] = exit[e] /\ lost' = lost BY <1>2
<1>5. RunOK(exit[e])' BY <1>1, <1>3, <1>4, RunOKKept DEF RunInv
<1>6. ASSUME ~crossed PROVE RunSteady(exit[e])'
  <2> DEFINE r == exit[e]
  <2>1. pending \subseteq Orders BY DEF World, Typed
  <2>2. CallSales' = CallSales BY <1>1, <1>2, <2>1 DEF CallSales
  <2>3. RunSteady(r) /\ RunOK(r) BY <1>6 DEF RunInv
  <2>4. CASE r.pc = "idle" BY <1>4, <2>3, <2>4 DEF RunSteady, RunOK
  <2>5. CASE r.pc # "idle"
    <3>1. CallSales = {} BY <2>3, <2>5 DEF RunSteady
    <3>2. order[o].kind # "open" BY <1>2, <3>1 DEF World, Orderly, CallSales
    <3>3. held'.calls = held.calls \ order[o].calls /\ order[o].calls \subseteq held.calls
      BY <3>2 DEF BrokerFills
    <3>4. r.pc = "wait" => r.order \in Orders /\ (r.leg = "close" => order[r.order].calls = {Head(r.todo)})
      BY <2>3 DEF RunOK, Waits
    <3>5. r.leg = "close" /\ r.pc = "wait" /\ Unbooked(r.order)' => Unbooked(r.order) \/ Head(r.todo) \in held.calls
      <4>1. CASE r.order = o BY <3>3, <3>4, <4>1
      <4>2. CASE r.order # o BY <1>3, <1>4, <3>4, <4>2
      <4> QED BY <4>1, <4>2
    <3>6. r.leg = "close" => /\ held'.calls \subseteq Range(r.todo)
                             /\ (Head(r.todo) \in held'.calls \/ (r.pc = "wait" /\ Unbooked(r.order)')) => r.todo = book.calls
      BY <1>4, <2>3, <3>3, <3>5 DEF RunSteady
    <3>7. r.leg = "sell" => held'.calls = {} BY <2>3, <3>3 DEF RunSteady
    <3> QED BY <1>2, <1>4, <2>2, <3>1, <3>6, <3>7 DEF RunSteady
  <2> QED BY <2>4, <2>5
<1> QED BY <1>2, <1>5, <1>6 DEF RunInv

(* ... is booked, ...                                                      *)
LEMMA RunKeptStatus ==
  ASSUME World, NEW o \in Orders, order_status(o), UNCHANGED <<held, order, lost, crossed>>,
         NEW e \in Exits, exit[e] \in Run, RunInv(e), exit'[e] = exit[e]
  PROVE  RunInv(e)'
<1> DEFINE r == exit[e]
<1>1. Orders' = Orders /\ \A p \in Orders : IsAlive(p)' <=> IsAlive(p) BY DEF Orders, IsAlive
<1>2. RunOK(exit[e])' BY <1>1, RunOKKept DEF RunInv
<1>3. ASSUME ~crossed PROVE RunSteady(exit[e])'
  <2>1. RunSteady(r) /\ RunOK(r) /\ Steady BY <1>3 DEF RunInv, World
  <2>2. CASE r.pc = "idle" BY <2>1, <2>2 DEF RunSteady, RunOK
  <2>3. CASE r.pc # "idle"
    <3>1. CallSales = {} /\ pending' \subseteq pending BY <2>1, <2>3 DEF RunSteady, order_status
    <3>2. CallSales' = {} BY <3>1 DEF CallSales
    <3>3. \A p \in Orders : Unbooked(p)' => Unbooked(p) BY <3>1 DEF Unbooked
    <3>4. r.pc = "wait" => r.order \in Orders /\ order[r.order].kind = r.leg /\ (r.leg = "close" => order[r.order].calls = {Head(r.todo)})
      BY <2>1 DEF RunOK, Waits
    <3>5. CASE ~Unbooked(o)
      <4>1. book' = book BY <3>5 DEF order_status, Unbooked
      <4>2. r.leg = "close" /\ r.pc = "wait" /\ Unbooked(r.order)' => Unbooked(r.order) BY <3>3, <3>4
      <4> QED BY <2>1, <3>2, <4>1, <4>2 DEF RunSteady
    <3>6. CASE Unbooked(o)
      <4>1. book' = Booked(o) /\ pending' = pending \ {o} BY <3>6 DEF order_status, Unbooked, IsAlive, Alive
      <4>2. \A p \in Orders : Unbooked(p)' <=> Unbooked(p) /\ p # o BY <4>1 DEF Unbooked
      <4>3. order[o].kind # "open" BY <3>1, <3>6 DEF CallSales, Unbooked
      <4>4. order[o].calls \intersect held.calls = {} BY <2>1, <3>6, <4>3 DEF Steady, Gone
      <4>5. order[o].kind \in {"close", "sell", "unwind"}
        <5>1. order[o] \in Order BY DEF World, Typed, Orders
        <5> QED BY <4>3, <5>1 DEF Order
      <4>6. CASE order[o].kind = "sell"
        <5>1. book'.calls = book.calls BY <1>3, <3>6, <4>1, <4>6, BookedCalls
        <5>2. r.leg = "close" /\ r.pc = "wait" /\ Unbooked(r.order)' => Unbooked(r.order) BY <3>3, <3>4
        <5> QED BY <2>1, <3>2, <5>1, <5>2 DEF RunSteady
      <4>7. CASE Buys(o)
        <5>1. r.leg = "close" /\ r.pc = "wait" => ~Unbooked(r.order)'
          BY <2>1, <3>4, <3>6, <4>2, <4>7 DEF Steady, OneAtATime, Buys
        <5>2. r.leg = "close" => Head(r.todo) \notin held.calls
          <6> SUFFICES ASSUME r.leg = "close", Head(r.todo) \in held.calls PROVE FALSE OBVIOUS
          <6>1. r.todo = book.calls BY <2>1 DEF RunSteady
          <6>2. order[o].kind = "close" => order[o].calls = {Head(book.calls)} BY <1>3, <3>6, BookedCalls
          <6>3. order[o].kind = "unwind" => held.calls = {} BY <2>1, <3>6 DEF Steady, Whole
          <6> QED BY <4>4, <4>7, <6>1, <6>2, <6>3 DEF Buys
        <5> QED BY <2>1, <3>2, <5>1, <5>2 DEF RunSteady
      <4> QED BY <4>5, <4>6, <4>7 DEF Buys
    <3> QED BY <3>5, <3>6
  <2> QED BY <2>2, <2>3
<1> QED BY <1>2, <1>3 DEF RunInv

(* ... or is sent.                                                         *)
LEMMA RunKeptSent ==
  ASSUME World, NEW n, n \notin Orders, Orders' = Orders \union {n}, \A p \in Orders : order'[p] = order[p],
         pending' \subseteq pending \union {n}, pending \subseteq pending', lost' \subseteq lost \union {n}, lost \subseteq lost',
         UNCHANGED <<held, book>>,
         \/ UNCHANGED crossed /\ order'[n].kind # "open"
         \/ crossed' = (crossed \/ Leaving) /\ UNCHANGED exit,
         NEW e \in Exits, exit[e] \in Run, RunInv(e), exit'[e] = exit[e]
  PROVE  RunInv(e)'
<1> DEFINE r == exit[e]
<1>1. \A p \in Orders : p # n /\ (IsAlive(p)' <=> IsAlive(p)) /\ (Unbooked(p)' <=> Unbooked(p)) /\ (p \in lost' <=> p \in lost)
  BY DEF IsAlive, Unbooked
<1>2. RunOK(exit[e])' BY <1>1, RunOKKept DEF RunInv
<1>3. ASSUME ~crossed' PROVE RunSteady(exit[e])'
  <2>1. ~crossed /\ RunSteady(r) /\ RunOK(r) BY <1>3 DEF RunInv, World, Typed
  <2>2. CASE r.pc = "idle" BY <2>1, <2>2 DEF RunSteady, RunOK
  <2>3. CASE r.pc # "idle"
    <3>1. UNCHANGED crossed /\ order'[n].kind # "open" BY <1>3, <2>3 DEF Leaving
    <3>2. CallSales = {} /\ pending \subseteq Orders BY <2>1, <2>3 DEF RunSteady, World, Typed
    <3>3. CallSales' = {} BY <3>1, <3>2 DEF CallSales
    <3>4. r.pc = "wait" => r.order \in Orders BY <2>1 DEF RunOK, Waits
    <3> QED BY <1>1, <2>1, <3>3, <3>4 DEF RunSteady
  <2> QED BY <2>2, <2>3
<1> QED BY <1>2, <1>3 DEF RunInv

(* The fields of a run that turns to its next leg ...                      *)
LEMMA LegsIs ==
  ASSUME NEW r \in Run, NEW todo \in Seq(Calls)
  PROVE  /\ Legs(r, todo) \in Run
         /\ Legs(r, todo).pc = "place" /\ Legs(r, todo).leg = (IF todo # << >> THEN "close" ELSE "sell")
         /\ Legs(r, todo).todo = todo /\ Legs(r, todo).read = r.read /\ Legs(r, todo).order = 0
         /\ Legs(r, todo).ticket = r.ticket /\ Legs(r, todo).said = r.said
<1>1. (IF todo # << >> THEN "close" ELSE "sell") \in {"none", "unwind", "close", "sell"} OBVIOUS
<1> DEFINE leg == IF todo # << >> THEN "close" ELSE "sell"
<1>2. Legs(r, todo) = [r EXCEPT !.pc = "place", !.todo = todo, !.order = 0, !.leg = leg] BY DEF Legs
<1>3. leg \in {"none", "unwind", "close", "sell"} BY <1>1
<1> HIDE DEF leg
<1> DEFINE a == [r EXCEPT !.pc = "place"]  b == [a EXCEPT !.todo = todo]
           c == [b EXCEPT !.order = 0]  d == [c EXCEPT !.leg = leg]
<1>4. Legs(r, todo) \in Run
  <2>1. a \in Run BY DEF Run
  <2> HIDE DEF a
  <2>2. b \in Run BY <2>1 DEF Run
  <2> HIDE DEF b
  <2>3. c \in Run BY <2>2 DEF Run
  <2> HIDE DEF c
  <2>4. d \in Run BY <1>3, <2>3 DEF Run
  <2>5. Legs(r, todo) = d BY <1>2 DEF a, b, c
  <2> HIDE DEF d
  <2> QED BY <2>4, <2>5
<1>5. /\ Legs(r, todo).pc = "place" /\ Legs(r, todo).leg = leg
      /\ Legs(r, todo).todo = todo /\ Legs(r, todo).read = r.read /\ Legs(r, todo).order = 0
      /\ Legs(r, todo).ticket = r.ticket /\ Legs(r, todo).said = r.said
  BY <1>2 DEF Run
<1> QED BY <1>4, <1>5 DEF leg

(* ... and of one at rest.                                                 *)
LEMMA RestingIs ==
  /\ Resting \in Run /\ Resting.pc = "idle" /\ Resting.leg = "none" /\ Resting.ticket = 0 /\ Resting.said = "none"
<1>1. << >> \in Seq(Calls) OBVIOUS
<1> QED BY <1>1 DEF Resting, Run

(* A run that ends knows nothing.                                          *)
LEMMA Ended ==
  ASSUME NEW e \in Exits, NEW r, NEW said \in {"covered", "uncovered", "ok", "raised"},
         exit'[e] = Ends(r, said)
  PROVE  exit'[e] \in Run /\ RunInv(e)' /\ exit'[e].said = said
<1>1. Ends(r, said) = [Resting EXCEPT !.said = said] BY DEF Ends
<1>2. Ends(r, said) \in Run /\ Ends(r, said).pc = "idle" /\ Ends(r, said).leg = "none" /\ Ends(r, said).ticket = 0 /\ Ends(r, said).said = said
  BY <1>1, RestingIs DEF Run
<1>3. RunOK(exit[e])' BY <1>2 DEF RunOK, Waits
<1>4. RunSteady(exit[e])' BY <1>2 DEF RunSteady
<1> QED BY <1>2, <1>3, <1>4 DEF RunInv

(* The position is read, and its legs are to be taken one by one.          *)
LEMMA LegsRead ==
  ASSUME World', NEW e \in Exits, NEW t \in Nat,
         exit'[e].pc = "place", exit'[e].leg = (IF book'.calls # << >> THEN "close" ELSE "sell"), exit'[e].todo = book'.calls,
         exit'[e].ticket = t, exit'[e].said = "none",
         t # 0 => t \in Orders' /\ (~IsAlive(t)' \/ t \in lost'),
         ~crossed' => CallSales' = {}
  PROVE  RunInv(e)'
<1>3. RunOK(exit[e])' BY DEF RunOK, Waits
<1>4. ASSUME ~crossed' PROVE RunSteady(exit[e])'
  <2>1. CallSales' = {} BY <1>4
  <2>2. held'.calls \subseteq Range(book'.calls)
    <3>1. Known' BY <1>4 DEF World, Steady
    <3> QED BY <2>1, <3>1 DEF Known
  <2>3. book'.calls = << >> => held'.calls = {}
    <3>1. book'.calls = << >> => Range(book'.calls) = {} BY DEF Range
    <3> QED BY <2>2, <3>1
  <2> QED BY <2>1, <2>2, <2>3 DEF RunSteady
<1> QED BY <1>3, <1>4 DEF RunInv

(* A step of one run moves that run only.                                  *)
LEMMA Moved ==
  ASSUME exit \in [Exits -> Run], NEW e \in Exits, NEW r, Now(e, r)
  PROVE  exit'[e] = r /\ \A f \in Exits : f # e => exit'[f] = exit[f]
BY DEF Now

(* The parts make the invariant.                                           *)
LEMMA Together ==
  ASSUME IInv, World', NEW e \in Exits, NEW r, Now(e, r), exit'[e] \in Run, RunInv(e)',
         \A f \in Exits : f # e => RunInv(f)'
  PROVE  IInv'
<1>1. exit' \in [Exits -> Run] BY DEF IInv, Now
<1> QED BY <1>1 DEF IInv

(* A step that only moves one run leaves the others what they know.        *)
LEMMA OthersKept ==
  ASSUME IInv, UNCHANGED <<held, order, book, pending, lost>>, ~crossed' => ~crossed,
         NEW f \in Exits, exit'[f] = exit[f]
  PROVE  RunInv(f)'
<1>1. /\ Orders' = Orders /\ CallSales' = CallSales
      /\ \A p : (IsAlive(p)' <=> IsAlive(p)) /\ (Unbooked(p)' <=> Unbooked(p))
  BY DEF Orders, CallSales, IsAlive, Unbooked
<1>2. RunInv(f) /\ exit[f] \in Run BY DEF IInv
<1>3. RunOK(exit[f])' BY <1>1, <1>2, RunOKKept DEF RunInv
<1>4. ASSUME ~crossed' PROVE RunSteady(exit[f])' BY <1>1, <1>2, <1>4 DEF RunInv, RunSteady
<1> QED BY <1>3, <1>4 DEF RunInv

(* The orders, the book and the account keep their part.                   *)
LEMMA WorldKept ==
  ASSUME World, UNCHANGED <<held, order, book, pending, lost>>, crossed' \in BOOLEAN, ~crossed' => ~crossed
  PROVE  World'
<1>1. Typed' /\ Orderly' /\ Lots'
  BY DEF World, Typed, Orderly, Orders, IsAlive, Lots, Sells
<1>2. ASSUME ~crossed' PROVE Steady'
  <2>1. Steady BY <1>2 DEF World
  <2>2. /\ Orders' = Orders /\ CallSales' = CallSales
        /\ \A p : (IsAlive(p)' <=> IsAlive(p)) /\ (Unbooked(p)' <=> Unbooked(p)) /\ (Buys(p)' <=> Buys(p)) /\ (Out(p)' <=> Out(p))
    BY DEF Orders, CallSales, IsAlive, Unbooked, Buys, Out
  <2> USE <2>1, <2>2
  <2>3. Apart' /\ OneSale' BY DEF Steady, Apart, OneSale
  <2>4. Known' /\ NoGhost' BY DEF Steady, Known, NoGhost
  <2>5. Gone' /\ SellsBare' /\ Whole' BY DEF Steady, Gone, SellsBare, Whole
  <2>6. Entire' /\ Room' /\ Covered' BY DEF Steady, Entire, Room, Covered, Live
  <2>7. First' /\ OneAtATime' BY DEF Steady, First, OneAtATime, Live
  <2>8. Distinct' /\ Fresh' BY DEF Steady, Distinct, Fresh
  <2> QED BY <2>3, <2>4, <2>5, <2>6, <2>7, <2>8 DEF Steady
<1> QED BY <1>1, <1>2 DEF World

(* The steps, one lemma each.                                              *)
LEMMA BeginStep ==
  ASSUME IInv, NEW e \in Exits, Begin(e)
  PROVE  IInv'
<1>1. exit \in [Exits -> Run] /\ World /\ crossed \in BOOLEAN BY DEF IInv, World, Typed
<1>2. UNCHANGED <<held, order, book, pending, lost>> /\ crossed' = (crossed \/ CallSales # {}) BY DEF Begin
<1>3. crossed' \in BOOLEAN /\ (~crossed' => ~crossed /\ CallSales = {}) BY <1>1, <1>2
<1>4. World' BY <1>1, <1>2, <1>3, WorldKept
<1>5. CallSales' = CallSales BY <1>2 DEF CallSales
<1> DEFINE run == [Resting EXCEPT !.pc = "place", !.read = Range(book.calls)]
<1>6. book.calls \in Seq(Calls) /\ Range(book.calls) \in SUBSET Calls
  <2>1. book.calls \in Seq(Calls) BY <1>1 DEF World, Typed
  <2> QED BY <2>1 DEF Range
<1>8. run \in Run /\ run.pc = "place" /\ run.leg = "none" /\ run.ticket = 0 /\ run.said = "none"
  BY <1>6, RestingIs DEF Run
<1>9. PICK r : Now(e, r) /\ (r = [run EXCEPT !.leg = "unwind"] \/ r = Legs(run, book.calls)) BY DEF Begin
<1> HIDE DEF run
<1>10. exit'[e] = r /\ \A f \in Exits : f # e => exit'[f] = exit[f] BY <1>1, <1>9, Moved
<1>11. exit'[e] \in Run /\ RunInv(e)'
  <2>1. CASE r = [run EXCEPT !.leg = "unwind"]
    <3>1. r \in Run /\ r.pc = "place" /\ r.leg = "unwind" /\ r.ticket = 0 /\ r.said = "none"
      BY <1>8, <2>1 DEF Run
    <3>2. RunOK(exit[e])' BY <1>10, <3>1 DEF RunOK, Waits
    <3>3. ~crossed' => RunSteady(exit[e])' BY <1>3, <1>5, <1>10, <3>1 DEF RunSteady
    <3> QED BY <1>10, <3>1, <3>2, <3>3 DEF RunInv
  <2>2. CASE r = Legs(run, book.calls)
    <3>1. /\ r \in Run /\ r.pc = "place" /\ r.leg = (IF book.calls # << >> THEN "close" ELSE "sell") /\ r.todo = book.calls
          /\ r.ticket = 0 /\ r.said = "none"
      BY <1>6, <1>8, <2>2, LegsIs
    <3>2. RunInv(e)' BY <1>2, <1>3, <1>4, <1>5, <1>10, <3>1, LegsRead
    <3> QED BY <1>10, <3>1, <3>2
  <2> QED BY <1>9, <2>1, <2>2
<1>12. \A f \in Exits : f # e => RunInv(f)' BY <1>2, <1>3, <1>10, OthersKept
<1> QED BY <1>4, <1>9, <1>11, <1>12, Together

(* Reading the position again after a ticket.                              *)
LEMMA FallsThrough ==
  ASSUME World, NEW r \in Run
  PROVE  /\ FallThrough(r) \in Run /\ FallThrough(r).pc = "place"
         /\ FallThrough(r).leg = (IF book.calls # << >> THEN "close" ELSE "sell")
         /\ FallThrough(r).todo = book.calls /\ FallThrough(r).ticket = r.ticket /\ FallThrough(r).said = r.said
<1> DEFINE q == [r EXCEPT !.read = Range(book.calls)]
<1>1. book.calls \in Seq(Calls) BY DEF World, Typed
<1>2. Range(book.calls) \in SUBSET Calls BY <1>1 DEF Range
<1>3. q \in Run /\ q.ticket = r.ticket /\ q.said = r.said BY <1>2 DEF Run
<1>4. FallThrough(r) = Legs(q, book.calls) BY DEF FallThrough
<1> HIDE DEF q
<1> QED BY <1>1, <1>3, <1>4, LegsIs

(* A leg failed, and the book, the orders and the ticket are what they were.*)
LEMMA FailedRun ==
  ASSUME World', book' = book, World, NEW e \in Exits, NEW r \in Run, exit'[e] = Failed(r), r.pc # "idle", r.said = "none",
         r.leg = "unwind" /\ r.ticket # 0 => r.ticket \in Orders' /\ (~IsAlive(r.ticket)' \/ r.ticket \in lost'),
         ~crossed' => CallSales' = {}
  PROVE  exit'[e] \in Run /\ RunInv(e)'
<1>1. CASE r.leg = "unwind"
  <2>1. exit'[e] = FallThrough(r) BY <1>1 DEF Failed
  <2>2. r.ticket \in Nat BY DEF Run
  <2> DEFINE t == r.ticket
  <2>3. t \in Nat /\ (t # 0 => t \in Orders' /\ (~IsAlive(t)' \/ t \in lost')) BY <1>1, <2>2
  <2>4. /\ exit'[e] \in Run /\ exit'[e].pc = "place" /\ exit'[e].leg = (IF book'.calls # << >> THEN "close" ELSE "sell")
        /\ exit'[e].todo = book'.calls /\ exit'[e].ticket = t /\ exit'[e].said = "none"
    BY <2>1, FallsThrough
  <2> HIDE DEF t
  <2> QED BY <2>3, <2>4, LegsRead
<1>2. CASE r.leg # "unwind"
  <2> DEFINE said == IF r.leg = "sell" THEN "uncovered" ELSE "covered"
  <2>1. exit'[e] = Ends(r, said) BY <1>2 DEF Failed, Stopped
  <2>2. said \in {"covered", "uncovered", "ok", "raised"} OBVIOUS
  <2> HIDE DEF said
  <2> QED BY <2>1, <2>2, Ended
<1> QED BY <1>1, <1>2

(* An exit that stops.                                                     *)
LEMMA StoppedRun ==
  ASSUME NEW e \in Exits, NEW r, exit'[e] = Stopped(r)
  PROVE  exit'[e] \in Run /\ RunInv(e)'
<1> DEFINE said == IF r.leg = "sell" THEN "uncovered" ELSE "covered"
<1>1. exit'[e] = Ends(r, said) BY DEF Stopped
<1>2. said \in {"covered", "uncovered", "ok", "raised"} OBVIOUS
<1> HIDE DEF said
<1> QED BY <1>1, <1>2, Ended

(* Steps that only move the run.                                           *)
LEMMA OnlyRunStep ==
  ASSUME IInv, NEW e \in Exits, Refused(e) \/ NothingToSell(e) \/ PollRaises(e) \/ CancelRefused(e)
  PROVE  IInv'
<1> DEFINE r == exit[e]
<1>1. /\ exit \in [Exits -> Run] /\ World /\ crossed \in BOOLEAN /\ r \in Run /\ RunInv(e)
  BY DEF IInv, World, Typed
<1>2. UNCHANGED <<held, order, book, pending, lost, crossed>>
  BY DEF Refused, NothingToSell, PollRaises, CancelRefused
<1>3. World' BY <1>1, <1>2, WorldKept
<1>4. ASSUME NEW new, Now(e, new), exit'[e] \in Run /\ RunInv(e)' PROVE IInv'
  <2>1. \A f \in Exits : f # e => exit'[f] = exit[f] BY <1>1, <1>4, Moved
  <2>2. \A f \in Exits : f # e => RunInv(f)' BY <1>2, <2>1, OthersKept
  <2> QED BY <1>3, <1>4, <2>2, Together
<1>5. CASE Refused(e)
  <2>1. Now(e, Failed(r)) /\ r.pc = "place" BY <1>5 DEF Refused
  <2>2. exit'[e] = Failed(r) BY <1>1, <2>1, Moved
  <2>3. r.said = "none" /\ (r.leg = "unwind" => r.ticket = 0) BY <1>1, <2>1 DEF RunInv, RunOK
  <2>4. ~crossed' => CallSales' = {}
    <3>1. CallSales' = CallSales BY <1>2 DEF CallSales
    <3> QED BY <1>1, <1>2, <2>1, <3>1 DEF RunInv, RunSteady
  <2>5. exit'[e] \in Run /\ RunInv(e)' BY <1>1, <1>2, <1>3, <2>1, <2>2, <2>3, <2>4, FailedRun
  <2> QED BY <1>4, <2>1, <2>5
<1>6. CASE NothingToSell(e)
  <2>1. Now(e, Ends(r, "ok")) BY <1>6 DEF NothingToSell
  <2>2. exit'[e] = Ends(r, "ok") BY <1>1, <2>1, Moved
  <2> QED BY <1>4, <2>1, <2>2, Ended
<1>7. CASE PollRaises(e)
  <2>1. Now(e, Ends(r, "raised")) BY <1>7 DEF PollRaises
  <2>2. exit'[e] = Ends(r, "raised") BY <1>1, <2>1, Moved
  <2> QED BY <1>4, <2>1, <2>2, Ended
<1>8. CASE CancelRefused(e)
  <2>1. Now(e, Stopped(r)) BY <1>8 DEF CancelRefused
  <2>2. exit'[e] = Stopped(r) BY <1>1, <2>1, Moved
  <2> QED BY <1>4, <2>1, <2>2, StoppedRun
<1> QED BY <1>5, <1>6, <1>7, <1>8

(* The wait is over, and the cancel is sent.                               *)
LEMMA CancelSentStep ==
  ASSUME IInv, NEW e \in Exits, CancelSent(e)
  PROVE  IInv'
<1> DEFINE r == exit[e]  o == exit[e].order  new == [r EXCEPT !.pc = "confirm"]
<1>1. exit \in [Exits -> Run] /\ World /\ r \in Run /\ RunInv(e) BY DEF IInv
<1>2. /\ r.pc = "wait" /\ o \in pending /\ IsAlive(o) /\ order' = [order EXCEPT ![o].status = "canceling"]
      /\ Now(e, new) /\ UNCHANGED <<held, book, pending, lost, crossed>>
  BY DEF CancelSent
<1>3. o \in Orders BY <1>1, <1>2 DEF World, Typed
<1>4. PICK oo \in Orders : oo = o BY <1>3
<1>5. order' = [order EXCEPT ![oo].status = "canceling"] /\ IsAlive(oo) BY <1>2, <1>4
<1>6. World' BY <1>1, <1>2, <1>5, DeadOrDying
<1>7. exit'[e] = new /\ \A f \in Exits : f # e => exit'[f] = exit[f] BY <1>1, <1>2, Moved
<1>8. \A f \in Exits : f # e => RunInv(f)'
  <2> TAKE f \in Exits
  <2> HAVE f # e
  <2>1. exit[f] \in Run /\ RunInv(f) /\ exit'[f] = exit[f] BY <1>1, <1>7 DEF IInv
  <2> QED BY <1>1, <1>2, <1>5, <2>1, RunKeptDying
<1>9. new \in Run /\ new.pc = "confirm" /\ new.leg = r.leg /\ new.todo = r.todo /\ new.order = r.order /\ new.ticket = r.ticket /\ new.said = r.said
  BY <1>1 DEF Run
<1>10. /\ Orders' = Orders
       /\ \A p \in Orders : order'[p].kind = order[p].kind /\ order'[p].calls = order[p].calls
       /\ \A p \in Orders : IsAlive(p)' => IsAlive(p)
  <2>1. order \in Seq(Order) BY <1>1 DEF World, Typed
  <2>2. /\ Orders' = Orders /\ order'[oo].status = "canceling"
        /\ \A p \in Orders : /\ p # oo => order'[p] = order[p]
                           /\ order'[p].kind = order[p].kind /\ order'[p].calls = order[p].calls
    BY <1>5, <2>1, Restatused
  <2> QED BY <1>5, <2>2 DEF IsAlive
<1>11. RunOK(exit[e])'
  <2>1. RunOK(r) /\ Waits(r) BY <1>1, <1>2 DEF RunInv, Waits
  <2>2. r.leg # "none" /\ r.said = "none" /\ (r.leg = "close" => r.todo # << >>) /\ r.order \in Orders \ lost /\ order[r.order].kind = r.leg
        /\ (r.leg = "close" => order[r.order].calls = {Head(r.todo)})
        /\ (r.leg = "unwind" => r.ticket = r.order)
        /\ (r.leg \in {"close", "sell"} /\ r.ticket # 0 => r.ticket \in Orders /\ (~IsAlive(r.ticket) \/ r.ticket \in lost))
    BY <1>2, <2>1 DEF RunOK
  <2> HIDE DEF r, new
  <2> QED BY <1>2, <1>7, <1>9, <1>10, <2>2 DEF RunOK, Waits
<1>12. ASSUME ~crossed' PROVE RunSteady(exit[e])'
  <2>1. RunSteady(r) BY <1>1, <1>2, <1>12 DEF RunInv
  <2>2. CallSales' = CallSales BY <1>1, <1>2, <1>10 DEF CallSales, World, Typed
  <2> QED BY <1>2, <1>7, <1>9, <2>1, <2>2 DEF RunSteady
<1> QED BY <1>2, <1>6, <1>7, <1>8, <1>9, <1>11, <1>12, Together DEF RunInv

(* The broker moves.                                                       *)
LEMMA BrokerStepKeeps ==
  ASSUME IInv, NEW o \in Orders, BrokerFills(o) \/ BrokerKills(o)
  PROVE  IInv'
<1>1. exit \in [Exits -> Run] /\ World /\ \A f \in Exits : exit[f] \in Run /\ RunInv(f) BY DEF IInv
<1>2. exit' = exit BY DEF BrokerFills, BrokerKills
<1>3. CASE BrokerFills(o)
  <2>1. World' BY <1>1, <1>3, FillWorld
  <2>2. \A f \in Exits : RunInv(f)' BY <1>1, <1>3, RunKeptFill
  <2> QED BY <1>1, <1>2, <2>1, <2>2 DEF IInv
<1>4. CASE BrokerKills(o)
  <2>1. IsAlive(o) /\ order' = [order EXCEPT ![o].status = "dead"] /\ UNCHANGED <<held, book, pending, lost, crossed>>
    BY <1>4 DEF BrokerKills
  <2>2. World' BY <1>1, <2>1, DeadOrDying
  <2>3. \A f \in Exits : RunInv(f)' BY <1>1, <1>2, <2>1, RunKeptDying
  <2> QED BY <1>1, <1>2, <2>2, <2>3 DEF IInv
<1> QED BY <1>3, <1>4

(* The sweep polls or cancels.                                             *)
LEMMA SweepKeeps ==
  ASSUME IInv, NEW o \in Orders, settle_pending_orders(o) \/ cancel_stale_orders(o)
  PROVE  IInv'
<1>1. exit \in [Exits -> Run] /\ World /\ \A f \in Exits : exit[f] \in Run /\ RunInv(f) BY DEF IInv
<1>2. exit' = exit BY DEF settle_pending_orders, cancel_stale_orders
<1>3. CASE settle_pending_orders(o)
  <2>1. order_status(o) /\ UNCHANGED <<held, order, lost, crossed>> BY <1>3 DEF settle_pending_orders
  <2>2. World' BY <1>1, <2>1, StatusWorld
  <2>3. \A f \in Exits : RunInv(f)' BY <1>1, <1>2, <2>1, RunKeptStatus
  <2> QED BY <1>1, <1>2, <2>2, <2>3 DEF IInv
<1>4. CASE cancel_stale_orders(o)
  <2>1. IsAlive(o) /\ order' = [order EXCEPT ![o].status = "canceling"] /\ UNCHANGED <<held, book, pending, lost, crossed>>
    BY <1>4 DEF cancel_stale_orders, IsAlive, Alive
  <2>2. World' BY <1>1, <2>1, DeadOrDying
  <2>3. \A f \in Exits : RunInv(f)' BY <1>1, <1>2, <2>1, RunKeptDying
  <2> QED BY <1>1, <1>2, <2>2, <2>3 DEF IInv
<1> QED BY <1>3, <1>4

(* The operator sells a call.                                              *)
LEMMA SaleKeeps ==
  ASSUME IInv, NEW c \in Calls, _sell_short(c)
  PROVE  IInv'
<1>1. exit \in [Exits -> Run] /\ World /\ \A f \in Exits : exit[f] \in Run /\ RunInv(f) BY DEF IInv
<1>2. World' BY <1>1, SaleWorld
<1>3. PICK n : n = Len(order') OBVIOUS
<1>4. n \notin Orders /\ Orders' = Orders \union {n} /\ \A p \in Orders : order'[p] = order[p]
  <2>1. order \in Seq(Order) /\ 0 \in 0..MaxLots BY <1>1, ExitAssumption DEF World, Typed
  <2>2. Enter("open", {c}, 0) BY DEF _sell_short
  <2> QED BY <1>3, <2>1, <2>2, Entered
<1>5. /\ UNCHANGED <<held, book, lost, exit>> /\ pending' = pending \union {n} /\ crossed' = (crossed \/ Leaving)
  BY <1>3 DEF _sell_short
<1>6. \A f \in Exits : RunInv(f)' BY <1>1, <1>4, <1>5, RunKeptSent
<1> QED BY <1>1, <1>2, <1>5, <1>6 DEF IInv

(* A leg is sent and its answer arrives.                                   *)
LEMMA PlacedStep ==
  ASSUME IInv, NEW e \in Exits, Placed(e)
  PROVE  IInv'
<1> DEFINE r == exit[e]  w == Wanted(r)
<1>1. exit \in [Exits -> Run] /\ World /\ r \in Run /\ RunInv(e) BY DEF IInv
<1>2. PICK n : n = Len(order') OBVIOUS
<1>3. /\ Sent(r) /\ pending' = pending \union {n} /\ UNCHANGED <<held, book, lost, crossed>>
      /\ Now(e, [r EXCEPT !.pc = "wait", !.order = n, !.ticket = IF r.leg = "unwind" THEN n ELSE @])
  BY <1>2 DEF Placed
<1>4. /\ r.leg \in {"unwind", "close", "sell"} /\ r.pc = "place"
      /\ r.leg = "close" => r.todo # << >>
      /\ w.kind = r.leg /\ (w.kind = "close" => w.calls = {Head(r.todo)})
      /\ n \notin Orders /\ Orders' = Orders \union {n}
      /\ order'[n] = [kind |-> w.kind, calls |-> w.calls, lots |-> w.lots, status |-> "working"]
      /\ \A p \in Orders : order'[p] = order[p]
      /\ n \in Nat /\ n # 0
  BY <1>1, <1>2, <1>3, SentOrder
<1> HIDE DEF w
<1>5. World' BY <1>1, <1>2, <1>3, SentWorld
<1> DEFINE t == IF r.leg = "unwind" THEN n ELSE r.ticket
           new == [r EXCEPT !.pc = "wait", !.order = n, !.ticket = t]
<1>6. Now(e, new) BY <1>3
<1>7. t \in Nat BY <1>1, <1>4 DEF Run
<1>8. /\ new \in Run /\ new.pc = "wait" /\ new.order = n /\ new.ticket = t
      /\ new.leg = r.leg /\ new.todo = r.todo /\ new.said = r.said
  <2> HIDE DEF t
  <2> DEFINE a == [r EXCEPT !.pc = "wait"]  b == [a EXCEPT !.order = n]  c == [b EXCEPT !.ticket = t]
  <2>1. a \in Run BY <1>1 DEF Run
  <2>2. b \in Run BY <1>4, <2>1 DEF Run
  <2>3. c \in Run BY <1>7, <2>2 DEF Run
  <2>4. new = c OBVIOUS
  <2>5. /\ new.pc = "wait" /\ new.order = n /\ new.ticket = t
        /\ new.leg = r.leg /\ new.todo = r.todo /\ new.said = r.said
    BY <1>1 DEF Run
  <2> HIDE DEF new, c
  <2> QED BY <2>3, <2>4, <2>5
<1> HIDE DEF new
<1>9. exit'[e] = new /\ \A f \in Exits : f # e => exit'[f] = exit[f] BY <1>1, <1>6, Moved
<1>10. pending \subseteq Orders /\ lost \subseteq Orders \ pending BY <1>1 DEF World, Typed
<1>11. order'[n].kind = r.leg /\ order'[n].calls = w.calls /\ order'[n].status = "working" BY <1>4
<1>12. RunOK(exit[e])'
  <2>1. /\ r.said = "none" /\ (r.leg = "close" => order'[n].calls = {Head(r.todo)})
        /\ r.leg \in {"close", "sell"} /\ r.ticket # 0 => r.ticket \in Orders /\ (~IsAlive(r.ticket) \/ r.ticket \in lost)
    BY <1>1, <1>4, <1>11 DEF RunInv, RunOK
  <2>2. n \in Orders' \ lost' BY <1>3, <1>4, <1>10
  <2>3. PICK k : k = r.ticket OBVIOUS
  <2>4. r.leg = "unwind" => t = n OBVIOUS
  <2>5. r.leg # "unwind" => t = k BY <2>3
  <2>6. r.leg \in {"close", "sell"} /\ k # 0 => k \in Orders' /\ (~IsAlive(k)' \/ k \in lost')
    <3>1. r.leg \in {"close", "sell"} /\ k # 0 => k \in Orders /\ (~IsAlive(k) \/ k \in lost) BY <2>1, <2>3
    <3>2. k \in Orders => (IsAlive(k)' <=> IsAlive(k)) BY <1>4 DEF IsAlive
    <3> QED BY <1>3, <1>4, <3>1, <3>2
  <2> HIDE DEF t, r
  <2> QED BY <1>4, <1>8, <1>9, <1>11, <2>1, <2>2, <2>4, <2>5, <2>6 DEF RunOK, Waits
<1>13. ASSUME ~crossed' PROVE RunSteady(exit[e])'
  <2>1. RunSteady(r) BY <1>1, <1>3, <1>13 DEF RunInv
  <2>2. CallSales' = {} BY <1>3, <1>4, <1>10, <1>11, <2>1 DEF RunSteady, CallSales
  <2>3. ~Unbooked(n)' BY <1>11 DEF Unbooked
  <2> HIDE DEF r
  <2> QED BY <1>3, <1>8, <1>9, <2>1, <2>2, <2>3 DEF RunSteady
<1>14. \A f \in Exits : f # e => RunInv(f)'
  <2> TAKE f \in Exits
  <2> HAVE f # e
  <2>1. exit[f] \in Run /\ RunInv(f) /\ exit'[f] = exit[f] BY <1>1, <1>9 DEF IInv
  <2>2. order'[n].kind # "open" BY <1>4, <1>11
  <2>3. pending' \subseteq pending \union {n} /\ pending \subseteq pending' /\ lost' \subseteq lost \union {n} /\ lost \subseteq lost'
    BY <1>3
  <2> HIDE DEF r
  <2> QED BY <1>1, <1>3, <1>4, <2>1, <2>2, <2>3, RunKeptSent
<1> QED BY <1>1, <1>5, <1>6, <1>8, <1>9, <1>12, <1>13, <1>14, Together DEF RunInv

(* A leg is sent and its answer is lost.                                   *)
LEMMA LostStep ==
  ASSUME IInv, NEW e \in Exits, AnswerLost(e)
  PROVE  IInv'
<1> DEFINE r == exit[e]  w == Wanted(r)
<1>1. exit \in [Exits -> Run] /\ World /\ r \in Run /\ RunInv(e) BY DEF IInv
<1>2. PICK n : n = Len(order') OBVIOUS
<1>3. /\ Sent(r) /\ lost' = lost \union {n} /\ UNCHANGED <<held, book, pending, crossed>>
      /\ Now(e, [Failed(r) EXCEPT !.ticket = IF r.leg = "unwind" THEN n ELSE @])
  BY <1>2 DEF AnswerLost
<1>4. /\ r.leg \in {"unwind", "close", "sell"} /\ r.pc = "place" /\ w.kind = r.leg
      /\ n \notin Orders /\ Orders' = Orders \union {n}
      /\ order'[n] = [kind |-> w.kind, calls |-> w.calls, lots |-> w.lots, status |-> "working"]
      /\ \A p \in Orders : order'[p] = order[p]
      /\ n \in Nat /\ n # 0
  BY <1>1, <1>2, <1>3, SentOrder
<1> HIDE DEF w
<1>5. World' BY <1>1, <1>2, <1>3, SentWorld
<1> DEFINE t == IF r.leg = "unwind" THEN n ELSE Failed(r).ticket
           new == [Failed(r) EXCEPT !.ticket = t]
<1>6. Now(e, new) BY <1>3
<1>9. exit'[e] = new /\ \A f \in Exits : f # e => exit'[f] = exit[f]
  <2> HIDE DEF new
  <2> QED BY <1>1, <1>6, Moved
<1>10. pending \subseteq Orders /\ lost \subseteq Orders \ pending BY <1>1 DEF World, Typed
<1>11. order'[n].kind # "open" BY <1>4
<1>12. ~crossed' => CallSales' = {}
  <2>1. ~crossed' => RunSteady(r) BY <1>1, <1>3 DEF RunInv
  <2> QED BY <1>3, <1>4, <1>10, <1>11, <2>1 DEF RunSteady, CallSales
<1>13. exit'[e] \in Run /\ RunInv(e)'
  <2>1. CASE r.leg = "unwind"
    <3>1. Failed(r) = FallThrough(r) BY <2>1 DEF Failed
    <3> DEFINE q == FallThrough(r)
    <3>2. /\ q \in Run /\ q.pc = "place" /\ q.leg = (IF book.calls # << >> THEN "close" ELSE "sell")
          /\ q.todo = book.calls /\ q.said = r.said
      BY <1>1, FallsThrough
    <3>3. new = [q EXCEPT !.ticket = n] BY <2>1, <3>1
    <3> HIDE DEF q
    <3>4. /\ new \in Run /\ new.pc = "place" /\ new.leg = (IF book.calls # << >> THEN "close" ELSE "sell")
          /\ new.todo = book.calls /\ new.said = r.said /\ new.ticket = n
      <4> HIDE DEF new
      <4> QED BY <1>4, <3>2, <3>3 DEF Run
    <3>5. r.said = "none" BY <1>1, <1>4 DEF RunInv, RunOK
    <3> HIDE DEF new, r
    <3>6. RunInv(e)'
      <4>1. n \in lost' /\ n \in Orders' /\ book' = book BY <1>3, <1>4
      <4> QED BY <1>4, <1>5, <1>9, <1>12, <3>4, <3>5, <4>1, LegsRead
    <3> QED BY <1>9, <3>4, <3>6
  <2>2. CASE r.leg # "unwind"
    <3> DEFINE said == IF r.leg = "sell" THEN "uncovered" ELSE "covered"
    <3>1. Failed(r) = Ends(r, said) BY <2>2 DEF Failed, Stopped
    <3>2. said \in {"covered", "uncovered", "ok", "raised"} OBVIOUS
    <3> HIDE DEF said
    <3>3. Ends(r, said) = [Resting EXCEPT !.said = said] BY DEF Ends
    <3>4. Ends(r, said) \in Run BY <3>2, <3>3, RestingIs DEF Run
    <3>5. new = Ends(r, said)
      <4> DEFINE q == Ends(r, said)
      <4>1. new = [q EXCEPT !.ticket = q.ticket] BY <2>2, <3>1
      <4>2. q \in Run BY <3>4
      <4> HIDE DEF new, q
      <4>3. [q EXCEPT !.ticket = q.ticket] = q BY <4>2 DEF Run
      <4> QED BY <4>1, <4>3 DEF q
    <3> HIDE DEF new
    <3> QED BY <1>9, <3>2, <3>5, Ended
  <2> QED BY <2>1, <2>2
<1> HIDE DEF new
<1>14. \A f \in Exits : f # e => RunInv(f)'
  <2> TAKE f \in Exits
  <2> HAVE f # e
  <2>1. exit[f] \in Run /\ RunInv(f) /\ exit'[f] = exit[f] BY <1>1, <1>9 DEF IInv
  <2>3. pending' \subseteq pending \union {n} /\ pending \subseteq pending' /\ lost' \subseteq lost \union {n} /\ lost \subseteq lost'
    BY <1>3
  <2> HIDE DEF r
  <2> QED BY <1>1, <1>3, <1>4, <1>11, <2>1, <2>3, RunKeptSent
<1> QED BY <1>5, <1>6, <1>13, <1>14, Together

(* A leg settles under the run that waits for it.                          *)
LEMMA SettledStep ==
  ASSUME IInv, NEW e \in Exits, _run_leg_to_fill(e)
  PROVE  IInv'
<1> DEFINE r == exit[e]
<1>1. exit \in [Exits -> Run] /\ World /\ r \in Run /\ RunInv(e) BY DEF IInv
<1>2. PICK o : o = exit[e].order OBVIOUS
<1>3. /\ r.pc = "wait" /\ o \in pending /\ ~IsAlive(o) /\ order_status(o) /\ UNCHANGED <<held, order, lost, crossed>>
      /\ Now(e, IF order[o].status = "filled" THEN Filled(r) ELSE Failed(r))
  BY <1>2 DEF _run_leg_to_fill
<1>4. /\ o \in Orders /\ order[o].kind = r.leg /\ r.said = "none" /\ r.leg # "none"
      /\ r.leg = "close" => r.todo # << >> /\ order[o].calls = {Head(r.todo)}
      /\ r.leg = "unwind" => r.ticket = o
  BY <1>1, <1>2, <1>3 DEF RunInv, RunOK, Waits
<1>5. World' BY <1>1, <1>3, <1>4, StatusWorld
<1> DEFINE new == IF order[o].status = "filled" THEN Filled(r) ELSE Failed(r)
<1>6. Now(e, new) BY <1>3
<1>7. exit'[e] = new /\ \A f \in Exits : f # e => exit'[f] = exit[f]
  <2> HIDE DEF new
  <2> QED BY <1>1, <1>6, Moved
<1>8. \A f \in Exits : f # e => RunInv(f)'
  <2> TAKE f \in Exits
  <2> HAVE f # e
  <2>1. exit[f] \in Run /\ RunInv(f) /\ exit'[f] = exit[f] BY <1>1, <1>7 DEF IInv
  <2> HIDE DEF r
  <2> QED BY <1>1, <1>3, <1>4, <2>1, RunKeptStatus
<1>9. ~crossed => CallSales' = {}
  <2>1. ~crossed => RunSteady(r) BY <1>1 DEF RunInv
  <2> QED BY <1>3, <2>1 DEF RunSteady, CallSales, order_status
<1>10. exit'[e] \in Run /\ RunInv(e)'
  <2>1. CASE order[o].status # "filled"
    <3>1. exit'[e] = Failed(r) BY <1>7, <2>1
    <3>2. book' = book BY <1>3, <2>1 DEF order_status
    <3>3. PICK q \in Run : q = r BY <1>1
    <3>4. q.leg = "unwind" /\ q.ticket # 0 => q.ticket \in Orders' /\ (~IsAlive(q.ticket)' \/ q.ticket \in lost')
      <4>1. q.leg = "unwind" => q.ticket = o BY <1>4, <3>3
      <4>2. o \in Orders' /\ ~IsAlive(o)' BY <1>3, <1>4 DEF Orders, IsAlive
      <4> QED BY <4>1, <4>2
    <3>5. exit'[e] = Failed(q) /\ q.pc # "idle" /\ q.said = "none" BY <1>3, <1>4, <3>1, <3>3
    <3> QED BY <1>1, <1>3, <1>5, <1>9, <3>2, <3>4, <3>5, FailedRun
  <2>2. CASE order[o].status = "filled" /\ r.leg # "close"
    <3>1. exit'[e] = Ends(r, "ok") BY <1>7, <2>2 DEF Filled
    <3> QED BY <3>1, Ended
  <2>3. CASE order[o].status = "filled" /\ r.leg = "close"
    <3>1. exit'[e] = Legs(r, Tail(r.todo)) BY <1>7, <2>3 DEF Filled
    <3>2. PICK todo : todo = Tail(r.todo) OBVIOUS
    <3>3. todo \in Seq(Calls) BY <1>1, <1>4, <2>3, <3>2 DEF Run
    <3>4. /\ exit'[e] \in Run /\ exit'[e].pc = "place" /\ exit'[e].leg = (IF todo # << >> THEN "close" ELSE "sell")
          /\ exit'[e].todo = todo /\ exit'[e].order = 0 /\ exit'[e].ticket = r.ticket /\ exit'[e].said = "none"
      <4> DEFINE q == Legs(r, todo)
      <4>1. exit'[e] = q BY <3>1, <3>2
      <4>2. /\ q \in Run /\ q.pc = "place" /\ q.leg = (IF todo # << >> THEN "close" ELSE "sell")
            /\ q.todo = todo /\ q.order = 0 /\ q.ticket = r.ticket /\ q.said = r.said
        BY <1>1, <3>3, LegsIs
      <4> HIDE DEF q
      <4> QED BY <1>4, <4>1, <4>2
    <3>5. PICK t : t = r.ticket OBVIOUS
    <3>6. t # 0 => t \in Orders' /\ (~IsAlive(t)' \/ t \in lost')
      <4>1. t # 0 => t \in Orders /\ (~IsAlive(t) \/ t \in lost) BY <1>1, <2>3, <3>5 DEF RunInv, RunOK
      <4>2. Orders' = Orders /\ (IsAlive(t)' <=> IsAlive(t)) /\ lost' = lost BY <1>3 DEF Orders, IsAlive
      <4> QED BY <4>1, <4>2
    <3>7. RunOK(exit[e])'
      <4>1. exit'[e].ticket = t BY <3>4, <3>5
      <4> HIDE DEF r, new
      <4> QED BY <3>4, <3>6, <4>1 DEF RunOK, Waits
    <3>8. ASSUME ~crossed' PROVE RunSteady(exit[e])'
      <4>1. ~crossed /\ RunSteady(r) BY <1>1, <1>3, <3>8 DEF RunInv
      <4>2. Unbooked(o) BY <1>3, <2>3 DEF Unbooked
      <4>3. r.todo = book.calls BY <1>2, <1>3, <2>3, <4>1, <4>2 DEF RunSteady
      <4>4. book' = Booked(o) BY <1>3, <2>3 DEF order_status
      <4>5. Booked(o).calls = Tail(book.calls) BY <1>1, <1>4, <2>3, <4>1, <4>2, BookedCalls
      <4>6. book'.calls = todo BY <3>2, <4>3, <4>4, <4>5
      <4>7. CallSales' = {} BY <1>3, <1>9, <3>8
      <4>8. Known' BY <1>5, <3>8 DEF World, Steady
      <4>9. held'.calls \subseteq Range(todo) BY <4>6, <4>7, <4>8 DEF Known
      <4>10. todo = << >> => held'.calls = {}
        <5>1. Range(<< >>) = {} BY DEF Range
        <5> QED BY <4>9, <5>1
      <4> HIDE DEF r, new
      <4> QED BY <3>4, <4>6, <4>7, <4>9, <4>10 DEF RunSteady
    <3> QED BY <3>4, <3>7, <3>8 DEF RunInv
  <2> QED BY <2>1, <2>2, <2>3
<1> HIDE DEF new
<1> QED BY <1>5, <1>6, <1>8, <1>10, Together

(* What the cancel of an unfilled leg finds.                               *)
LEMMA CancelledStep ==
  ASSUME IInv, NEW e \in Exits, _cancel_unfilled_leg(e)
  PROVE  IInv'
<1> DEFINE r == exit[e]
<1>1. exit \in [Exits -> Run] /\ World /\ r \in Run /\ RunInv(e) BY DEF IInv
<1>2. PICK o : o = exit[e].order OBVIOUS
<1>3. /\ Waits(r) /\ order_status(o) /\ UNCHANGED <<held, order, lost, crossed>> /\ Now(e, Stopped(r))
  BY <1>2 DEF _cancel_unfilled_leg, Waits
<1>4. o \in Orders BY <1>1, <1>2, <1>3 DEF RunInv, RunOK
<1>5. World' BY <1>1, <1>3, <1>4, StatusWorld
<1>7. exit'[e] = Stopped(r) /\ \A f \in Exits : f # e => exit'[f] = exit[f] BY <1>1, <1>3, Moved
<1>8. \A f \in Exits : f # e => RunInv(f)'
  <2> TAKE f \in Exits
  <2> HAVE f # e
  <2>1. exit[f] \in Run /\ RunInv(f) /\ exit'[f] = exit[f] BY <1>1, <1>7 DEF IInv
  <2> HIDE DEF r
  <2> QED BY <1>1, <1>3, <1>4, <2>1, RunKeptStatus
<1>9. exit'[e] \in Run /\ RunInv(e)' BY <1>7, StoppedRun
<1> QED BY <1>3, <1>5, <1>8, <1>9, Together

(* The invariant holds at the start ...                                    *)
LEMMA InitInv == Init => IInv
<1> SUFFICES ASSUME Init PROVE IInv OBVIOUS
<1>1. PICK calls \in SUBSET Calls, lots \in 1..MaxLots :
         /\ Cardinality(calls) <= lots
         /\ held = [calls |-> calls, lots |-> lots] /\ book = [calls |-> SetToSeq(calls), lots |-> lots]
  BY DEF Init
<1>2. /\ order = << >> /\ pending = {} /\ lost = {} /\ crossed = FALSE
      /\ exit = [e \in Exits |-> Resting]
  BY DEF Init
<1>3. Orders = {} BY <1>2 DEF Orders
<1>4. lots \in 0..MaxLots /\ lots > 0 BY ExitAssumption
<1>5. /\ SetToSeq(calls) \in Seq(Calls) /\ Range(SetToSeq(calls)) = calls
      /\ \A i, j \in DOMAIN SetToSeq(calls) : SetToSeq(calls)[i] = SetToSeq(calls)[j] => i = j
  BY SequenceOf
<1>6. /\ held.calls = calls /\ held.lots = lots /\ book.calls = SetToSeq(calls) /\ book.lots = lots BY <1>1
<1>7. Typed
  <2>1. order \in Seq(Order) BY <1>2
  <2> QED BY <1>1, <1>2, <1>3, <1>4, <1>5, <2>1 DEF Typed
<1>8. Orderly BY <1>3 DEF Orderly
<1>9. Lots BY <1>3, <1>4, <1>6 DEF Lots
<1>10. Apart /\ OneSale BY <1>2, <1>3 DEF Apart, OneSale, CallSales
<1>11. Known /\ NoGhost /\ Gone /\ SellsBare /\ Whole /\ Entire
  BY <1>3, <1>5, <1>6 DEF Known, NoGhost, Gone, SellsBare, Whole, Entire, Live
<1>12. Room /\ Covered /\ First /\ OneAtATime BY <1>1, <1>3, <1>6 DEF Room, Covered, First, OneAtATime, Live
<1>13. Distinct /\ Fresh BY <1>2, <1>5, <1>6 DEF Distinct, Fresh, CallSales
<1>14. World BY <1>7, <1>8, <1>9, <1>10, <1>11, <1>12, <1>13 DEF World, Steady
<1>15. \A e \in Exits : exit[e] = Resting BY <1>2
<1>16. \A e \in Exits : RunInv(e) BY <1>15, RestingIs DEF RunInv, RunOK, RunSteady, Waits
<1>17. exit \in [Exits -> Run] BY <1>2, RestingIs
<1> QED BY <1>14, <1>16, <1>17 DEF IInv

(* ... and every step keeps it.                                            *)
LEMMA NextKeeps == IInv /\ [Next]_vars => IInv'
<1> SUFFICES ASSUME IInv, [Next]_vars PROVE IInv' OBVIOUS
<1>1. CASE BrokerStep BY <1>1, BrokerStepKeeps DEF BrokerStep
<1>2. CASE \E o \in Orders : settle_pending_orders(o) \/ cancel_stale_orders(o) BY <1>2, SweepKeeps
<1>3. CASE \E c \in Calls : _sell_short(c) BY <1>3, SaleKeeps
<1>4. CASE \E e \in Exits : Begin(e) \/ ExitStep(e)
  <2>1. PICK e \in Exits : Begin(e) \/ ExitStep(e) BY <1>4
  <2> QED
    BY <2>1, BeginStep, PlacedStep, LostStep, OnlyRunStep, SettledStep, CancelSentStep, CancelledStep DEF ExitStep
<1>5. CASE UNCHANGED vars
  <2>1. UNCHANGED <<held, order, book, pending, lost, exit, crossed>> BY <1>5 DEF vars
  <2>2. World /\ crossed' \in BOOLEAN BY <2>1 DEF IInv, World, Typed
  <2>3. World' BY <2>1, <2>2, WorldKept
  <2>4. \A f \in Exits : RunInv(f)' BY <2>1, OthersKept
  <2> QED BY <2>1, <2>3, <2>4 DEF IInv
<1> QED BY <1>1, <1>2, <1>3, <1>4, <1>5 DEF Next

(* The invariant holds of every behaviour of exits, sweep, operator and    *)
(* broker.                                                                 *)
THEOREM Inductive == Spec => []IInv
BY InitInv, NextKeeps, PTL DEF Spec

(* No short call is ever without its shares, however often and from where  *)
(* exit_position runs and whatever fills, dies, is cancelled or is lost,   *)
(* unless a call sale and an exit were under way together.                 *)
THEOREM ExitNeverNaked == Spec => []NakedOnlyIfCrossed
<1>1. IInv => NakedOnlyIfCrossed
  <2> SUFFICES ASSUME IInv, Naked, ~crossed PROVE FALSE BY DEF NakedOnlyIfCrossed
  <2>1. Covered /\ held \in [calls : SUBSET Calls, lots : 0..MaxLots] BY DEF IInv, World, Steady, Typed
  <2>2. held.calls \in SUBSET Calls /\ held.lots \in Nat BY <2>1, ExitAssumption
  <2>3. Cardinality(held.calls) \in Nat BY <2>2, ExitAssumption, FS_Subset, FS_CardinalityType
  <2> QED BY <2>1, <2>2, <2>3 DEF Naked, Covered
<1> QED BY <1>1, Inductive, PTL

(* exit_position never takes the legs on top of a ticket that may still    *)
(* fill, unless the answer to the ticket was lost.                         *)
THEOREM NotOnTopOfATicket == Spec => []NeverLegsOutOnTop
<1>1. IInv => NeverLegsOutOnTop BY DEF IInv, RunInv, RunOK, NeverLegsOutOnTop
<1> QED BY <1>1, Inductive, PTL

(* A sequence without repetitions has as many places as members.           *)
LEMMA AsManyPlaces ==
  ASSUME NEW b \in Seq(Calls), \A i, j \in DOMAIN b : b[i] = b[j] => i = j, NEW s
  PROVE  Cardinality({i \in DOMAIN b : StrikeOf[b[i]] = s}) = Cardinality({c \in Range(b) : StrikeOf[c] = s})
<1> DEFINE P == {i \in DOMAIN b : StrikeOf[b[i]] = s}  T == {c \in Range(b) : StrikeOf[c] = s}
           f == [i \in P |-> b[i]]
<1>1. Len(b) \in Nat /\ DOMAIN b = 1..Len(b) OBVIOUS
<1>2. IsFiniteSet(P)
  <2>1. IsFiniteSet(1..Len(b)) BY <1>1, FS_Interval
  <2>2. P \subseteq 1..Len(b) BY <1>1
  <2> HIDE DEF P
  <2> QED BY <2>1, <2>2, FS_Subset
<1>3. f \in [P -> T] BY DEF Range
<1>4. \A i, j \in P : f[i] = f[j] => i = j OBVIOUS
<1>5. \A c \in T : \E i \in P : f[i] = c BY DEF Range
<1> HIDE DEF f, P, T
<1>6. f \in Bijection(P, T) BY <1>3, <1>4, <1>5 DEF Bijection, Injection, Surjection, IsInjective
<1> QED BY <1>2, <1>6, FS_Bijection DEF ExistsBijection, P, T

(* When every order is settled and no answer was lost, the legs and lots in*)
(* state.json are those of the account, strike by strike: no fill is dropped*)
(* or booked twice between the exits, the sweep and the cancels.           *)
THEOREM BookIsTheAccount == Spec => []BookIsAccount
<1>1. IInv => BookIsAccount
  <2> SUFFICES ASSUME IInv, pending = {}, lost = {}, ~crossed
               PROVE  /\ book.lots = held.lots
                      /\ \A s \in Range(StrikeOf) :
                           Cardinality({i \in DOMAIN book.calls : StrikeOf[book.calls[i]] = s})
                             = Cardinality({c \in held.calls : StrikeOf[c] = s})
    BY DEF BookIsAccount
  <2>1. /\ Typed /\ Lots /\ Known /\ NoGhost /\ Distinct /\ CallSales = {}
    BY DEF IInv, World, Steady, CallSales
  <2>2. /\ held.lots \in Nat /\ book.calls \in Seq(Calls) BY <2>1, ExitAssumption DEF Typed
  <2>3. book.lots = held.lots BY <2>1, <2>2 DEF Lots
  <2>4. Range(book.calls) = held.calls BY <2>1 DEF Known, NoGhost
  <2>5. \A i, j \in DOMAIN book.calls : book.calls[i] = book.calls[j] => i = j BY <2>1 DEF Distinct
  <2>6. PICK b \in Seq(Calls) : b = book.calls BY <2>2
  <2>7. \A s : Cardinality({i \in DOMAIN b : StrikeOf[b[i]] = s}) = Cardinality({c \in Range(b) : StrikeOf[c] = s})
    BY <2>5, <2>6, AsManyPlaces
  <2> QED BY <2>3, <2>4, <2>6, <2>7
<1> QED BY <1>1, Inductive, PTL

(* Who reports success has waited for a ticket or a sale that filled, or   *)
(* found nothing to sell.                                                  *)
LEMMA SaysOk ==
  ASSUME IInv, [Next]_vars, NEW e \in Exits, exit[e].pc # "idle", exit'[e].said = "ok"
  PROVE  \/ NothingToSell(e)
         \/ /\ _run_leg_to_fill(e) /\ order[exit[e].order].status = "filled"
            /\ exit[e].leg \in {"sell", "unwind"}
<1>1. exit \in [Exits -> Run] /\ World /\ RunInv(e) /\ exit[e] \in Run BY DEF IInv
<1>2. exit[e].said = "none" BY <1>1 DEF RunInv, RunOK
<1>3. exit'[e] # exit[e] BY <1>2
<1>4. PICK f \in Exits : Begin(f) \/ ExitStep(f)
  BY <1>3 DEF Next, BrokerStep, BrokerFills, BrokerKills, settle_pending_orders, cancel_stale_orders, _sell_short, vars
<1>5. f = e
  <2>1. \E r : Now(f, r)
    BY <1>4 DEF Begin, ExitStep, Placed, AnswerLost, Refused, NothingToSell, _run_leg_to_fill, PollRaises,
                CancelSent, CancelRefused, _cancel_unfilled_leg
  <2> QED BY <1>1, <1>3, <2>1, Moved
<1> DEFINE r == exit[e]
<1>6. \A new : Now(e, new) => exit'[e] = new BY <1>1, Moved
<1>7. Stopped(r).said # "ok" /\ Failed(r).said # "ok" /\ FallThrough(r).said = "none"
  <2>1. FallThrough(r).said = "none" BY <1>1, <1>2, FallsThrough
  <2>2. \A said \in {"covered", "uncovered"} : Ends(r, said).said = said
    BY RestingIs DEF Ends, Run
  <2>3. Stopped(r).said # "ok" BY <2>2 DEF Stopped
  <2> QED BY <2>1, <2>3 DEF Failed
<1>8. ~Begin(f) BY <1>5 DEF Begin
<1>9. ~Placed(e)
  <2> SUFFICES ASSUME Placed(e) PROVE FALSE OBVIOUS
  <2>1. PICK n, t : Now(e, [r EXCEPT !.pc = "wait", !.order = n, !.ticket = t]) BY DEF Placed
  <2>2. [r EXCEPT !.pc = "wait", !.order = n, !.ticket = t].said = "none" BY <1>1, <1>2 DEF Run
  <2> QED BY <1>6, <2>1, <2>2
<1>10. ~AnswerLost(e)
  <2> SUFFICES ASSUME AnswerLost(e) PROVE FALSE OBVIOUS
  <2>1. PICK t : Now(e, [Failed(r) EXCEPT !.ticket = t]) BY DEF AnswerLost
  <2>2. Failed(r) \in Run
    <3>1. FallThrough(r) \in Run BY <1>1, FallsThrough
    <3>2. \A said \in {"covered", "uncovered"} : Ends(r, said) \in Run BY RestingIs DEF Ends, Run
    <3> QED BY <3>1, <3>2 DEF Failed, Stopped
  <2>3. [Failed(r) EXCEPT !.ticket = t].said = Failed(r).said BY <2>2 DEF Run
  <2> QED BY <1>6, <1>7, <2>1, <2>3
<1>11. ~Refused(e) /\ ~CancelRefused(e) /\ ~_cancel_unfilled_leg(e)
  BY <1>6, <1>7 DEF Refused, CancelRefused, _cancel_unfilled_leg
<1>12. ~PollRaises(e)
  <2>1. Ends(r, "raised").said = "raised" BY RestingIs DEF Ends, Run
  <2> QED BY <1>6, <2>1 DEF PollRaises
<1>13. ~CancelSent(e)
  <2>1. [r EXCEPT !.pc = "confirm"].said = "none" BY <1>1, <1>2 DEF Run
  <2> QED BY <1>6, <2>1 DEF CancelSent
<1>14. NothingToSell(e) \/ _run_leg_to_fill(e)
  BY <1>4, <1>5, <1>8, <1>9, <1>10, <1>11, <1>12, <1>13 DEF ExitStep
<1>15. CASE _run_leg_to_fill(e)
  <2>1. order[r.order].status = "filled" BY <1>6, <1>7, <1>15 DEF _run_leg_to_fill
  <2>2. exit'[e] = Filled(r) BY <1>6, <1>15, <2>1 DEF _run_leg_to_fill
  <2>3. r.leg # "close"
    <3> SUFFICES ASSUME r.leg = "close" PROVE FALSE OBVIOUS
    <3>1. exit'[e] = Legs(r, Tail(r.todo)) BY <2>2 DEF Filled
    <3>2. r.todo \in Seq(Calls) /\ r.todo # << >> BY <1>1 DEF Run, RunInv, RunOK
    <3>3. Tail(r.todo) \in Seq(Calls) BY <3>2
    <3>4. Legs(r, Tail(r.todo)).said = "none" BY <1>1, <1>2, <3>3, LegsIs
    <3> QED BY <3>1, <3>4
  <2>4. r.leg \in {"sell", "unwind"} BY <1>1, <2>3 DEF Run, RunInv, RunOK
  <2> QED BY <1>15, <2>1, <2>4
<1> QED BY <1>14, <1>15

(* An exit that reports success has left none of the calls it read and no  *)
(* share, unless a call was being sold meanwhile.                          *)
THEOREM SuccessMeansOut == Spec => OkMeansOut
<1>1. IInv /\ [Next]_vars =>
        [\A e \in Exits : exit[e].pc # "idle" /\ exit'[e].said = "ok" /\ ~crossed =>
           exit[e].read \intersect held'.calls = {} /\ held'.lots = 0]_vars
  <2> SUFFICES ASSUME IInv, [Next]_vars, NEW e \in Exits, exit[e].pc # "idle", exit'[e].said = "ok", ~crossed
               PROVE  exit[e].read \intersect held'.calls = {} /\ held'.lots = 0
    OBVIOUS
  <2> DEFINE r == exit[e]  o == exit[e].order
  <2>1. World /\ Steady /\ RunOK(r) /\ RunSteady(r) BY DEF IInv, World, RunInv
  <2>2. held.lots \in Nat /\ book.lots \in Nat BY <2>1, ExitAssumption DEF World, Typed
  <2>3. held.calls = {} /\ held.lots = 0 /\ held' = held
    <3>1. CASE NothingToSell(e)
      <4>1. r.leg = "sell" /\ book.lots = 0 /\ held' = held BY <3>1 DEF NothingToSell
      <4> QED BY <2>1, <2>2, <4>1 DEF RunSteady, World, Lots
    <3>2. CASE _run_leg_to_fill(e) /\ order[o].status = "filled" /\ r.leg \in {"sell", "unwind"}
      <4>1. r.pc = "wait" /\ o \in pending /\ held' = held BY <3>2 DEF _run_leg_to_fill
      <4>2. o \in Orders /\ order[o].kind = r.leg BY <2>1, <4>1 DEF RunOK, Waits
      <4>3. held.lots = 0 BY <2>1, <2>2, <3>2, <4>2 DEF World, Lots, Sells
      <4>4. r.leg = "unwind" => held.calls = {} BY <2>1, <3>2, <4>1, <4>2 DEF Steady, Whole, Unbooked
      <4>5. r.leg = "sell" => held.calls = {} BY <2>1 DEF RunSteady
      <4> QED BY <3>2, <4>1, <4>3, <4>4, <4>5
    <3> QED BY <3>1, <3>2, SaysOk
  <2> QED BY <2>3
<1> QED BY <1>1, Inductive, PTL DEF Spec, OkMeansOut

=============================================================================
