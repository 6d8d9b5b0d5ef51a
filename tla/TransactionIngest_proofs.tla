---------------------- MODULE TransactionIngest_proofs ----------------------
(***************************************************************************)
(* A fill of the broker is counted once in a book, whichever of the order  *)
(* poll and the operator's adoption books it, and an undo leaves nothing of*)
(* it, for any books, orders, fills, crashes and corrections.  The log is  *)
(* compared with the feed by action, strike, expiry and quantity alone, so *)
(* "not lost" is a matter of numbers: the log holds as many executions of  *)
(* a content as the order of the row has legs of it.                       *)
(*                                                                         *)
(* The rows of an order come and go together, and so its fills are booked  *)
(* all or none except while an adoption is under way; an adoption that is  *)
(* not refused therefore finds none of them on the log.                    *)
(***************************************************************************)
EXTENDS TransactionIngest, FiniteSetTheorems, SequenceTheorems, TLAPS

Execs == [fill : Fills, source : {"app", "broker_manual"}, excluded : BOOLEAN, reversed : BOOLEAN]
Entries == [source : {"app", "broker_manual"}, execution_ids : SUBSET Nat, proposal : Orders \union {"none"}]
Ledgers == UNION {[rows -> Entries] : rows \in SUBSET Fills}
Offers == [order : Orders, txns : SUBSET Fills, legs : SUBSET Fills]
Adoptions == [op : {"adopt"}, book : Books, order : Orders, legs : SUBSET Fills,
              left : SUBSET Fills, ids : SUBSET Nat]
Reversals == [op : {"reverse"}, book : Books, order : Orders, legs : SUBSET Fills,
              left : SUBSET Nat, ids : SUBSET Nat]

Typed ==
  /\ posted \subseteq Fills /\ aged \subseteq Fills
  /\ feed \in [Books -> [rows : SUBSET Fills, here : BOOLEAN]]
  /\ log \in [Books -> Seq(Execs)]
  /\ ledger \in [Books -> Ledgers]
  /\ proposals \in [Books -> SUBSET Offers]
  /\ job \in {Idle} \union Adoptions \union Reversals

\* Where a fill stands in a book's log.
Rows(b, f) == {i \in DOMAIN log[b] : log[b][i].fill = f}

\* The rows of an order come and go together, unless the order is torn.
Torn(o) == o \notin Whole /\ FillsOf(o) \subseteq marred
Together(rows) ==
  \A o \in Orders : \/ Torn(o) \/ FillsOf(o) \subseteq rows
                    \/ FillsOf(o) \intersect rows = {}
Fed == Together(posted) /\ Together(aged) /\ \A b \in Books : Together(feed[b].rows)
WholeLegs(o, legs) == legs \subseteq FillsOf(o) /\ (Torn(o) \/ legs = FillsOf(o))
Offered == \A b \in Books : \A p \in proposals[b] : WholeLegs(p.order, p.legs)

\* A fill is on the log once.
Single == \A b \in Books : \A f \in Fills \ marred : \A i, j \in Rows(b, f) : i = j

\* The fills of an order are booked all or none, but for the adoption under way.
AllOrNone(b, o) ==
  \/ \A f \in FillsOf(o) : OnLog(b, f)
  \/ \A f \in FillsOf(o) : ~OnLog(b, f)
  \/ job.op = "adopt" /\ job.book = b /\ job.order = o
Grouped == \A o \in Orders : FillsOf(o) \subseteq marred \/ \A b \in Books : AllOrNone(b, o)

Adopting ==
  job.op = "adopt" =>
    /\ WholeLegs(job.order, job.legs) /\ job.left \subseteq job.legs
    /\ \A f \in job.legs \ job.left : OnLog(job.book, f)
    /\ job.legs \subseteq marred \/
         /\ \A f \in job.left : ~OnLog(job.book, f)
         /\ \A f \in job.legs : Rows(job.book, f) \subseteq job.ids

\* What the undo of an adoption needs to find.
Recorded ==
  \A b \in Books : \A f \in DOMAIN ledger[b] : ledger[b][f].source = "broker_manual" =>
    OnLog(b, f) /\ (f \notin marred => Rows(b, f) \subseteq ledger[b][f].execution_ids)
Reversing ==
  job.op = "reverse" =>
    /\ \A f \in job.legs : OnLog(job.book, f)
    /\ \A f \in job.legs \ marred : \A i \in Rows(job.book, f) :
         log[job.book][i].reversed \/ i \in job.left

\* The log holds the content of every row the ledger skips, often enough.
KeyRows(b, k) == {i \in DOMAIN log[b] : KeyOf[log[b][i].fill] = k}
Covered(b, f) == Cardinality(Twins(f)) <= Cardinality(KeyRows(b, KeyOf[f]))
Remembered == \A b \in Books : \A f \in DOMAIN ledger[b] : Covered(b, f)

IInv == Typed /\ Fed /\ Offered /\ Single /\ Grouped /\ Adopting /\ Recorded /\ Reversing /\ Remembered

-----------------------------------------------------------------------------
(* Keys, rows and lists.                                                    *)

LEMMA RowsFinite ==
  ASSUME Typed, NEW b \in Books, NEW f \in Fills
  PROVE  /\ log[b] \in Seq(Execs) /\ Len(log[b]) \in Nat /\ DOMAIN log[b] = 1..Len(log[b])
         /\ \A i \in DOMAIN log[b] : log[b][i] \in Execs /\ log[b][i].fill \in Fills
         /\ IsFiniteSet(Rows(b, f)) /\ (OnLog(b, f) <=> Rows(b, f) # {})
<1>1. /\ log[b] \in Seq(Execs) /\ Len(log[b]) \in Nat /\ DOMAIN log[b] = 1..Len(log[b])
      /\ \A i \in DOMAIN log[b] : log[b][i] \in Execs
  BY DEF Typed
<1>2. IsFiniteSet(1..Len(log[b]))
  BY <1>1, FS_Interval
<1>3. Rows(b, f) \subseteq 1..Len(log[b])
  BY <1>1 DEF Rows
<1>4. IsFiniteSet(Rows(b, f))
  BY <1>2, <1>3, FS_Subset
<1> QED
  BY <1>1, <1>4 DEF Rows, OnLog, Execs

LEMMA KeyRowsFinite ==
  ASSUME Typed, NEW b \in Books, NEW k
  PROVE  IsFiniteSet(KeyRows(b, k)) /\ Cardinality(KeyRows(b, k)) \in Nat
<1>1. Len(log[b]) \in Nat /\ DOMAIN log[b] = 1..Len(log[b])
  BY DEF Typed
<1>2. IsFiniteSet(1..Len(log[b]))
  BY <1>1, FS_Interval
<1>3. KeyRows(b, k) \subseteq 1..Len(log[b])
  BY <1>1 DEF KeyRows
<1> QED
  BY <1>2, <1>3, FS_Subset, FS_CardinalityType

LEMMA KeysAre ==
  ASSUME Typed, NEW b \in Books, NEW f \in Fills
  PROVE  /\ KeyOf[f] \in Range(KeyOf)
         /\ existing_execution_keys(b)[KeyOf[f]] = Cardinality(KeyRows(b, KeyOf[f]))
<1>1. KeyOf[f] \in Range(KeyOf)
  BY IngestAssumption DEF Range
<1> QED
  BY <1>1 DEF existing_execution_keys, KeyRows

\* Fills of one content that are on the log have an execution each.
LEMMA Enough ==
  ASSUME Typed, NEW b \in Books, NEW legs \in SUBSET Fills, NEW k,
         \A f \in legs : KeyOf[f] = k /\ OnLog(b, f)
  PROVE  IsFiniteSet(legs) /\ Cardinality(legs) <= Cardinality(KeyRows(b, k))
<1>1. \A f \in legs : \E i \in KeyRows(b, k) : log[b][i].fill = f
  BY DEF OnLog, KeyRows
<1>2. PICK m : m = [f \in legs |-> CHOOSE i \in KeyRows(b, k) : log[b][i].fill = f]
  OBVIOUS
<1>3. \A f \in legs : m[f] \in KeyRows(b, k) /\ log[b][m[f]].fill = f
  BY <1>1, <1>2
<1>4. m \in Injection(legs, KeyRows(b, k))
  BY <1>2, <1>3 DEF Injection, IsInjective
<1> QED
  BY <1>4, KeyRowsFinite, FS_Injection

\* A group whose legs are on the log is matched.
LEMMA OnLogIsMatched ==
  ASSUME Typed, NEW b \in Books, NEW legs \in SUBSET Fills, \A f \in legs : OnLog(b, f)
  PROVE  _group_already_booked(b, legs)
<1> SUFFICES ASSUME NEW k \in Range(KeyOf)
             PROVE  Cardinality({f \in legs : KeyOf[f] = k}) <= existing_execution_keys(b)[k]
  BY DEF _group_already_booked
<1>1. PICK f \in Fills : k = KeyOf[f]
  BY IngestAssumption DEF Range
<1>2. existing_execution_keys(b)[k] = Cardinality(KeyRows(b, k))
  BY <1>1, KeysAre
<1> DEFINE same == {g \in legs : KeyOf[g] = k}
<1>3. same \in SUBSET Fills /\ \A g \in same : KeyOf[g] = k /\ OnLog(b, g)
  OBVIOUS
<1> HIDE DEF same
<1>4. Cardinality(same) <= Cardinality(KeyRows(b, k))
  BY <1>3, Enough
<1> QED
  BY <1>2, <1>4 DEF same

LEMMA TwinsAre ==
  ASSUME NEW f \in Fills
  PROVE  /\ Twins(f) \in SUBSET Fills /\ f \in Twins(f)
         /\ \A g \in Twins(f) : KeyOf[g] = KeyOf[f]
BY DEF Twins, FillsOf

\* The log holds what a matched group holds.
LEMMA MatchedIsCovered ==
  ASSUME Typed, NEW b \in Books, NEW legs \in SUBSET Fills, _group_already_booked(b, legs),
         NEW f \in legs, Twins(f) \subseteq legs
  PROVE  Covered(b, f)
<1> DEFINE same == {g \in legs : KeyOf[g] = KeyOf[f]}
<1>1. Cardinality(same) <= Cardinality(KeyRows(b, KeyOf[f]))
  BY KeysAre DEF _group_already_booked
<1>2. Twins(f) \subseteq same /\ same \subseteq Fills
  BY TwinsAre
<1> HIDE DEF same
<1>3. IsFiniteSet(same) /\ IsFiniteSet(Twins(f)) /\ Cardinality(Twins(f)) <= Cardinality(same)
  <2>1. IsFiniteSet(same)
    BY <1>2, IngestAssumption, FS_Subset
  <2> QED
    BY <1>2, <2>1, FS_Subset
<1>4. /\ Cardinality(same) \in Nat /\ Cardinality(Twins(f)) \in Nat
      /\ Cardinality(KeyRows(b, KeyOf[f])) \in Nat
  BY <1>3, FS_CardinalityType, KeyRowsFinite
<1>5. \A x, y, z \in Nat : x <= y /\ y <= z => x <= z
  OBVIOUS
<1> QED
  BY <1>1, <1>3, <1>4, <1>5 DEF Covered

\* A complete group has the twins of its fills.
LEMMA TwinsTogether ==
  ASSUME NEW o \in Orders, NEW legs, WholeLegs(o, legs), NEW f \in legs
  PROVE  Twins(f) \subseteq legs
<1>1. OrderOf[f] = o
  BY DEF WholeLegs, Torn, FillsOf
<1> QED
  BY <1>1 DEF Twins, WholeLegs, Torn

\* The log only grows.
LEMMA CoveredStays ==
  ASSUME Typed, Typed', NEW b \in Books, NEW f \in Fills,
         \A g \in Fills : Rows(b, g) \subseteq Rows(b, g)', Covered(b, f)
  PROVE  Covered(b, f)'
<1>1. \A i \in DOMAIN log[b] : log[b][i].fill \in Fills
  BY RowsFinite
<1>2. KeyRows(b, KeyOf[f]) \subseteq KeyRows(b, KeyOf[f])'
  BY <1>1 DEF KeyRows, Rows
<1>3. /\ IsFiniteSet(KeyRows(b, KeyOf[f])') /\ Cardinality(KeyRows(b, KeyOf[f])') \in Nat
  <2>1. Len(log'[b]) \in Nat /\ DOMAIN log'[b] = 1..Len(log'[b])
    BY DEF Typed
  <2>2. IsFiniteSet(1..Len(log'[b])) /\ KeyRows(b, KeyOf[f])' \subseteq 1..Len(log'[b])
    BY <2>1, FS_Interval DEF KeyRows
  <2> QED
    BY <2>2, FS_Subset, FS_CardinalityType
<1>4. Cardinality(KeyRows(b, KeyOf[f])) <= Cardinality(KeyRows(b, KeyOf[f])')
  BY <1>2, <1>3, FS_Subset
<1>5. Cardinality(KeyRows(b, KeyOf[f])) \in Nat /\ Cardinality(Twins(f)) \in Nat
  <2>1. IsFiniteSet(Twins(f))
    BY TwinsAre, IngestAssumption, FS_Subset
  <2> QED
    BY <2>1, KeyRowsFinite, FS_CardinalityType
<1>6. \A x, y, z \in Nat : x <= y /\ y <= z => x <= z
  OBVIOUS
<1>7. Cardinality(Twins(f)) <= Cardinality(KeyRows(b, KeyOf[f])')
  BY <1>3, <1>4, <1>5, <1>6 DEF Covered
<1> QED
  BY <1>7 DEF Covered, Twins, FillsOf, KeyRows

\* A list of a finite set has each member once.
LEMMA Listed ==
  ASSUME NEW S, IsFiniteSet(S), NEW q, q = SetToSeq(S)
  PROVE  /\ q \in Seq(S) /\ \A x \in S : \E i \in DOMAIN q : q[i] = x
         /\ \A i, j \in DOMAIN q : q[i] = q[j] => i = j
<1> DEFINE n == Cardinality(S)
<1>1. n \in Nat /\ ExistsBijection(1..n, S)
  BY FS_CardinalityType
<1>2. \E f \in [1..n -> S] : IsInjective(f)
  BY <1>1 DEF ExistsBijection, Bijection, Injection, IsInjective
<1>3. q \in [1..n -> S] /\ IsInjective(q)
  BY <1>2 DEF SetToSeq
<1>4. q \in Injection(1..n, S)
  BY <1>3 DEF Injection, IsInjective
<1>5. Cardinality(1..n) = n
  BY <1>1, FS_Interval
<1>6. q \in Surjection(1..n, S)
  BY <1>4, <1>5, FS_Injection
<1>7. q \in Seq(S)
  BY <1>1, <1>3, SeqDef
<1> QED
  BY <1>3, <1>6, <1>7 DEF Surjection, IsInjective

-----------------------------------------------------------------------------
(* Steps that book nothing.                                                 *)

\* The log keeps its rows, the job goes on, and the ledger only takes in what
\* is booked, or lets go.
LEMMA LogStays ==
  ASSUME IInv, Typed', Fed', Offered', marred \subseteq marred', job' = job,
         \A b \in Books : \A f \in Fills : Rows(b, f)' = Rows(b, f),
         \A b \in Books : \A i \in DOMAIN log[b] :
           log[b][i].reversed => log'[b][i].reversed,
         \A b \in Books : \A f \in DOMAIN ledger'[b] :
           \/ f \in DOMAIN ledger[b] /\ ledger'[b][f] = ledger[b][f]
           \/ Covered(b, f) /\ ledger'[b][f].source = "app"
  PROVE  IInv'
<1>1. \A b \in Books : \A f \in Fills : OnLog(b, f)' <=> OnLog(b, f)
  BY DEF Rows, OnLog
<1>2. \A b \in Books : DOMAIN ledger'[b] \subseteq Fills /\ DOMAIN ledger[b] \subseteq Fills
  BY DEF IInv, Typed, Ledgers
<1>3. Single'
  BY DEF IInv, Single
<1>4. Grouped'
  BY <1>1 DEF IInv, Grouped, AllOrNone, FillsOf
<1>5. Adopting'
  BY <1>1 DEF IInv, Typed, Adopting, WholeLegs, Torn, FillsOf, Idle, Adoptions, Reversals
<1>6. Recorded'
  BY <1>1, <1>2 DEF IInv, Recorded
<1>7. Reversing'
  <2>1. job.op = "reverse" => job.book \in Books /\ job.legs \subseteq Fills
    BY DEF IInv, Typed, Idle, Adoptions, Reversals
  <2>2. job.op = "reverse" => \A f \in job.legs : OnLog(job.book, f)'
    BY <1>1, <2>1 DEF IInv, Reversing
  <2>3. job.op = "reverse" => (\A f \in job.legs : OnLog(job.book, f))'
    BY <2>2 DEF OnLog
  <2> QED
    BY <2>1, <2>3 DEF IInv, Reversing, Rows
<1>8. Remembered'
  <2> SUFFICES ASSUME NEW b \in Books, NEW f \in DOMAIN ledger'[b] PROVE Covered(b, f)'
    BY DEF Remembered
  <2>1. f \in Fills /\ Covered(b, f)
    BY <1>2 DEF IInv, Remembered
  <2> QED
    BY <2>1, CoveredStays DEF IInv
<1> QED
  BY <1>3, <1>4, <1>5, <1>6, <1>7, <1>8 DEF IInv

\* Orders have their fills to themselves.
LEMMA OwnFills ==
  \A o, p \in Orders : o # p => FillsOf(o) \intersect FillsOf(p) = {}
BY DEF FillsOf

LEMMA TogetherStays ==
  ASSUME NEW rows, Together(rows), marred \subseteq marred',
         NEW o \in Orders, NEW more, more \subseteq FillsOf(o),
         more = FillsOf(o) \/ (o \notin Whole /\ FillsOf(o) \subseteq marred')
  PROVE  /\ \A p \in Orders : \/ p \notin Whole /\ FillsOf(p) \subseteq marred'
                              \/ FillsOf(p) \subseteq rows
                              \/ FillsOf(p) \intersect rows = {}
         /\ \A p \in Orders : \/ p \notin Whole /\ FillsOf(p) \subseteq marred'
                              \/ FillsOf(p) \subseteq rows \union more
                              \/ FillsOf(p) \intersect (rows \union more) = {}
BY OwnFills DEF Together, Torn

LEMMA AccountPreserves ==
  ASSUME IInv, NEW o \in Orders,
         \/ BrokerFills(o) \/ PollLost(o)
         \/ \E rows \in RowsOf(o) : Posts(o, rows) \/ Ages(o, rows)
  PROVE  IInv'
<1>1. UNCHANGED <<feed, log, ledger, proposals, job>>
  BY DEF BrokerFills, PollLost, Posts, Ages, book
<1>2. PICK more \in SUBSET FillsOf(o) :
        /\ more = FillsOf(o) \/ (o \notin Whole /\ FillsOf(o) \subseteq marred')
        /\ posted' \in {posted, posted \union more} /\ aged' \in {aged, aged \union more}
        /\ marred \subseteq marred'
  <2>1. CASE BrokerFills(o) \/ PollLost(o)
    <3>1. UNCHANGED <<posted, aged, marred>>
      BY <2>1 DEF BrokerFills, PollLost, account
    <3> QED
      BY <3>1
  <2>2. ASSUME NEW rows \in RowsOf(o), Posts(o, rows) \/ Ages(o, rows)
        PROVE  /\ rows \in SUBSET FillsOf(o)
               /\ rows = FillsOf(o) \/ (o \notin Whole /\ FillsOf(o) \subseteq marred')
               /\ posted' \in {posted, posted \union rows} /\ aged' \in {aged, aged \union rows}
               /\ marred \subseteq marred'
    BY <2>2 DEF Posts, Ages, RowsOf
  <2> QED
    BY <2>1, <2>2
<1>3. FillsOf(o) \subseteq Fills
  BY DEF FillsOf
<1>4. Typed'
  BY <1>1, <1>2, <1>3 DEF IInv, Typed
<1>5. Fed'
  <2>1. Together(posted) /\ Together(aged) /\ \A b \in Books : Together(feed[b].rows)
    BY DEF IInv, Fed
  <2>2. ASSUME NEW rows, NEW rows1 \in {rows, rows \union more}, Together(rows)
        PROVE  \A p \in Orders : \/ p \notin Whole /\ FillsOf(p) \subseteq marred'
                                \/ FillsOf(p) \subseteq rows1
                                \/ FillsOf(p) \intersect rows1 = {}
    BY <1>2, <2>2, TogetherStays
  <2>4. Together(posted)' /\ Together(aged)'
    <3>1. /\ \A p \in Orders : \/ p \notin Whole /\ FillsOf(p) \subseteq marred'
                             \/ FillsOf(p) \subseteq posted'
                             \/ FillsOf(p) \intersect posted' = {}
          /\ \A p \in Orders : \/ p \notin Whole /\ FillsOf(p) \subseteq marred'
                             \/ FillsOf(p) \subseteq aged'
                             \/ FillsOf(p) \intersect aged' = {}
      BY <1>2, <2>1, <2>2
    <3> QED
      BY <3>1 DEF Together, Torn, FillsOf
  <2>3. \A b \in Books : Together(feed[b].rows)'
    BY <1>1, <1>2, <2>1 DEF Together, Torn, FillsOf
  <2> QED
    BY <2>3, <2>4 DEF Fed
<1>6. Offered'
  BY <1>1, <1>2 DEF IInv, Offered, WholeLegs, Torn, FillsOf
<1> QED
  BY <1>1, <1>2, <1>4, <1>5, <1>6, LogStays DEF Rows

LEMMA FetchPreserves ==
  ASSUME IInv, NEW b \in Books, fetch_transactions(b) \/ DeepFetch(b) PROVE IInv'
<1>1. /\ UNCHANGED <<posted, aged, log, ledger, proposals, job, marred>>
      /\ \E rows \in {posted, posted \ aged} :
           feed' = [feed EXCEPT ![b] = [rows |-> rows, here |-> TRUE]]
  BY DEF fetch_transactions, DeepFetch, Fetched, account, book
<1>2. PICK rows \in {posted, posted \ aged} :
        feed' = [feed EXCEPT ![b] = [rows |-> rows, here |-> TRUE]]
  BY <1>1
<1>3. Typed'
  BY <1>1, <1>2 DEF IInv, Typed
<1>4. Together(rows)
  BY <1>2 DEF IInv, Fed, Together, Torn
<1>5. Fed'
  <2>1. \A c \in Books : feed'[c].rows = rows \/ feed'[c].rows = feed[c].rows
    BY <1>2 DEF IInv, Typed
  <2>2. \A c \in Books : Together(feed[c].rows)'
    BY <1>1, <1>4, <2>1 DEF IInv, Fed, Together, Torn, FillsOf
  <2> QED
    BY <1>1, <2>2 DEF IInv, Fed, Together, Torn, FillsOf
<1>6. Offered'
  BY <1>1 DEF IInv, Offered, WholeLegs, Torn, FillsOf
<1> QED
  BY <1>1, <1>3, <1>5, <1>6, LogStays DEF Rows

\* What a flag of one execution changes.
LEMMA Flagged ==
  ASSUME Typed, NEW b \in Books, NEW i, NEW flag \in BOOLEAN,
         \/ log' = [log EXCEPT ![b][i].excluded = flag]
         \/ flag = TRUE /\ log' = [log EXCEPT ![b][i].reversed = flag]
  PROVE  /\ log' \in [Books -> Seq(Execs)]
         /\ \A c \in Books : \A f \in Fills : Rows(c, f)' = Rows(c, f)
         /\ \A c \in Books : DOMAIN log'[c] = DOMAIN log[c]
         /\ \A c \in Books : \A j \in DOMAIN log[c] :
              log[c][j].reversed => log'[c][j].reversed
<1>1. /\ log \in [Books -> Seq(Execs)] /\ log[b] \in Seq(Execs)
      /\ \A j \in DOMAIN log[b] : log[b][j] \in Execs
  BY DEF Typed
<1>2. PICK new : /\ log' = [log EXCEPT ![b] = [log[b] EXCEPT ![i] = new]]
                 /\ \/ new = [log[b][i] EXCEPT !.excluded = flag]
                    \/ flag = TRUE /\ new = [log[b][i] EXCEPT !.reversed = flag]
  BY <1>1
<1>3. i \in DOMAIN log[b] => /\ new \in Execs /\ new.fill = log[b][i].fill
                             /\ log[b][i].reversed => new.reversed
  BY <1>1, <1>2 DEF Execs
<1> DEFINE s == [log[b] EXCEPT ![i] = new]
<1>4. /\ s \in Seq(Execs) /\ DOMAIN s = DOMAIN log[b]
      /\ \A j \in DOMAIN log[b] : s[j] = IF j = i THEN new ELSE log[b][j]
  <2>1. log[b] \in [1..Len(log[b]) -> Execs] /\ Len(log[b]) \in Nat
    BY <1>1
  <2>2. /\ s \in [1..Len(log[b]) -> Execs]
        /\ \A j \in DOMAIN log[b] : s[j] = IF j = i THEN new ELSE log[b][j]
    BY <1>3, <2>1
  <2> HIDE DEF s
  <2>3. s \in Seq(Execs)
    BY <2>1, <2>2, SeqDef
  <2> QED
    BY <2>1, <2>2, <2>3
<1> HIDE DEF s
<1>5. log' = [log EXCEPT ![b] = s]
  BY <1>2 DEF s
<1>6. /\ log' \in [Books -> Seq(Execs)] /\ \A c \in Books : DOMAIN log'[c] = DOMAIN log[c]
      /\ \A c \in Books : \A j \in DOMAIN log[c] :
           /\ log'[c][j].fill = log[c][j].fill
           /\ log[c][j].reversed => log'[c][j].reversed
  BY <1>1, <1>3, <1>4, <1>5
<1> QED
  BY <1>6 DEF Rows

LEMMA CorrectionPreserves ==
  ASSUME IInv, NEW b \in Books,
         \/ \E i \in DOMAIN log[b] : void_executions(b, i) \/ restore_executions(b, i)
         \/ \E f \in Fills : release_ingested(b, f)
  PROVE  IInv'
<1>1. UNCHANGED <<posted, aged, feed, proposals, job>> /\ marred \subseteq marred' /\ job = Idle
  BY DEF void_executions, restore_executions, release_ingested, SetExcluded, account
<1>2. Fed' /\ Offered'
  BY <1>1 DEF IInv, Fed, Together, Torn, Offered, WholeLegs, FillsOf
<1>3. ASSUME NEW i \in DOMAIN log[b], void_executions(b, i) \/ restore_executions(b, i)
      PROVE  IInv'
  <2>1. PICK flag \in BOOLEAN : log' = [log EXCEPT ![b][i].excluded = flag]
    BY <1>3 DEF void_executions, restore_executions, SetExcluded
  <2>2. ledger' = ledger
    BY <1>3 DEF void_executions, restore_executions, SetExcluded
  <2>3. /\ log' \in [Books -> Seq(Execs)]
        /\ \A c \in Books : \A f \in Fills : Rows(c, f)' = Rows(c, f)
        /\ \A c \in Books : \A j \in DOMAIN log[c] :
             log[c][j].reversed => log'[c][j].reversed
    BY <2>1, Flagged DEF IInv
  <2>4. Typed'
    BY <1>1, <2>2, <2>3 DEF IInv, Typed
  <2> QED
    BY <1>1, <1>2, <2>2, <2>3, <2>4, LogStays
<1>4. ASSUME NEW f \in Fills, release_ingested(b, f) PROVE IInv'
  <2>1. /\ UNCHANGED <<log, marred>>
        /\ ledger' = [ledger EXCEPT ![b] = [g \in DOMAIN ledger[b] \ {f} |-> ledger[b][g]]]
    BY <1>4 DEF release_ingested
  <2>2. ledger \in [Books -> Ledgers] /\ ledger[b] \in Ledgers
    BY DEF IInv, Typed
  <2> DEFINE left == [g \in DOMAIN ledger[b] \ {f} |-> ledger[b][g]]
  <2>3. left \in Ledgers
    <3>1. PICK rows \in SUBSET Fills : ledger[b] \in [rows -> Entries]
      BY <2>2 DEF Ledgers
    <3>2. left \in [rows \ {f} -> Entries]
      BY <3>1
    <3>3. rows \ {f} \in SUBSET Fills
      OBVIOUS
    <3> QED
      BY <3>2, <3>3 DEF Ledgers
  <2> HIDE DEF left
  <2>4. Typed'
    BY <1>1, <2>1, <2>2, <2>3 DEF IInv, Typed, left
  <2>5. \A c \in Books : \A g \in DOMAIN ledger'[c] :
          g \in DOMAIN ledger[c] /\ ledger'[c][g] = ledger[c][g]
    BY <2>1, <2>2
  <2> QED
    BY <1>1, <1>2, <2>1, <2>4, <2>5, LogStays DEF Rows, Idle
<1> QED
  BY <1>3, <1>4

-----------------------------------------------------------------------------
(* Ingestion and adoption.                                                  *)

LEMMA RecordedLedger ==
  ASSUME Typed, NEW b \in Books, NEW rows \in SUBSET Fills, NEW entry \in Entries,
         ledger' = [ledger EXCEPT ![b] = record_ingested(b, rows, entry)]
  PROVE  /\ ledger' \in [Books -> Ledgers]
         /\ \A c \in Books \ {b} : ledger'[c] = ledger[c]
         /\ DOMAIN ledger'[b] = DOMAIN ledger[b] \union rows
         /\ \A f \in DOMAIN ledger'[b] :
              ledger'[b][f] = IF f \in DOMAIN ledger[b] THEN ledger[b][f] ELSE entry
<1> DEFINE now == record_ingested(b, rows, entry)
<1>1. PICK old \in SUBSET Fills : ledger[b] \in [old -> Entries]
  BY DEF Typed, Ledgers
<1>2. /\ now \in [old \union rows -> Entries]
      /\ \A f \in old \union rows : now[f] = IF f \in old THEN ledger[b][f] ELSE entry
  BY <1>1 DEF record_ingested
<1>3. old \union rows \in SUBSET Fills
  OBVIOUS
<1>4. now \in Ledgers
  BY <1>2, <1>3 DEF Ledgers
<1> HIDE DEF now
<1>5. ledger' = [ledger EXCEPT ![b] = now] /\ ledger \in [Books -> Ledgers]
  BY DEF now, Typed
<1> QED
  BY <1>1, <1>2, <1>4, <1>5

LEMMA EntryTyped ==
  ASSUME NEW source \in {"app", "broker_manual"}, NEW ids \in SUBSET Nat,
         NEW o \in Orders \union {"none"}
  PROVE  Entry(source, ids, o) \in Entries /\ Entry(source, ids, o).source = source
         /\ Entry(source, ids, o).execution_ids = ids
BY DEF Entry, Entries

LEMMA IngestPreserves ==
  ASSUME IInv, NEW b \in Books, run_ingestion(b) PROVE IInv'
<1> DEFINE rows == feed[b].rows
           matched == {o \in NewGroups(b, rows) : IsApp(b, Group(rows, o))}
           open == NewGroups(b, rows) \ matched
           confirmed == UNION {Fresh(b, rows, o) : o \in matched}
           entry == Entry("app", {}, "none")
<1>1. /\ UNCHANGED <<posted, aged, log, job, marred>>
      /\ feed' = [feed EXCEPT ![b] = NotFetched]
      /\ ledger' = [ledger EXCEPT ![b] = record_ingested(b, confirmed, entry)]
      /\ proposals' = [proposals EXCEPT ![b] = {Proposal(b, rows, o) : o \in open}]
  BY DEF run_ingestion, _persist_report, account
<1>2. rows \in SUBSET Fills /\ NotFetched.rows = {} /\ NotFetched \in [rows : SUBSET Fills, here : BOOLEAN]
  BY DEF IInv, Typed, NotFetched
<1>3. entry \in Entries /\ entry.source = "app"
  BY EntryTyped
<1>4. ASSUME NEW o \in matched PROVE \A f \in Fresh(b, rows, o) : f \in Fills /\ Covered(b, f)
  <2>1. o \in Orders /\ Group(rows, o) \in SUBSET Fills /\ Group(rows, o) = rows \intersect FillsOf(o)
    BY <1>2 DEF Group, NewGroups
  <2>2. \A f \in Group(rows, o) : Twins(f) \subseteq Group(rows, o)
    <3>1. WholeLegs(o, Group(rows, o)) \/ Group(rows, o) = {}
      BY <2>1 DEF IInv, Fed, Together, Torn, WholeLegs
    <3> QED
      BY <2>1, <3>1, TwinsTogether
  <2>3. _group_already_booked(b, Group(rows, o)) /\ Typed
    BY <1>4 DEF IsApp, IInv
  <2>4. \A f \in Group(rows, o) : Covered(b, f)
    BY <2>1, <2>2, <2>3, MatchedIsCovered
  <2> QED
    BY <2>1, <2>4 DEF Fresh
<1>5. confirmed \in SUBSET Fills /\ \A f \in confirmed : Covered(b, f)
  BY <1>4
<1>6. ASSUME NEW o \in open
      PROVE  /\ Proposal(b, rows, o) \in Offers /\ Proposal(b, rows, o).order = o
             /\ WholeLegs(o, Proposal(b, rows, o).legs)
  <2>1. o \in Orders /\ Fresh(b, rows, o) # {} /\ Fresh(b, rows, o) \subseteq Group(rows, o)
        /\ Group(rows, o) = rows \intersect FillsOf(o)
    BY <1>6 DEF NewGroups, Fresh, Group
  <2>2. WholeLegs(o, Group(rows, o))
    BY <2>1 DEF IInv, Fed, Together, Torn, WholeLegs
  <2>3. Fresh(b, rows, o) \in SUBSET Fills /\ Group(rows, o) \in SUBSET Fills
    BY <1>2, <2>1
  <2> QED
    BY <2>1, <2>2, <2>3 DEF Proposal, Offers
<1> DEFINE offers == {Proposal(b, rows, o) : o \in open}
<1>7. offers \in SUBSET Offers /\ \A p \in offers : WholeLegs(p.order, p.legs)
  BY <1>6
<1>8. /\ proposals' = [proposals EXCEPT ![b] = offers] /\ proposals \in [Books -> SUBSET Offers]
  BY <1>1 DEF IInv, Typed
<1> HIDE DEF rows, matched, open, confirmed, entry, offers
<1>9. PICK new \in SUBSET Offers : new = offers
  BY <1>7
<1>10. Offered'
  <2>1. \A c \in Books : \A p \in proposals'[c] : WholeLegs(p.order, p.legs)
    BY <1>7, <1>8 DEF IInv, Offered
  <2> QED
    BY <1>1, <2>1 DEF Offered, WholeLegs, Torn, FillsOf
<1>11. /\ ledger' \in [Books -> Ledgers]
       /\ \A c \in Books \ {b} : ledger'[c] = ledger[c]
       /\ DOMAIN ledger'[b] = DOMAIN ledger[b] \union confirmed
       /\ \A f \in DOMAIN ledger'[b] :
            ledger'[b][f] = IF f \in DOMAIN ledger[b] THEN ledger[b][f] ELSE entry
  BY <1>1, <1>3, <1>5, RecordedLedger DEF IInv
<1>12. Typed'
  BY <1>1, <1>2, <1>7, <1>8, <1>11 DEF IInv, Typed
<1>13. Fed'
  <2>1. \A c \in Books : feed'[c].rows = feed[c].rows \/ feed'[c].rows = {}
    BY <1>1, <1>2 DEF IInv, Typed
  <2> QED
    BY <1>1, <2>1 DEF IInv, Fed, Together, Torn, FillsOf
<1>14. \A c \in Books : \A f \in DOMAIN ledger'[c] :
          \/ f \in DOMAIN ledger[c] /\ ledger'[c][f] = ledger[c][f]
          \/ Covered(c, f) /\ ledger'[c][f].source = "app"
  BY <1>3, <1>5, <1>11
<1> QED
  BY <1>1, <1>10, <1>12, <1>13, <1>14, LogStays DEF Rows

LEMMA Dropped ==
  ASSUME IInv, NEW b \in Books, NEW o, DropProposal(b, o), marred \subseteq marred'
  PROVE  proposals' \in [Books -> SUBSET Offers] /\ Offered'
<1>1. /\ proposals' \in [Books -> SUBSET Offers]
      /\ \A c \in Books : proposals'[c] \subseteq proposals[c]
  BY DEF DropProposal, IInv, Typed
<1> QED
  BY <1>1 DEF IInv, Offered, WholeLegs, Torn, FillsOf

LEMMA AdoptPreserves ==
  ASSUME IInv, NEW b \in Books, NEW p \in proposals[b], adopt_broker_trade(b, p)
  PROVE  IInv'
<1>1. /\ job = Idle /\ UNCHANGED <<posted, aged, feed, marred, log>>
      /\ Refuse(b, p) \/ StartAdoption(b, p)
  BY DEF adopt_broker_trade, account, Refuse, StartAdoption, book
<1>2. /\ p \in Offers /\ p.legs \in SUBSET Fills /\ p.order \in Orders
      /\ WholeLegs(p.order, p.legs)
  BY DEF IInv, Typed, Offered, Offers
<1>3. Fed'
  BY <1>1 DEF IInv, Fed, Together, Torn, FillsOf
<1>4. CASE Refuse(b, p)
  <2>1. /\ \A f \in p.legs : Covered(b, f)
        /\ ledger' = [ledger EXCEPT ![b] = record_ingested(b, p.legs, Entry("app", {}, "none"))]
        /\ DropProposal(b, p.order) /\ job' = job
    <3>1. \A f \in p.legs : Twins(f) \subseteq p.legs
      BY <1>2, TwinsTogether
    <3>2. \A f \in p.legs : Covered(b, f)
      BY <1>2, <1>4, <3>1, MatchedIsCovered DEF Refuse, Stale, IInv
    <3> QED
      BY <1>4, <3>2 DEF Refuse
  <2>2. /\ ledger' \in [Books -> Ledgers]
        /\ \A c \in Books \ {b} : ledger'[c] = ledger[c]
        /\ DOMAIN ledger'[b] = DOMAIN ledger[b] \union p.legs
        /\ \A f \in DOMAIN ledger'[b] : ledger'[b][f] =
             IF f \in DOMAIN ledger[b] THEN ledger[b][f] ELSE Entry("app", {}, "none")
    <3>1. PICK entry \in Entries : entry = Entry("app", {}, "none")
      BY EntryTyped
    <3>2. PICK legs \in SUBSET Fills : legs = p.legs
      BY <1>2
    <3>3. Typed /\ ledger' = [ledger EXCEPT ![b] = record_ingested(b, legs, entry)]
      BY <2>1, <3>1, <3>2 DEF IInv
    <3>4. /\ ledger' \in [Books -> Ledgers]
          /\ \A c \in Books \ {b} : ledger'[c] = ledger[c]
          /\ DOMAIN ledger'[b] = DOMAIN ledger[b] \union legs
          /\ \A f \in DOMAIN ledger'[b] :
               ledger'[b][f] = IF f \in DOMAIN ledger[b] THEN ledger[b][f] ELSE entry
      BY <3>3, RecordedLedger
    <3> QED
      BY <3>1, <3>2, <3>4
  <2>3. proposals' \in [Books -> SUBSET Offers] /\ Offered'
    BY <1>1, <2>1, Dropped
  <2>4. Typed'
    BY <1>1, <2>1, <2>2, <2>3 DEF IInv, Typed
  <2>5. \A c \in Books : \A f \in DOMAIN ledger'[c] :
          \/ f \in DOMAIN ledger[c] /\ ledger'[c][f] = ledger[c][f]
          \/ Covered(c, f) /\ ledger'[c][f].source = "app"
    BY <2>1, <2>2, EntryTyped
  <2> QED
    BY <1>1, <1>3, <2>1, <2>2, <2>3, <2>4, <2>5, LogStays DEF Rows, Idle
<1>5. CASE StartAdoption(b, p)
  <2>1. /\ job' = [op |-> "adopt", book |-> b, order |-> p.order, legs |-> p.legs,
                   left |-> p.legs, ids |-> {}]
        /\ UNCHANGED <<log, ledger, proposals>>
    BY <1>5 DEF StartAdoption, book
  <2>2. PICK f \in p.legs : ~OnLog(b, f)
    BY <1>2, <1>5, OnLogIsMatched DEF StartAdoption, Stale, IInv
  <2>3. FillsOf(p.order) \subseteq marred \/ \A g \in p.legs : ~OnLog(b, g)
    BY <1>1, <1>2, <2>2 DEF IInv, Grouped, AllOrNone, WholeLegs, Torn, Idle
  <2>4. Typed'
    BY <1>1, <1>2, <2>1 DEF IInv, Typed, Adoptions
  <2>5. Offered' /\ Single' /\ Recorded' /\ Remembered'
    <3>1. Offered' /\ Single' /\ Recorded'
      BY <1>1, <2>1 DEF IInv, Offered, WholeLegs, Torn, FillsOf, Single, Recorded, OnLog, Rows
    <3>2. ASSUME NEW c \in Books, NEW g \in DOMAIN ledger[c] PROVE Covered(c, g)'
      <4>1. /\ g \in Fills /\ Covered(c, g) /\ Typed
            /\ \A h \in Fills : Rows(c, h) \subseteq Rows(c, h)'
        BY <2>1 DEF IInv, Typed, Ledgers, Remembered, Rows
      <4> QED
        BY <2>4, <4>1, CoveredStays
    <3> QED
      BY <2>1, <3>1, <3>2 DEF Remembered
  <2>6. Grouped'
    BY <1>1, <2>1 DEF IInv, Grouped, AllOrNone, FillsOf, OnLog, Idle
  <2>7. Adopting'
    <3>1. \A g \in p.legs : ~OnLog(b, g) => Rows(b, g) = {}
      BY DEF Rows, OnLog
    <3> QED
      BY <1>1, <1>2, <2>1, <2>3, <3>1 DEF Adopting, WholeLegs, Torn, FillsOf, OnLog, Rows
  <2>8. Reversing'
    BY <2>1 DEF Reversing
  <2> QED
    BY <1>3, <2>4, <2>5, <2>6, <2>7, <2>8 DEF IInv
<1> QED
  BY <1>1, <1>4, <1>5

\* One more execution on the log of a book.
LEMMA Appended ==
  ASSUME Typed, NEW b \in Books, NEW f \in Fills, NEW e \in Execs, e.fill = f,
         log' = [log EXCEPT ![b] = Append(@, e)]
  PROVE  /\ log' \in [Books -> Seq(Execs)] /\ Len(log[b]) + 1 \in Nat
         /\ Rows(b, f)' = Rows(b, f) \union {Len(log[b]) + 1}
         /\ \A c \in Books : \A g \in Fills : c # b \/ g # f => Rows(c, g)' = Rows(c, g)
<1>1. /\ log \in [Books -> Seq(Execs)] /\ log[b] \in Seq(Execs) /\ Len(log[b]) \in Nat
      /\ DOMAIN log[b] = 1..Len(log[b])
  BY DEF Typed
<1> DEFINE new == Append(log[b], e)
<1>2. /\ new \in Seq(Execs) /\ DOMAIN new = 1..(Len(log[b]) + 1)
      /\ \A i \in 1..Len(log[b]) : new[i] = log[b][i]
      /\ new[Len(log[b]) + 1] = e
  BY <1>1
<1>3. log' = [log EXCEPT ![b] = new]
  OBVIOUS
<1> HIDE DEF new
<1>4. log' \in [Books -> Seq(Execs)] /\ log'[b] = new /\ \A c \in Books \ {b} : log'[c] = log[c]
  BY <1>1, <1>2, <1>3
<1>5. \A g \in Fills : Rows(b, g)' = {i \in 1..(Len(log[b]) + 1) : new[i].fill = g}
  BY <1>2, <1>4 DEF Rows
<1>6. \A g \in Fills : Rows(b, g) = {i \in 1..Len(log[b]) : new[i].fill = g}
  BY <1>1, <1>2 DEF Rows
<1>7. Rows(b, f)' = Rows(b, f) \union {Len(log[b]) + 1}
  BY <1>1, <1>2, <1>5, <1>6
<1>8. \A g \in Fills : g # f => Rows(b, g)' = Rows(b, g)
  <2>1. \A g \in Fills : \A i \in 1..(Len(log[b]) + 1) :
          g # f /\ new[i].fill = g => i \in 1..Len(log[b])
    BY <1>1, <1>2
  <2>2. \A i \in 1..Len(log[b]) : i \in 1..(Len(log[b]) + 1)
    BY <1>1
  <2> QED
    BY <1>5, <1>6, <2>1, <2>2
<1>9. \A c \in Books \ {b} : \A g \in Fills : Rows(c, g)' = Rows(c, g)
  BY <1>4 DEF Rows
<1> QED
  BY <1>1, <1>4, <1>7, <1>8, <1>9

\* What the adoption under way knows.
LEMMA AdoptionFacts ==
  ASSUME IInv, job.op = "adopt"
  PROVE  /\ job \in Adoptions /\ job.book \in Books /\ job.order \in Orders
         /\ job.legs \in SUBSET Fills /\ job.left \in SUBSET job.legs /\ job.ids \in SUBSET Nat
         /\ WholeLegs(job.order, job.legs)
         /\ \A f \in job.legs \ job.left : OnLog(job.book, f)
         /\ ~(job.legs \subseteq marred) =>
              /\ \A f \in job.left : ~OnLog(job.book, f)
              /\ \A f \in job.legs : Rows(job.book, f) \subseteq job.ids
BY DEF IInv, Typed, Adopting, Idle, Adoptions, Reversals

LEMMA BookedRows == \A b, f : OnLog(b, f) <=> Rows(b, f) # {}
BY DEF OnLog, Rows

LEMMA AdoptLegPreserves ==
  ASSUME IInv, NEW f \in Fills, AdoptLeg(f) PROVE IInv'
<1>1. /\ job.op = "adopt" /\ f \in job.left
      /\ log' = [log EXCEPT ![job.book] = Append(@, Execution(f, "broker_manual"))]
      /\ job' = [job EXCEPT !.left = job.left \ {f},
                            !.ids = job.ids \union {Len(log[job.book]) + 1}]
      /\ UNCHANGED <<posted, aged, feed, ledger, proposals, marred>>
  BY DEF AdoptLeg, NextLegs, append_execution, NewId, account
<1>2. PICK b \in Books, n \in Nat :
        /\ job.book = b /\ n = Len(log[b]) + 1
        /\ job \in Adoptions /\ job.order \in Orders
        /\ job.legs \in SUBSET Fills /\ job.left \in SUBSET job.legs /\ job.ids \in SUBSET Nat
        /\ WholeLegs(job.order, job.legs)
        /\ \A g \in job.legs \ job.left : OnLog(b, g)
        /\ ~(job.legs \subseteq marred) =>
             /\ \A g \in job.left : ~OnLog(b, g)
             /\ \A g \in job.legs : Rows(b, g) \subseteq job.ids
  <2>1. job.book \in Books /\ Len(log[job.book]) + 1 \in Nat
    BY <1>1, AdoptionFacts DEF IInv, Typed
  <2>2. PICK b \in Books, n \in Nat : job.book = b /\ n = Len(log[b]) + 1
    BY <2>1
  <2> QED
    BY <1>1, <2>2, AdoptionFacts
<1>3. /\ log' \in [Books -> Seq(Execs)] /\ n \in Nat
      /\ Rows(b, f)' = Rows(b, f) \union {n}
      /\ \A c \in Books : \A g \in Fills : c # b \/ g # f => Rows(c, g)' = Rows(c, g)
  <2>1. PICK e \in Execs : e.fill = f /\ e = Execution(f, "broker_manual")
    BY DEF Execution, Execs
  <2>2. Typed /\ log' = [log EXCEPT ![b] = Append(@, e)]
    BY <1>1, <1>2, <2>1 DEF IInv
  <2>3. /\ log' \in [Books -> Seq(Execs)]
        /\ Rows(b, f)' = Rows(b, f) \union {Len(log[b]) + 1}
        /\ \A c \in Books : \A g \in Fills : c # b \/ g # f => Rows(c, g)' = Rows(c, g)
    BY <2>1, <2>2, Appended
  <2> QED
    BY <1>2, <2>3
<1>4. /\ job' \in Adoptions /\ job'.op = "adopt" /\ job'.book = b /\ job'.order = job.order
      /\ job'.legs = job.legs /\ job'.left = job.left \ {f} /\ job'.ids = job.ids \union {n}
  BY <1>1, <1>2, <1>3 DEF Adoptions
<1>5. Typed'
  BY <1>1, <1>3, <1>4 DEF IInv, Typed
<1>6. Fed' /\ Offered'
  BY <1>1 DEF IInv, Fed, Together, Torn, Offered, WholeLegs, FillsOf
<1>7. /\ \A c \in Books : \A g \in Fills : OnLog(c, g) => OnLog(c, g)'
      /\ \A c \in Books : \A g \in Fills : c # b \/ g # f => (OnLog(c, g)' <=> OnLog(c, g))
      /\ OnLog(b, f)'
  <2>1. \A c \in Books : \A g \in Fills : OnLog(c, g)' <=> Rows(c, g)' # {}
    BY DEF OnLog, Rows
  <2>2. \A c \in Books : \A g \in Fills : OnLog(c, g) <=> Rows(c, g) # {}
    BY BookedRows
  <2> HIDE DEF OnLog, Rows
  <2>3. ASSUME NEW c \in Books, NEW g \in Fills, c # b \/ g # f
        PROVE  OnLog(c, g)' <=> OnLog(c, g)
    BY <1>3, <2>1, <2>2, <2>3
  <2>4. OnLog(b, f)'
    BY <1>2, <1>3, <2>1
  <2> QED
    BY <2>3, <2>4
<1>8. f \notin marred => /\ Rows(b, f) = {}
                         /\ f \in DOMAIN ledger[b] => ledger[b][f].source # "broker_manual"
  BY <1>1, <1>2, BookedRows DEF IInv, Recorded
<1>9. Single'
  BY <1>1, <1>2, <1>3, <1>8 DEF IInv, Single
<1>10. Grouped'
  <2> SUFFICES ASSUME NEW o \in Orders, ~(FillsOf(o) \subseteq marred), NEW c \in Books
               PROVE  AllOrNone(c, o)'
    BY <1>1 DEF Grouped, FillsOf
  <2>1. FillsOf(o) \subseteq Fills /\ AllOrNone(c, o)
    BY DEF IInv, Grouped, FillsOf
  <2>2. CASE c = b /\ o = job.order
    BY <1>4, <2>2 DEF AllOrNone
  <2>3. CASE c # b
    BY <1>2, <1>7, <2>1, <2>3 DEF AllOrNone, FillsOf
  <2>4. CASE o # job.order
    <3>1. f \notin FillsOf(o)
      BY <1>1, <1>2, <2>4, OwnFills DEF WholeLegs
    <3> QED
      BY <1>4, <1>7, <2>1, <2>4, <3>1 DEF AllOrNone, FillsOf
  <2> QED
    BY <2>2, <2>3, <2>4
<1>11. Adopting'
  <2>1. WholeLegs(job.order, job.legs)'
    BY <1>1, <1>2, <1>4 DEF WholeLegs, Torn, FillsOf
  <2>2. \A g \in job'.legs \ job'.left : OnLog(b, g)'
    BY <1>2, <1>4, <1>7
  <2>3. ~(job.legs \subseteq marred) =>
          /\ \A g \in job'.left : ~OnLog(b, g)'
          /\ \A g \in job'.legs : Rows(b, g)' \subseteq job'.ids
    BY <1>2, <1>3, <1>4, <1>7
  <2>4. job'.left \subseteq job'.legs
    BY <1>2, <1>4
  <2> QED
    BY <1>1, <1>4, <2>1, <2>2, <2>3, <2>4 DEF Adopting, OnLog, Rows
<1>12. Recorded'
  <2> SUFFICES ASSUME NEW c \in Books, NEW g \in DOMAIN ledger[c],
                      ledger[c][g].source = "broker_manual"
               PROVE  /\ OnLog(c, g)'
                      /\ g \notin marred => Rows(c, g)' \subseteq ledger[c][g].execution_ids
    BY <1>1 DEF Recorded
  <2>1. g \in Fills /\ (g \in marred \/ c # b \/ g # f)
    BY <1>8 DEF IInv, Typed, Ledgers
  <2> QED
    BY <1>3, <1>7, <2>1 DEF IInv, Recorded
<1>13. Reversing'
  BY <1>4 DEF Reversing
<1>14. Remembered'
  <2> SUFFICES ASSUME NEW c \in Books, NEW g \in DOMAIN ledger[c] PROVE Covered(c, g)'
    BY <1>1 DEF Remembered
  <2>1. g \in Fills /\ Covered(c, g) /\ Typed
    BY DEF IInv, Typed, Ledgers, Remembered
  <2>2. \A h \in Fills : Rows(c, h) \subseteq Rows(c, h)'
    BY <1>3
  <2> QED
    BY <1>5, <2>1, <2>2, CoveredStays
<1> QED
  BY <1>5, <1>6, <1>9, <1>10, <1>11, <1>12, <1>13, <1>14 DEF IInv

LEMMA AdoptionDonePreserves ==
  ASSUME IInv, AdoptionDone PROVE IInv'
<1>1. /\ job.op = "adopt" /\ job.left = {} /\ job' = Idle
      /\ ledger' = [ledger EXCEPT ![job.book] =
           record_ingested(job.book, job.legs, Entry("broker_manual", job.ids, job.order))]
      /\ DropProposal(job.book, job.order)
      /\ UNCHANGED <<posted, aged, feed, log, marred>>
  BY DEF AdoptionDone, account
<1>2. PICK b \in Books, o \in Orders, legs \in SUBSET Fills, ids \in SUBSET Nat :
        /\ job.book = b /\ job.order = o /\ job.legs = legs /\ job.ids = ids
        /\ WholeLegs(o, legs) /\ \A f \in legs : OnLog(b, f)
        /\ ~(legs \subseteq marred) => \A f \in legs : Rows(b, f) \subseteq ids
  BY <1>1, AdoptionFacts
<1>3. PICK entry \in Entries : /\ entry = Entry("broker_manual", ids, o)
                               /\ entry.execution_ids = ids
  BY EntryTyped
<1>4. /\ ledger' \in [Books -> Ledgers]
      /\ \A c \in Books \ {b} : ledger'[c] = ledger[c]
      /\ DOMAIN ledger'[b] = DOMAIN ledger[b] \union legs
      /\ \A f \in DOMAIN ledger'[b] :
           ledger'[b][f] = IF f \in DOMAIN ledger[b] THEN ledger[b][f] ELSE entry
  <2>1. Typed /\ ledger' = [ledger EXCEPT ![b] = record_ingested(b, legs, entry)]
    BY <1>1, <1>2, <1>3 DEF IInv
  <2> QED
    BY <2>1, RecordedLedger
<1>5. proposals' \in [Books -> SUBSET Offers] /\ Offered'
  BY <1>1, <1>2, Dropped
<1>6. Typed'
  BY <1>1, <1>4, <1>5 DEF IInv, Typed
<1>7. Fed' /\ Single'
  BY <1>1 DEF IInv, Fed, Together, Torn, Single, FillsOf, Rows
<1>8. Grouped'
  BY <1>1, <1>2 DEF IInv, Grouped, AllOrNone, WholeLegs, Torn, FillsOf, OnLog
<1>9. Adopting' /\ Reversing'
  BY <1>1 DEF Adopting, Reversing, Idle
<1>10. Recorded'
  BY <1>1, <1>2, <1>3, <1>4 DEF IInv, Recorded, Rows, OnLog
<1>11. Remembered'
  <2>1. ASSUME NEW f \in legs PROVE Covered(b, f)
    <3>1. Twins(f) \subseteq legs /\ f \in Fills
      BY <1>2, TwinsTogether
    <3> QED
      BY <1>2, <3>1, TwinsAre, Enough DEF Covered, IInv
  <2>2. \A c \in Books : \A f \in DOMAIN ledger'[c] : Covered(c, f)
    BY <1>4, <2>1 DEF IInv, Remembered
  <2>3. ASSUME NEW c \in Books, NEW f \in DOMAIN ledger'[c] PROVE Covered(c, f)'
    <3>1. f \in Fills /\ Typed /\ \A g \in Fills : Rows(c, g) \subseteq Rows(c, g)'
      BY <1>1, <1>6 DEF Typed, Ledgers, IInv, Rows
    <3> QED
      BY <1>6, <2>2, <3>1, CoveredStays
  <2> QED
    BY <2>3 DEF Remembered
<1> QED
  BY <1>5, <1>6, <1>7, <1>8, <1>9, <1>10, <1>11 DEF IInv

-----------------------------------------------------------------------------
(* Reversal, the death of the process, and the order poll.                  *)

\* A change of job that adopts nothing before or after.
LEMMA JobMoves ==
  ASSUME IInv, Typed', job.op # "adopt", job'.op # "adopt",
         UNCHANGED <<posted, aged, feed, proposals, marred>>,
         \A b \in Books : \A f \in Fills : Rows(b, f)' = Rows(b, f),
         \A b \in Books : \A f \in DOMAIN ledger'[b] :
           f \in DOMAIN ledger[b] /\ ledger'[b][f] = ledger[b][f],
         Reversing'
  PROVE  IInv'
<1>1. \A b \in Books : \A f \in Fills : OnLog(b, f)' <=> OnLog(b, f)
  BY DEF Rows, OnLog
<1>2. \A b \in Books : DOMAIN ledger'[b] \subseteq Fills /\ DOMAIN ledger[b] \subseteq Fills
  BY DEF IInv, Typed, Ledgers
<1>3. Fed' /\ Offered' /\ Single'
  BY DEF IInv, Fed, Together, Torn, Offered, WholeLegs, Single, FillsOf
<1>4. Grouped'
  BY <1>1 DEF IInv, Grouped, AllOrNone, FillsOf
<1>5. Adopting'
  BY DEF Adopting
<1>6. Recorded'
  BY <1>1, <1>2 DEF IInv, Recorded
<1>7. Remembered'
  <2> SUFFICES ASSUME NEW b \in Books, NEW f \in DOMAIN ledger'[b] PROVE Covered(b, f)'
    BY DEF Remembered
  <2>1. f \in Fills /\ Covered(b, f) /\ Typed
    BY <1>2 DEF IInv, Remembered
  <2> QED
    BY <2>1, CoveredStays
<1> QED
  BY <1>3, <1>4, <1>5, <1>6, <1>7 DEF IInv

LEMMA StartReversalPreserves ==
  ASSUME IInv, NEW b \in Books, NEW o \in Orders, reverse_adoption(b, o) PROVE IInv'
<1> DEFINE found == AdoptedExecutions(b, o)
           rows == AdoptedRows(b, o)
<1>1. /\ job = Idle
      /\ job' = [op |-> "reverse", book |-> b, order |-> o, legs |-> rows,
                 left |-> {i \in found : ~log[b][i].reversed}, ids |-> {}]
      /\ UNCHANGED <<posted, aged, feed, log, ledger, proposals, marred>>
  BY DEF reverse_adoption, account, book
<1>2. PICK known \in SUBSET Fills : ledger[b] \in [known -> Entries]
  BY DEF IInv, Typed, Ledgers
<1>3. /\ rows \in SUBSET Fills /\ rows \subseteq DOMAIN ledger[b]
      /\ \A f \in rows : ledger[b][f].source = "broker_manual"
                         /\ ledger[b][f].execution_ids \subseteq found
                         /\ ledger[b][f].execution_ids \subseteq Nat
  BY <1>2 DEF AdoptedRows, AdoptedExecutions, Entries
<1>4. found \in SUBSET Nat
  BY <1>3 DEF AdoptedExecutions
<1> HIDE DEF found, rows
<1>5. job' \in Reversals
  BY <1>1, <1>3, <1>4 DEF Reversals
<1>6. Typed'
  BY <1>1, <1>5 DEF IInv, Typed
<1>7. Reversing'
  BY <1>1, <1>3 DEF IInv, Recorded, Reversing, Rows, OnLog
<1>8. job.op # "adopt" /\ job'.op # "adopt"
  BY <1>1 DEF Idle
<1> QED
  BY <1>1, <1>6, <1>7, <1>8, JobMoves DEF Rows

LEMMA ReversalFacts ==
  ASSUME IInv, job.op = "reverse"
  PROVE  /\ job \in Reversals /\ job.book \in Books /\ job.legs \in SUBSET Fills
         /\ job.left \in SUBSET Nat
         /\ \A f \in job.legs : OnLog(job.book, f)
         /\ \A f \in job.legs \ marred : \A i \in Rows(job.book, f) :
              log[job.book][i].reversed \/ i \in job.left
BY DEF IInv, Typed, Reversing, Idle, Adoptions, Reversals

LEMMA ReverseLegPreserves ==
  ASSUME IInv, ReverseLeg PROVE IInv'
<1>1. PICK last : /\ log' = [log EXCEPT ![job.book][last].reversed = TRUE]
                  /\ job' = [job EXCEPT !.left = job.left \ {last}]
  BY DEF ReverseLeg
<1>2. job.op = "reverse" /\ UNCHANGED <<posted, aged, feed, ledger, proposals, marred>>
  BY DEF ReverseLeg, account
<1>3. PICK b \in Books, legs \in SUBSET Fills :
        /\ job.book = b /\ job.legs = legs
        /\ job \in Reversals /\ job.left \in SUBSET Nat /\ \A f \in legs : OnLog(b, f)
        /\ \A f \in legs \ marred : \A i \in Rows(b, f) : log[b][i].reversed \/ i \in job.left
  BY <1>2, ReversalFacts
<1>4. /\ job' \in Reversals /\ job'.op = "reverse" /\ job'.book = b /\ job'.legs = legs
      /\ job'.left = job.left \ {last}
  BY <1>1, <1>2, <1>3 DEF Reversals
<1>5. log' = [log EXCEPT ![b][last].reversed = TRUE]
  BY <1>1, <1>3
<1>6. /\ log' \in [Books -> Seq(Execs)]
      /\ \A c \in Books : \A f \in Fills : Rows(c, f)' = Rows(c, f)
      /\ \A c \in Books : \A j \in DOMAIN log[c] :
           log[c][j].reversed => log'[c][j].reversed
  BY <1>5, Flagged DEF IInv
<1>7. last \in DOMAIN log[b] => log'[b][last].reversed
  BY <1>5 DEF IInv, Typed, Execs
<1>8. Typed'
  BY <1>2, <1>4, <1>6 DEF IInv, Typed
<1>9. Reversing'
  <2>1. ASSUME NEW f \in legs \ marred, NEW i \in Rows(b, f)
        PROVE  log'[b][i].reversed \/ i \in job'.left
    BY <1>3, <1>4, <1>6, <1>7, <2>1 DEF Rows
  <2>2. \A f \in legs : Rows(b, f)' = Rows(b, f)
    BY <1>6
  <2>3. \A f \in legs : OnLog(b, f)'
    BY <1>3, <2>2 DEF OnLog, Rows
  <2>4. (\A f \in job.legs : OnLog(job.book, f))'
    BY <1>4, <2>3 DEF OnLog
  <2> QED
    BY <1>2, <1>3, <1>4, <2>1, <2>2, <2>4 DEF Reversing
<1> QED
  BY <1>2, <1>4, <1>6, <1>8, <1>9, JobMoves

LEMMA ReversalDonePreserves ==
  ASSUME IInv, ReversalDone PROVE IInv'
<1>1. /\ job.op = "reverse" /\ job' = Idle
      /\ ledger' = [ledger EXCEPT ![job.book] =
                      [f \in DOMAIN ledger[job.book] \ job.legs |-> ledger[job.book][f]]]
      /\ UNCHANGED <<posted, aged, feed, log, proposals, marred>>
  BY DEF ReversalDone, account
<1>2. PICK b \in Books, legs \in SUBSET Fills : job.book = b /\ job.legs = legs
  BY <1>1, ReversalFacts
<1>3. PICK known \in SUBSET Fills : ledger[b] \in [known -> Entries]
  BY DEF IInv, Typed, Ledgers
<1> DEFINE left == [f \in DOMAIN ledger[b] \ legs |-> ledger[b][f]]
<1>4. left \in Ledgers
  <2>1. left \in [known \ legs -> Entries] /\ known \ legs \in SUBSET Fills
    BY <1>3
  <2> QED
    BY <2>1 DEF Ledgers
<1> HIDE DEF left
<1>5. ledger' = [ledger EXCEPT ![b] = left] /\ ledger \in [Books -> Ledgers]
  BY <1>1, <1>2 DEF left, IInv, Typed
<1>6. Typed'
  BY <1>1, <1>4, <1>5 DEF IInv, Typed
<1>7. \A c \in Books : \A f \in DOMAIN ledger'[c] :
        f \in DOMAIN ledger[c] /\ ledger'[c][f] = ledger[c][f]
  BY <1>5 DEF left
<1>8. Reversing' /\ job'.op # "adopt"
  BY <1>1 DEF Reversing, Idle
<1> QED
  BY <1>1, <1>6, <1>7, <1>8, JobMoves DEF Rows

LEMMA CrashPreserves ==
  ASSUME IInv, Crash PROVE IInv'
<1>1. /\ job' = Idle /\ feed' = [b \in Books |-> NotFetched]
      /\ marred \subseteq marred' /\ (job.left # job.legs => job.legs \subseteq marred')
      /\ UNCHANGED <<posted, aged, log, ledger, proposals>>
  BY DEF Crash, account, book
<1>2. Typed'
  BY <1>1 DEF IInv, Typed, NotFetched
<1>3. Fed' /\ Offered' /\ Single' /\ Recorded'
  BY <1>1 DEF IInv, Fed, Together, Torn, Offered, WholeLegs, Torn, Single, Recorded, FillsOf, Rows, OnLog, NotFetched
<1>4. Adopting' /\ Reversing'
  BY <1>1 DEF Adopting, Reversing, Idle
<1>5. Remembered'
  BY <1>1 DEF IInv, Remembered, Covered, Twins, FillsOf, KeyRows
<1>6. Grouped'
  <2> SUFFICES ASSUME NEW o \in Orders, ~(FillsOf(o) \subseteq marred'), NEW b \in Books
               PROVE  (\A f \in FillsOf(o) : OnLog(b, f)) \/ (\A f \in FillsOf(o) : ~OnLog(b, f))
    BY <1>1 DEF Grouped, AllOrNone, FillsOf, OnLog
  <2>1. AllOrNone(b, o)
    BY <1>1 DEF IInv, Grouped
  <2>2. CASE job.op = "adopt" /\ job.order = o /\ job.book = b
    <3>1. job.legs = FillsOf(o) /\ job.left = job.legs
      BY <1>1, <2>2, AdoptionFacts DEF WholeLegs, Torn
    <3>2. ~(job.legs \subseteq marred)
      BY <1>1, <3>1
    <3> QED
      BY <2>2, <3>1, <3>2, AdoptionFacts
  <2> QED
    BY <2>1, <2>2 DEF AllOrNone
<1> QED
  BY <1>2, <1>3, <1>4, <1>5, <1>6 DEF IInv

\* The poll puts every fill of its order on the log of its book, once more.
LEMMA Polled ==
  ASSUME Typed, NEW h \in Books, NEW o \in Orders,
         log' = [log EXCEPT ![h] = @ \o SetToSeq({Execution(f, "app") : f \in FillsOf(o)})]
  PROVE  /\ log' \in [Books -> Seq(Execs)]
         /\ \A c \in Books : \A i \in DOMAIN log[c] : log'[c][i] = log[c][i]
         /\ \A f \in FillsOf(o) : \E n : Rows(h, f)' = Rows(h, f) \union {n}
         /\ \A c \in Books : \A f \in Fills : c # h \/ f \notin FillsOf(o) =>
              Rows(c, f)' = Rows(c, f)
<1> DEFINE S == {Execution(f, "app") : f \in FillsOf(o)}
<1>1. /\ FillsOf(o) \subseteq Fills
      /\ \A f \in Fills : Execution(f, "app") \in Execs /\ Execution(f, "app").fill = f
  BY DEF FillsOf, Execution, Execs
<1>2. IsFiniteSet(S)
  <2>1. IsFiniteSet(FillsOf(o))
    BY <1>1, IngestAssumption, FS_Subset
  <2>2. PICK m : m = [f \in FillsOf(o) |-> Execution(f, "app")]
    OBVIOUS
  <2>3. m \in Surjection(FillsOf(o), S)
    BY <2>2 DEF Surjection
  <2> QED
    BY <2>1, <2>3, FS_Surjection
<1>3. PICK q : q = SetToSeq(S)
  OBVIOUS
<1>4. /\ q \in Seq(S) /\ \A x \in S : \E i \in DOMAIN q : q[i] = x
      /\ \A i, j \in DOMAIN q : q[i] = q[j] => i = j
  BY <1>2, <1>3, Listed
<1>5. /\ q \in Seq(Execs) /\ Len(q) \in Nat /\ DOMAIN q = 1..Len(q)
      /\ \A i \in 1..Len(q) : q[i].fill \in FillsOf(o)
      /\ \A f \in FillsOf(o) : \E i \in 1..Len(q) : q[i].fill = f
      /\ \A i, j \in 1..Len(q) : q[i].fill = q[j].fill => i = j
  <2>1. S \subseteq Execs /\ \A x \in S : x.fill \in FillsOf(o) /\ x = Execution(x.fill, "app")
    BY <1>1
  <2>2. q \in Seq(Execs) /\ Len(q) \in Nat /\ DOMAIN q = 1..Len(q)
        /\ \A i \in 1..Len(q) : q[i] \in S
    <3>1. q \in Seq(S) /\ S \subseteq Execs
      BY <1>4, <2>1
    <3> HIDE DEF S
    <3> QED
      BY <3>1
  <2>3. \A f \in FillsOf(o) : Execution(f, "app") \in S
    OBVIOUS
  <2> HIDE DEF S
  <2> QED
    BY <1>1, <1>4, <2>1, <2>2, <2>3
<1> DEFINE new == log[h] \o q
           L == Len(log[h])
<1>6. /\ log \in [Books -> Seq(Execs)] /\ log[h] \in Seq(Execs) /\ L \in Nat
      /\ DOMAIN log[h] = 1..L
  BY DEF Typed
<1>7. /\ new \in Seq(Execs) /\ DOMAIN new = 1..(L + Len(q))
      /\ \A i \in 1..(L + Len(q)) : new[i] = IF i <= L THEN log[h][i] ELSE q[i - L]
  BY <1>5, <1>6
<1>8. log' = [log EXCEPT ![h] = new]
  BY <1>3
<1> HIDE DEF S, new, L
<1>9. log' \in [Books -> Seq(Execs)] /\ log'[h] = new /\ \A c \in Books \ {h} : log'[c] = log[c]
  BY <1>6, <1>7, <1>8
<1>10. \A i \in 1..L : i \in 1..(L + Len(q)) /\ new[i] = log[h][i]
  BY <1>5, <1>6, <1>7
<1>11. \A f \in Fills : /\ Rows(h, f)' = {i \in 1..(L + Len(q)) : new[i].fill = f}
                        /\ Rows(h, f) = {i \in 1..L : log[h][i].fill = f}
  BY <1>6, <1>7, <1>9 DEF Rows
<1>12. ASSUME NEW f \in FillsOf(o) PROVE \E n : Rows(h, f)' = Rows(h, f) \union {n}
  <2>1. PICK k \in 1..Len(q) : q[k].fill = f
    BY <1>5
  <2>2. /\ L + k \in 1..(L + Len(q)) /\ new[L + k] = q[k]
        /\ \A i \in 1..(L + Len(q)) : i \notin 1..L => i - L \in 1..Len(q) /\ new[i] = q[i - L]
    <3>1. \A i, j \in Nat : \A l, n \in Nat :
            /\ j \in 1..n => l + j \in 1..(l + n) /\ ~(l + j <= l) /\ (l + j) - l = j
            /\ i \in 1..(l + n) /\ i \notin 1..l => ~(i <= l) /\ i - l \in 1..n
      OBVIOUS
    <3>2. L \in Nat /\ Len(q) \in Nat /\ k \in Nat /\ k \in 1..Len(q)
      BY <1>5, <1>6
    <3>3. L + k \in 1..(L + Len(q)) /\ ~(L + k <= L) /\ (L + k) - L = k
      BY <3>1, <3>2
    <3>4. new[L + k] = q[k]
      BY <1>7, <3>3
    <3>5. ASSUME NEW i \in 1..(L + Len(q)), i \notin 1..L
          PROVE  i - L \in 1..Len(q) /\ new[i] = q[i - L]
      <4>1. i \in Nat
        BY <3>2
      <4>2. ~(i <= L) /\ i - L \in 1..Len(q)
        BY <3>1, <3>2, <3>5, <4>1
      <4> QED
        BY <1>7, <4>2
    <3> QED
      BY <3>3, <3>4, <3>5
  <2>3. \A i \in 1..(L + Len(q)) : i \notin 1..L /\ new[i].fill = f => i = L + k
    <3> SUFFICES ASSUME NEW i \in 1..(L + Len(q)), i \notin 1..L, new[i].fill = f PROVE i = L + k
      OBVIOUS
    <3>1. i - L \in 1..Len(q) /\ q[i - L].fill = f
      BY <2>2
    <3>2. i - L = k
      BY <1>5, <2>1, <3>1
    <3> QED
      BY <1>6, <3>2
  <2>4. f \in Fills
    BY <1>1
  <2> HIDE DEF Rows
  <2>5. Rows(h, f)' = Rows(h, f) \union {L + k}
    BY <1>10, <1>11, <2>1, <2>2, <2>3, <2>4
  <2> QED
    BY <2>5
<1>13. ASSUME NEW f \in Fills, f \notin FillsOf(o) PROVE Rows(h, f)' = Rows(h, f)
  <2>1. \A i \in 1..(L + Len(q)) : new[i].fill = f => i \in 1..L
    BY <1>5, <1>6, <1>7, <1>13
  <2> HIDE DEF Rows
  <2>2. {i \in 1..(L + Len(q)) : new[i].fill = f} = {i \in 1..L : log[h][i].fill = f}
    BY <1>10, <2>1
  <2> QED
    BY <1>11, <2>2
<1>14. \A c \in Books \ {h} : \A f \in Fills : Rows(c, f)' = Rows(c, f)
  BY <1>9 DEF Rows
<1>15. \A c \in Books : \A i \in DOMAIN log[c] : log'[c][i] = log[c][i]
  BY <1>6, <1>9, <1>10
<1> QED
  BY <1>9, <1>12, <1>13, <1>14, <1>15

LEMMA PollBooksPreserves ==
  ASSUME IInv, NEW o \in AppOrders, PollBooks(o) PROVE IInv'
<1>1. PICK h \in Books : h = HomeOf[o]
  BY IngestAssumption
<1>2. o \in Orders /\ FillsOf(o) \subseteq Fills
  BY IngestAssumption DEF FillsOf
<1>3. /\ log' = [log EXCEPT ![h] = @ \o SetToSeq({Execution(f, "app") : f \in FillsOf(o)})]
      /\ marred' = marred \union
           {f \in FillsOf(o) : (\E b \in Books : OnLog(b, f)) \/ (job.op = "adopt" /\ f \in job.legs)}
      /\ UNCHANGED <<posted, aged, feed, ledger, proposals, job>>
  BY <1>1 DEF PollBooks, account
<1>4. /\ log' \in [Books -> Seq(Execs)]
      /\ \A c \in Books : \A i \in DOMAIN log[c] : log'[c][i] = log[c][i]
      /\ \A f \in FillsOf(o) : \E n : Rows(h, f)' = Rows(h, f) \union {n}
      /\ \A c \in Books : \A f \in Fills : c # h \/ f \notin FillsOf(o) =>
           Rows(c, f)' = Rows(c, f)
  BY <1>2, <1>3, Polled DEF IInv
<1>5. \A c \in Books : \A f \in Fills :
        /\ OnLog(c, f)' <=> Rows(c, f)' # {}
        /\ OnLog(c, f) <=> Rows(c, f) # {}
  BY DEF OnLog, Rows
<1>6. /\ \A c \in Books : \A f \in Fills : OnLog(c, f) => OnLog(c, f)'
      /\ \A c \in Books : \A f \in Fills : c # h \/ f \notin FillsOf(o) =>
           (OnLog(c, f)' <=> OnLog(c, f))
      /\ \A f \in FillsOf(o) : OnLog(h, f)'
  BY <1>2, <1>4, <1>5
<1>7. marred \subseteq marred' /\ \A c \in Books : \A f \in FillsOf(o) : OnLog(c, f) => f \in marred'
  BY <1>3
<1>8. \A c \in Books : \A f \in Fills : OnLog(c, f) =>
        OnLog(c, f)' /\ (f \notin marred' => Rows(c, f)' = Rows(c, f))
  BY <1>4, <1>6, <1>7
<1>9. Typed' /\ Fed' /\ Offered'
  <2>1. UNCHANGED <<posted, aged, feed, ledger, proposals, job>>
    BY <1>3
  <2>2. Typed'
    BY <1>4, <2>1 DEF IInv, Typed
  <2>3. Fed'
    BY <1>7, <2>1 DEF IInv, Fed, Together, Torn, FillsOf
  <2>4. Offered'
    BY <1>7, <2>1 DEF IInv, Offered, WholeLegs, Torn, FillsOf
  <2> QED
    BY <2>2, <2>3, <2>4
<1>10. Single'
  <2> SUFFICES ASSUME NEW c \in Books, NEW f \in Fills \ marred'
               PROVE  \A i, j \in Rows(c, f)' : i = j
    BY DEF Single
  <2>1. CASE c = h /\ f \in FillsOf(o)
    <3>1. Rows(c, f) = {}
      BY <1>5, <1>7, <2>1
    <3> QED
      BY <1>4, <2>1, <3>1
  <2>2. CASE c # h \/ f \notin FillsOf(o)
    BY <1>4, <1>7, <2>2 DEF IInv, Single
  <2> QED
    BY <2>1, <2>2
<1>11. Grouped'
  <2> SUFFICES ASSUME NEW p \in Orders, ~(FillsOf(p) \subseteq marred'), NEW c \in Books
               PROVE  AllOrNone(c, p)'
    BY DEF Grouped, FillsOf
  <2>1. FillsOf(p) \subseteq Fills /\ AllOrNone(c, p)
    BY <1>7 DEF IInv, Grouped, FillsOf
  <2>2. CASE p = o /\ c = h
    BY <1>6, <2>2 DEF AllOrNone, FillsOf
  <2>3. CASE p # o \/ c # h
    <3>1. c # h \/ FillsOf(p) \intersect FillsOf(o) = {}
      BY <1>2, <2>3, OwnFills
    <3>2. \A f \in FillsOf(p) : OnLog(c, f)' <=> OnLog(c, f)
      BY <1>6, <2>1, <3>1
    <3> QED
      BY <1>3, <2>1, <3>2 DEF AllOrNone, FillsOf
  <2> QED
    BY <2>2, <2>3
<1>12. Adopting'
  <2> SUFFICES ASSUME job.op = "adopt" PROVE Adopting'
    BY <1>3 DEF Adopting
  <2>1. PICK b \in Books, legs \in SUBSET Fills :
          /\ job.book = b /\ job.legs = legs /\ job.order \in Orders
          /\ job.left \in SUBSET legs /\ WholeLegs(job.order, legs)
          /\ \A f \in legs \ job.left : OnLog(b, f)
          /\ ~(legs \subseteq marred) => /\ \A f \in job.left : ~OnLog(b, f)
                                         /\ \A f \in legs : Rows(b, f) \subseteq job.ids
    BY AdoptionFacts
  <2>2. WholeLegs(job.order, legs)'
    BY <1>3, <1>7, <2>1 DEF WholeLegs, Torn, FillsOf
  <2>3. \A f \in legs \ job.left : OnLog(b, f)'
    BY <1>6, <2>1
  <2>4. legs \subseteq marred' \/ (/\ \A f \in job.left : ~OnLog(b, f)'
                                   /\ \A f \in legs : Rows(b, f)' \subseteq job.ids)
    <3>1. CASE job.order = o
      BY <1>3, <2>1, <3>1 DEF WholeLegs, Torn
    <3>2. CASE job.order # o
      <4>1. \A f \in legs : f \notin FillsOf(o)
        BY <1>2, <2>1, <3>2, OwnFills DEF WholeLegs
      <4> QED
        BY <1>4, <1>6, <1>7, <2>1, <4>1
    <3> QED
      BY <3>1, <3>2
  <2>5. job' = job /\ job'.book = b /\ job'.legs = legs
    BY <1>3, <2>1
  <2>6. (WholeLegs(job.order, job.legs) /\ job.left \subseteq job.legs)'
    BY <2>1, <2>2, <2>5 DEF WholeLegs
  <2>7. (\A f \in job.legs \ job.left : OnLog(job.book, f))'
    BY <2>3, <2>5 DEF OnLog
  <2>8. (job.legs \subseteq marred \/ /\ \A f \in job.left : ~OnLog(job.book, f)
                                      /\ \A f \in job.legs : Rows(job.book, f) \subseteq job.ids)'
    BY <2>4, <2>5 DEF OnLog, Rows
  <2> QED
    BY <2>6, <2>7, <2>8 DEF Adopting
<1>13. Recorded'
  BY <1>3, <1>7, <1>8 DEF IInv, Recorded, Typed, Ledgers
<1>14. Reversing'
  <2> SUFFICES ASSUME job.op = "reverse" PROVE Reversing'
    BY <1>3 DEF Reversing
  <2>1. PICK b \in Books, legs \in SUBSET Fills :
          /\ job.book = b /\ job.legs = legs /\ \A f \in legs : OnLog(b, f)
          /\ \A f \in legs \ marred : \A i \in Rows(b, f) :
               log[b][i].reversed \/ i \in job.left
    BY ReversalFacts
  <2>2. ASSUME NEW f \in legs \ marred', NEW i \in Rows(b, f)'
        PROVE  log'[b][i].reversed \/ i \in job.left
    <3>1. i \in Rows(b, f) /\ i \in DOMAIN log[b] /\ f \notin marred
      BY <1>7, <1>8, <2>1, <2>2 DEF Rows
    <3> QED
      BY <1>4, <2>1, <3>1
  <2>3. \A f \in legs : OnLog(b, f)'
    BY <1>8, <2>1
  <2>4. (\A f \in job.legs : OnLog(job.book, f))'
    BY <1>3, <2>1, <2>3 DEF OnLog
  <2> QED
    BY <1>3, <2>1, <2>2, <2>4 DEF Reversing, Rows
<1>15. Remembered'
  <2> SUFFICES ASSUME NEW c \in Books, NEW f \in DOMAIN ledger[c] PROVE Covered(c, f)'
    BY <1>3 DEF Remembered
  <2>1. f \in Fills /\ Covered(c, f) /\ Typed
    BY DEF IInv, Typed, Ledgers, Remembered
  <2>2. \A g \in Fills : Rows(c, g) \subseteq Rows(c, g)'
    BY <1>2, <1>4
  <2> QED
    BY <1>9, <2>1, <2>2, CoveredStays
<1> QED
  BY <1>9, <1>10, <1>11, <1>12, <1>13, <1>14, <1>15 DEF IInv

-----------------------------------------------------------------------------
(* All of it together.                                                      *)

LEMMA InitIInv == Init => IInv
<1> SUFFICES ASSUME Init PROVE IInv
  OBVIOUS
<1>1. << >> \in Ledgers
  <2>1. << >> \in [{} -> Entries] /\ {} \in SUBSET Fills
    OBVIOUS
  <2> QED
    BY <2>1 DEF Ledgers
<1>2. /\ posted = {} /\ aged = {} /\ job = Idle
      /\ feed = [b \in Books |-> NotFetched] /\ log = [b \in Books |-> << >>]
      /\ ledger = [b \in Books |-> << >>] /\ proposals = [b \in Books |-> {}]
  BY DEF Init
<1>3. \A b \in Books : \A f \in Fills : Rows(b, f) = {} /\ ~OnLog(b, f)
  BY <1>2 DEF Rows, OnLog
<1>4. Typed
  BY <1>1, <1>2 DEF Typed, NotFetched
<1>5. Fed /\ Offered
  BY <1>2 DEF Fed, Together, Offered, NotFetched
<1>6. Single /\ Recorded /\ Remembered
  BY <1>2, <1>3 DEF Single, Recorded, Remembered
<1>7. Grouped
  BY <1>3 DEF Grouped, AllOrNone, FillsOf
<1>8. Adopting /\ Reversing
  BY <1>2 DEF Adopting, Reversing, Idle
<1> QED
  BY <1>4, <1>5, <1>6, <1>7, <1>8 DEF IInv

LEMMA NextIInv ==
  ASSUME IInv, [Next]_vars PROVE IInv'
<1>1. CASE AppStep
  <2>1. ASSUME NEW o \in AppOrders, PollBooks(o) \/ PollLost(o) PROVE IInv'
    BY <2>1, PollBooksPreserves, AccountPreserves, IngestAssumption
  <2>2. ASSUME NEW b \in Books,
               \/ fetch_transactions(b) \/ DeepFetch(b) \/ run_ingestion(b)
               \/ \E p \in proposals[b] : adopt_broker_trade(b, p)
               \/ \E o \in Orders : reverse_adoption(b, o)
               \/ \E i \in DOMAIN log[b] : void_executions(b, i) \/ restore_executions(b, i)
               \/ \E f \in Fills : release_ingested(b, f)
        PROVE  IInv'
    BY <2>2, FetchPreserves, IngestPreserves, AdoptPreserves, StartReversalPreserves,
       CorrectionPreserves
  <2> QED
    BY <1>1, <2>1, <2>2, AdoptLegPreserves, AdoptionDonePreserves, ReverseLegPreserves,
       ReversalDonePreserves, CrashPreserves DEF AppStep
<1>2. CASE BrokerStep
  BY <1>2, AccountPreserves DEF BrokerStep
<1>3. CASE UNCHANGED vars
  <2>1. UNCHANGED <<posted, aged, feed, log, ledger, proposals, job, marred>>
    BY <1>3 DEF vars
  <2>2. Typed' /\ Fed' /\ Offered'
    BY <2>1 DEF IInv, Typed, Fed, Together, Torn, Offered, WholeLegs, FillsOf
  <2>3. \A b \in Books : \A f \in Fills : Rows(b, f)' = Rows(b, f)
    BY <2>1 DEF Rows
  <2> QED
    BY <2>1, <2>2, <2>3, LogStays
<1> QED
  BY <1>1, <1>2, <1>3 DEF Next

LEMMA NoneBuried == IInv => NothingBuried
<1> SUFFICES ASSUME IInv, NEW b \in Books, NEW f \in DOMAIN ledger[b], ~Struck(b, KeyOf[f])
             PROVE  Counting(b, KeyOf[f]) >= Cardinality(Twins(f))
  BY DEF NothingBuried, Held
<1>1. {i \in derived_executions(b) : KeyOf[log[b][i].fill] = KeyOf[f]} = KeyRows(b, KeyOf[f])
  BY DEF derived_executions, Struck, KeyRows
<1>2. Covered(b, f) /\ f \in Fills /\ Typed
  BY DEF IInv, Remembered, Typed, Ledgers
<1>3. Cardinality(KeyRows(b, KeyOf[f])) \in Nat /\ Cardinality(Twins(f)) \in Nat
  <2>1. IsFiniteSet(Twins(f))
    BY <1>2, TwinsAre, IngestAssumption, FS_Subset
  <2> QED
    BY <1>2, <2>1, KeyRowsFinite, FS_CardinalityType
<1>4. \A x, y \in Nat : x <= y => y >= x
  OBVIOUS
<1> QED
  BY <1>1, <1>2, <1>3, <1>4 DEF Counting, Covered

LEMMA CountedOnce == IInv => BookedOnce
<1> SUFFICES ASSUME IInv, NEW b \in Books, NEW f \in Fills \ marred
             PROVE  Cardinality({i \in derived_executions(b) : log[b][i].fill = f}) <= 1
  BY DEF BookedOnce
<1> DEFINE counted == {i \in derived_executions(b) : log[b][i].fill = f}
<1>1. \A i, j \in counted : i = j
  BY DEF IInv, Single, Rows, derived_executions
<1> HIDE DEF counted
<1>2. CASE counted = {}
  <2>1. Cardinality(counted) = 0
    BY <1>2, FS_EmptySet
  <2>2. Cardinality(counted) <= 1
    BY <2>1
  <2> QED
    BY <2>2 DEF counted
<1>3. CASE counted # {}
  <2>1. PICK i : counted = {i}
    BY <1>1, <1>3
  <2>2. Cardinality(counted) = 1
    BY <2>1, FS_Singleton
  <2>3. Cardinality(counted) <= 1
    BY <2>2
  <2> QED
    BY <2>3 DEF counted
<1> QED
  BY <1>2, <1>3

THEOREM Inductive == Spec => []IInv
<1>1. Init => IInv
  BY InitIInv
<1>2. IInv /\ [Next]_vars => IInv'
  BY NextIInv
<1> QED
  BY <1>1, <1>2, PTL DEF Spec

(* A fill of the broker is neither lost to the ledger nor counted twice,     *)
(* however the poll, ingestion, adoption, corrections and crashes fall       *)
(* (transaction_ingest.py, executor.adopt_broker_trade): each row the ledger *)
(* skips has its content on the log, once for each identical leg of its      *)
(* order, and no fill has two counting executions but for what the history   *)
(* calls marred.  No key is assumed to belong to one fill only.              *)
THEOREM EachFillOnceAlways == Spec => []EachFillOnce
<1>1. IInv => EachFillOnce
  BY NoneBuried, CountedOnce DEF EachFillOnce
<1> QED
  BY <1>1, Inductive, PTL

(* When an undo reports success, nothing of the adoption counts any more:   *)
(* the ledger names every execution of it (executor.reverse_adoption).      *)
THEOREM UndoneWholeAlways == Spec => UndoneWhole
<1>1. ASSUME IInv, [Next]_vars, job.op = "reverse", job' = Idle, ledger' # ledger,
             NEW f \in job.legs \ marred
      PROVE  ~Holds(job.book, f)
  <2>1. ReversalDone
    <3>1. job # Idle /\ job' # job
      BY <1>1 DEF Idle
    <3>2. ASSUME NEW o \in Orders, \/ BrokerFills(o) \/ PollLost(o) \/ PollBooks(o)
                                   \/ \E rows \in RowsOf(o) : Posts(o, rows) \/ Ages(o, rows)
          PROVE  job' = job
      BY <3>2 DEF BrokerFills, PollLost, PollBooks, Posts, Ages
    <3>3. ASSUME NEW b \in Books, \/ fetch_transactions(b) \/ DeepFetch(b) \/ run_ingestion(b)
          PROVE  job' = job
      BY <3>3 DEF fetch_transactions, DeepFetch, Fetched, run_ingestion
    <3>4. ASSUME NEW b \in Books,
                 \/ \E p \in proposals[b] : adopt_broker_trade(b, p)
                 \/ \E o \in Orders : reverse_adoption(b, o)
                 \/ \E i \in DOMAIN log[b] : void_executions(b, i) \/ restore_executions(b, i)
                 \/ \E g \in Fills : release_ingested(b, g)
          PROVE  job = Idle
      BY <3>4 DEF adopt_broker_trade, reverse_adoption, void_executions, restore_executions,
         SetExcluded, release_ingested
    <3>5. ~ReverseLeg /\ ~Crash
      BY <1>1 DEF ReverseLeg, Crash, book
    <3>6. ~AdoptionDone /\ \A g \in Fills : ~AdoptLeg(g)
      BY <1>1 DEF AdoptLeg, AdoptionDone
    <3>7. ~UNCHANGED vars
      BY <3>1 DEF vars
    <3>8. AppOrders \subseteq Orders
      BY IngestAssumption
    <3> QED
      BY <1>1, <3>1, <3>2, <3>3, <3>4, <3>5, <3>6, <3>7, <3>8 DEF Next, AppStep, BrokerStep
  <2>2. job.left = {}
    BY <2>1 DEF ReversalDone
  <2>3. \A i \in Rows(job.book, f) : log[job.book][i].reversed
    BY <1>1, <2>2, ReversalFacts
  <2> QED
    BY <2>3 DEF Holds, derived_executions, Live, Rows
<1>2. IInv /\ [Next]_vars =>
        [job.op = "reverse" /\ job' = Idle /\ ledger' # ledger =>
           \A f \in job.legs \ marred : ~Holds(job.book, f)]_vars
  BY <1>1
<1> QED
  BY <1>2, Inductive, PTL DEF Spec, UndoneWhole
====
