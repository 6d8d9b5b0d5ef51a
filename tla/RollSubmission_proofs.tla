------------------------ MODULE RollSubmission_proofs ------------------------
(***************************************************************************)
(* The theorems about live rolls, for one thread of control at a time and  *)
(* tickets that share no pair of legs.  First what stays known while       *)
(* others act, then one lemma per handler step in the order of the model,  *)
(* each showing that the step preserves the invariant IInv /\ CInv; then   *)
(* crash, restart and sweep, the initial state, and what the invariant     *)
(* says of a state.                                                        *)
(***************************************************************************)
EXTENDS RollSubmissionInv, FiniteSetTheorems, TLAPS

BrokerType == [Orders -> Roll]

-----------------------------------------------------------------------------
(* What is known of an order stays known as the broker moves on and as the *)
(* operator lets go of more orders.                                        *)

LEMMA GrowsFacts ==
  ASSUME NEW b, NEW c, BrokerGrows(b, c)
  PROVE  /\ \A s, o, r : Above(b, s, o, r) <=> Above(c, s, o, r)
         /\ \A s, r : NoneAbove(b, s, r) <=> NoneAbove(c, s, r)
         /\ \A s, r, o : Names(b, s, r, o) <=> Names(c, s, r, o)
         /\ \A s, o : o \in Orders => (Current(b, s, o) <=> Current(c, s, o))
         /\ \A o \in Orders : Sent(b, o) <=> Sent(c, o)
         /\ \A o \in Orders : Over(b, o) => Over(c, o) /\ c[o].close = b[o].close /\ c[o].open = b[o].open
         /\ \A o \in Orders : Live(c, o) => Live(b, o)
         /\ \A o \in Orders : b[o].ref = c[o].ref
<1>1. \A s, o, r : Above(b, s, o, r) <=> Above(c, s, o, r)
  BY DEF BrokerGrows, Above, Sent
<1>2. \A o \in Orders : /\ Over(b, o) => Over(c, o) /\ c[o].close = b[o].close /\ c[o].open = b[o].open
                        /\ Live(c, o) => Live(b, o)
                        /\ b[o].ref = c[o].ref
                        /\ Sent(b, o) <=> Sent(c, o)
  BY DEF BrokerGrows, Over
<1> QED BY <1>1, <1>2 DEF NoneAbove, Names, Current

LEMMA StoreStable ==
  ASSUME NEW b, NEW c, NEW f, NEW g, NEW s \in Store,
         BrokerGrows(b, c), f \subseteq g, StoreOK(b, s, f)
  PROVE  StoreOK(c, s, g)
<1>0. \A r, o, p : /\ Above(b, s, o, r) <=> Above(c, s, o, r)
                   /\ o \in Orders => (Current(b, s, o) <=> Current(c, s, o))
  BY GrowsFacts
<1>1. \A o \in Orders : /\ Sent(b, o) <=> Sent(c, o)
                        /\ Over(b, o) => Over(c, o)
                        /\ Live(c, o) => Live(b, o)
                        /\ b[o].ref = c[o].ref
  BY GrowsFacts
<1>2. \A o \in Orders : b[o].listed => c[o].listed
  BY DEF BrokerGrows
<1>3. ASSUME NEW r \in Refs PROVE RefOK(c, s, r)
  <2>1. RefOK(b, s, r) BY DEF StoreOK
  <2> QED BY <2>1, <1>0, <1>1, <1>2 DEF RefOK
<1>4. ASSUME NEW o \in Orders PROVE OrderOK(c, s, g, o)
  <2>1. OrderOK(b, s, f, o) BY DEF StoreOK
  <2> QED BY <2>1, <1>0, <1>1 DEF OrderOK
<1> QED BY <1>3, <1>4 DEF StoreOK

LEMMA LocalStable ==
  ASSUME NEW b \in BrokerType, NEW c \in BrokerType, NEW f, NEW g, NEW s \in Store, NEW l \in Local,
         BrokerGrows(b, c), f \subseteq g, LocalOK(b, s, f, l)
  PROVE  LocalOK(c, s, g, l)
<1>0. /\ \A o, r : Above(b, s, o, r) <=> Above(c, s, o, r)
      /\ \A r : NoneAbove(b, s, r) <=> NoneAbove(c, s, r)
      /\ \A r, o : Names(b, s, r, o) <=> Names(c, s, r, o)
      /\ \A o \in Orders : Current(b, s, o) <=> Current(c, s, o)
  BY GrowsFacts
<1>1. \A o \in Orders : /\ Over(b, o) => Over(c, o) /\ c[o].close = b[o].close /\ c[o].open = b[o].open
                        /\ b[o].ref = c[o].ref
  BY GrowsFacts
<1>a. \A o \in Orders, n \in Nat : /\ n <= b[o].close => n <= c[o].close
                                   /\ n <= b[o].open => n <= c[o].open
  BY DEF BrokerGrows, BrokerType, Roll
<1>2. PlaceOK(c, s, l)
  BY <1>0 DEF LocalOK, PlaceOK
<1>3. CheckOK(c, s, l)
  <2>1. l.pc = "syncSub" => l.order \in Orders BY DEF LocalOK, CheckOK, Above, Sent
  <2> QED BY <2>1, <1>0, <1>1 DEF LocalOK, CheckOK
<1>4. StatusOK(c, s, l)
  <2>1. l.rec.filled + l.units \in Nat BY DEF Local, Pending, RollConstants
  <2>2. StatusOK(b, s, l) BY DEF LocalOK
  <2>3. l.pc \in BookLabels => l.order \in Orders BY <2>2 DEF StatusOK, KnownLabels
  <2>4. l.pc \in BookLabels => /\ l.rec.filled + l.units <= c[l.order].close
                               /\ l.rec.filled + l.units <= c[l.order].open
                               /\ l.res = "FILLED" => Over(c, l.order)
    BY <2>1, <2>2, <2>3, <1>a, <1>1 DEF StatusOK
  <2>5. l.pc \in BootLabels /\ l.ret = "syncSub" => l.order \in Orders /\ l.ref \in Refs /\ c[l.order].ref = l.ref
    BY <2>2, <1>1 DEF StatusOK
  <2>6. l.pc = "pop" => l.res \in Ends /\ Over(c, l.order)
    BY <2>2, <1>1 DEF StatusOK, KnownLabels
  <2>7. l.pc \in FreezeLabels => Over(c, l.order)
    BY <2>2, <1>1 DEF StatusOK
  <2>8. l.pc = "sync" \/ (l.pc \in FreezeLabels /\ l.res = "LEG_IMBALANCE") =>
       /\ l.order \in Orders /\ Current(c, s, l.order) /\ l.rec.ref = c[l.order].ref
       /\ \/ l.res = "WORKING" /\ s.pending[l.order].kept
          \/ l.res \in Ends /\ Over(c, l.order) /\ ~s.pending[l.order].kept
    BY <2>2, <1>0, <1>1 DEF StatusOK
  <2> QED BY <2>2, <2>4, <2>5, <2>6, <2>7, <2>8, <1>0 DEF StatusOK
<1>5. CancelOK(c, s, l)
  BY <1>1 DEF LocalOK, CancelOK, CxLabels
<1>6. ClearOK(c, s, g, l)
  BY <1>0, <1>1 DEF LocalOK, ClearOK
<1> QED BY <1>2, <1>3, <1>4, <1>5, <1>6 DEF LocalOK

LEMMA BooksStable ==
  ASSUME NEW b \in BrokerType, NEW c \in BrokerType, NEW f, NEW g, NEW s \in Store, NEW l \in Local,
         BrokerGrows(b, c), f \subseteq g, BooksOK(b, s, f, l)
  PROVE  BooksOK(c, s, g, l)
<1>0. \A o, r : Above(b, s, o, r) <=> Above(c, s, o, r)
  BY GrowsFacts
<1>1. \A o \in Orders : /\ Over(b, o) => Over(c, o) /\ c[o].close = b[o].close /\ c[o].open = b[o].open
                        /\ b[o].ref = c[o].ref
                        /\ Sent(b, o) <=> Sent(c, o)
  BY GrowsFacts
<1>2. SUFFICES ASSUME NEW o \in Orders
      PROVE  /\ s.closed[o] <= c[o].close /\ s.closed[o] <= c[o].open
             /\ s.opened[o] <= c[o].close /\ s.opened[o] <= c[o].open
             /\ s.moved[o] > 0 => c[o].close > 0 /\ c[o].open > 0
             /\ Above(c, s, o, c[o].ref) /\ s.subs[c[o].ref].order = NoOrder => Booked(s, o, 0)
             /\ Sent(c, o) /\ ~s.pending[o].kept /\ o \notin g => EndedWell(c, s, o) \/ InHand(c, s, l, o)
  BY DEF BooksOK
<1>3. /\ s.closed[o] <= c[o].close /\ s.closed[o] <= c[o].open
      /\ s.opened[o] <= c[o].close /\ s.opened[o] <= c[o].open
      /\ s.moved[o] > 0 => c[o].close > 0 /\ c[o].open > 0
  BY DEF BooksOK, BrokerGrows, BrokerType, Roll, Store
<1>4. InHand(b, s, l, o) => InHand(c, s, l, o)
  BY <1>0, <1>1 DEF InHand
<1>5. EndedWell(b, s, o) => EndedWell(c, s, o)
  BY <1>1 DEF EndedWell
<1> QED BY <1>0, <1>1, <1>3, <1>4, <1>5 DEF BooksOK

LEMMA CountStable ==
  ASSUME NEW b \in BrokerType, NEW c \in BrokerType, NEW f, NEW g, NEW s \in Store, NEW l \in Local,
         BrokerGrows(b, c), f \subseteq g, LocalOK(b, s, f, l), CountOK(b, s, f, l)
  PROVE  CountOK(c, s, g, l)
<1>1. \A o \in Orders : /\ Over(b, o) => Over(c, o) /\ c[o].close = b[o].close /\ c[o].open = b[o].open
                        /\ b[o].ref = c[o].ref
  BY GrowsFacts
<1>2. \A o \in Orders : EndedWell(b, s, o) => EndedWell(c, s, o)
  BY <1>1 DEF EndedWell
<1>3. l.pc = "pop" => l.order \in Orders /\ Over(b, l.order)
  BY DEF LocalOK, StatusOK, KnownLabels
<1>4. l.pc \in {"clearPop", "clearSub"} => \A p \in Orders : b[p].ref = l.ref /\ p \notin g => Over(b, p)
  BY DEF LocalOK, ClearOK
<1> QED BY <1>1, <1>2, <1>3, <1>4 DEF CountOK

-----------------------------------------------------------------------------
(* A step of the thread preserves the invariant when what it writes, and   *)
(* what the thread goes on to know, is sound.                              *)

LEMMA IdleOK ==
  ASSUME NEW b, NEW s, NEW f
  PROVE  /\ EmptyStore \in Store /\ IdleThread \in Local
         /\ LocalOK(b, s, f, IdleThread)
         /\ CountOK(b, s, f, IdleThread)
<1>1. NoSubmission \in Submission /\ NotPending \in Pending
  BY RollConstants DEF NoSubmission, Submission, NotPending, Pending
<1>2. EmptyStore \in Store
  BY <1>1 DEF EmptyStore, Store
<1>3. IdleThread \in Local
  BY <1>1, <1>2, RollConstants DEF IdleThread, Local, Labels
<1>4. IdleThread.pc = "idle" /\ IdleThread.ret = "idle"
  BY DEF IdleThread
<1>5. LocalOK(b, s, f, IdleThread)
  <2>1. PlaceOK(b, s, IdleThread) BY <1>4 DEF PlaceOK, PlaceLabels
  <2>2. CheckOK(b, s, IdleThread) BY <1>4 DEF CheckOK, CheckLabels
  <2>3. StatusOK(b, s, IdleThread)
    BY <1>4 DEF StatusOK, BootLabels, KnownLabels, BookLabels, FreezeLabels, CopyLabels
  <2>4. CancelOK(b, s, IdleThread) BY <1>4 DEF CancelOK, CxLabels
  <2>5. ClearOK(b, s, f, IdleThread) BY <1>4 DEF ClearOK, ClearLabels
  <2> QED BY <2>1, <2>2, <2>3, <2>4, <2>5 DEF LocalOK
<1>6. CountOK(b, s, f, IdleThread)
  BY <1>4 DEF CountOK
<1> QED BY <1>2, <1>3, <1>5, <1>6

\* Which labels the books ask about.
Mid  == (BookLabels \ {"bookClose"}) \cup {"pop"}
Hand == {"ackId", "savePending", "adoptGet", "adoptSave"}
Keeps(l, m) ==
  /\ l.pc \in Mid => m.pc \in Mid /\ m.order = l.order
  /\ l.pc \in Hand => m.pc \in Hand /\ m.order = l.order
  /\ l.pc \in FreezeLabels => m.pc \in FreezeLabels /\ m.order = l.order
  /\ l.pc # "ackUnknown"

LEMMA BooksKept ==
  ASSUME NEW b, NEW s, NEW f, NEW l, NEW m, Keeps(l, m), BooksOK(b, s, f, l)
  PROVE  BooksOK(b, s, f, m)
<1>1. \A o : InHand(b, s, l, o) => InHand(b, s, m, o)
  BY DEF InHand, Keeps, Hand
<1>2. \A o : (l.pc \in Mid /\ l.order = o) => (m.pc \in Mid /\ m.order = o)
  BY DEF Keeps
<1> QED BY <1>1, <1>2 DEF BooksOK, Mid

LEMMA BooksIdle ==
  ASSUME NEW b, NEW s, NEW f, NEW l, l.pc = "idle", BooksOK(b, s, f, l)
  PROVE  BooksOK(b, s, f, IdleThread)
BY BooksKept DEF Keeps, Mid, Hand, FreezeLabels, BookLabels

\* What the invariant says, with the one thread that there is.
LEMMA Facts ==
  ASSUME IInv, CInv, NEW t \in Threads
  PROVE  /\ th[t] \in Local /\ LocalOK(broker, store, LetGo, th[t])
         /\ store \in Store /\ StoreOK(broker, store, LetGo)
         /\ broker \in BrokerType /\ BrokerOK(broker) /\ Numbered
         /\ forced \subseteq Orders /\ cleared \subseteq Orders
         /\ faults \in Nat /\ crashes \in Nat
         /\ up \in BOOLEAN /\ todo \subseteq Orders /\ SweepOK
         /\ crashes = 0 => /\ BooksOK(broker, store, LetGo, th[t])
                           /\ CountOK(broker, store, LetGo, th[t])
BY DEF IInv, CInv, TypeOK, BrokerType

\* Outside order_status the sweep has nothing left to do.
LEMMA NotBooting ==
  ASSUME IInv, NEW t \in Threads, th[t].pc \notin BootLabels \cup {"idle"}
  PROVE  todo = {}
BY DEF IInv, SweepOK

LEMMA ThreadMoves ==
  ASSUME IInv, CInv, NEW t, Threads = {t}, NEW l \in Local, Step(t, l),
         up, UNCHANGED process, UNCHANGED crashes, faults' \in Nat,
         broker' \in BrokerType, BrokerOK(broker'), Numbered',
         forced' \subseteq Orders, cleared' \subseteq Orders,
         store' \in Store, StoreOK(broker', store', LetGo'),
         LocalOK(broker', store', LetGo', l),
         crashes = 0 => /\ BooksOK(broker', store', LetGo', l)
                        /\ CountOK(broker', store', LetGo', l),
         \/ todo = {}
         \/ /\ l.pc # "idle" => l.pc \in BootLabels /\ l.ret = "idle" /\ l.order \notin todo
            /\ \A o \in todo : store'.pending[o].kept
  PROVE  IInv' /\ CInv'
<1>1. th \in [Threads -> Local] /\ todo \subseteq Orders
  BY DEF IInv, TypeOK
<1> DEFINE m == IF l.pc = "idle" THEN IdleThread ELSE l
<1>2. /\ m \in Local /\ LocalOK(broker', store', LetGo', m)
      /\ m.pc = l.pc /\ (l.pc # "idle" => m = l)
      /\ crashes = 0 => /\ BooksOK(broker', store', LetGo', m)
                        /\ CountOK(broker', store', LetGo', m)
  <2>1. CASE l.pc = "idle"
    <3>1. m = IdleThread BY <2>1
    <3>2. IdleThread.pc = "idle" BY DEF IdleThread
    <3>3. crashes = 0 => BooksOK(broker', store', LetGo', IdleThread)
      BY <2>1, BooksIdle
    <3> HIDE DEF m
    <3> QED BY <2>1, <3>1, <3>2, <3>3, IdleOK
  <2>2. CASE l.pc # "idle"
    BY <2>2
  <2> QED BY <2>1, <2>2
<1>3. th' = [th EXCEPT ![t] = m]
  BY DEF Step
<1> HIDE DEF m
<1>4. th' \in [Threads -> Local] /\ th'[t] = m
  BY <1>1, <1>2, <1>3
<1>5. TypeOK'
  BY <1>1, <1>4, Facts DEF TypeOK, BrokerType, process
<1>6. \A u \in Threads : LocalOK(broker', store', LetGo', th'[u])
  BY <1>2, <1>4
<1>7. SweepOK'
  <2>1. up' = up /\ todo' = todo BY DEF process
  <2> QED BY <2>1, <1>2, <1>4 DEF SweepOK
<1>8. CInv'
  BY <1>2, <1>4 DEF CInv
<1> QED BY <1>5, <1>6, <1>7, <1>8 DEF IInv

\* The file changes and nothing else that is shared.
LEMMA StoreMoves ==
  ASSUME IInv, CInv, NEW t, Threads = {t}, NEW l \in Local, Step(t, l),
         up, UNCHANGED <<broker, process, history, crashes>>, faults' \in Nat,
         store' \in Store, StoreOK(broker, store', LetGo),
         LocalOK(broker, store', LetGo, l),
         crashes = 0 => /\ BooksOK(broker, store', LetGo, l)
                        /\ CountOK(broker, store', LetGo, l),
         \/ todo = {}
         \/ /\ l.pc # "idle" => l.pc \in BootLabels /\ l.ret = "idle" /\ l.order \notin todo
            /\ \A o \in todo : store'.pending[o].kept
  PROVE  IInv' /\ CInv'
<1>1. broker' = broker /\ forced' = forced /\ cleared' = cleared /\ UNCHANGED process /\ UNCHANGED crashes
  BY DEF history
<1>2. LetGo' = LetGo /\ Numbered' /\ broker \in BrokerType /\ BrokerOK(broker)
      /\ forced \subseteq Orders /\ cleared \subseteq Orders
  BY <1>1, Facts DEF LetGo, Numbered, Entered
<1> HIDE DEF LetGo
<1> QED BY <1>1, <1>2, ThreadMoves

\* Only the thread moves.
LEMMA LocalMoves ==
  ASSUME IInv, CInv, NEW t, Threads = {t}, NEW l \in Local, Step(t, l),
         up, UNCHANGED <<broker, store, process, history, crashes>>, faults' \in Nat,
         LocalOK(broker, store, LetGo, l),
         Keeps(th[t], l),
         crashes = 0 => CountOK(broker, store, LetGo, l),
         todo = {} \/ (l.pc # "idle" => l.pc \in BootLabels /\ l.ret = "idle" /\ l.order \notin todo)
  PROVE  IInv' /\ CInv'
<1>1. store' = store /\ UNCHANGED <<broker, process, history, crashes>>
  OBVIOUS
<1>2. store \in Store /\ StoreOK(broker, store, LetGo)
  BY Facts
<1>3. crashes = 0 => BooksOK(broker, store, LetGo, l)
  BY Facts, BooksKept
<1>4. \A o \in todo : store.pending[o].kept
  BY DEF IInv, SweepOK
<1> QED BY <1>1, <1>2, <1>3, <1>4, StoreMoves

\* One part of LocalOK speaks of each label, and the books of some only.
LEMMA ByLabel ==
  ASSUME NEW b, NEW s, NEW f, NEW l,
         \/ l.pc = "idle"
         \/ l.pc \in PlaceLabels /\ PlaceOK(b, s, l)
         \/ l.pc \in CheckLabels /\ CheckOK(b, s, l)
         \/ l.pc \in BootLabels /\ StatusOK(b, s, l)
         \/ l.pc \in CxLabels /\ CancelOK(b, s, l)
         \/ l.pc \in ClearLabels /\ ClearOK(b, s, f, l)
  PROVE  LocalOK(b, s, f, l)
<1> USE DEF PlaceLabels, CheckLabels, BootLabels, KnownLabels, BookLabels, FreezeLabels,
            CopyLabels, CxLabels, ClearLabels
<1>1. l.pc \notin PlaceLabels => PlaceOK(b, s, l) BY DEF PlaceOK
<1>2. l.pc \notin CheckLabels => CheckOK(b, s, l) BY DEF CheckOK
<1>3. l.pc \notin BootLabels => StatusOK(b, s, l) BY DEF StatusOK
<1>4. l.pc \notin CxLabels => CancelOK(b, s, l) BY DEF CancelOK
<1>5. l.pc \notin ClearLabels => ClearOK(b, s, f, l) BY DEF ClearOK
<1> QED BY <1>1, <1>2, <1>3, <1>4, <1>5 DEF LocalOK

Counted == {"bookOpen", "applyLoad", "applySave", "savePart", "pop", "adopt", "adoptGet",
            "adoptSave", "ackId", "savePending", "clearPop", "clearSub"}

LEMMA Uncounted ==
  ASSUME NEW b, NEW s, NEW f, NEW l, l.pc \notin Counted
  PROVE  CountOK(b, s, f, l)
BY DEF Counted, CountOK

-----------------------------------------------------------------------------
(* A request begins. *)

LEMMA BeginMoves ==
  ASSUME IInv, CInv, NEW t, Threads = {t}, NEW l \in Local, Begins(t, l),
         LocalOK(broker, store, LetGo, l), l.pc \notin Counted
  PROVE  IInv' /\ CInv'
<1>1. /\ up /\ todo = {} /\ th[t].pc = "idle" /\ Step(t, l)
      /\ UNCHANGED <<broker, store, process, history, crashes>> /\ faults' = faults
  BY DEF Begins, Reads, Serving, bounds
<1>2. Keeps(th[t], l)
  BY <1>1 DEF Keeps, Mid, Hand, FreezeLabels, BookLabels
<1>3. faults' \in Nat
  BY <1>1, Facts
<1> QED BY <1>1, <1>2, <1>3, Uncounted, LocalMoves

LEMMA IdleFields ==
  /\ IdleThread.pc = "idle" /\ IdleThread.ref = NoState /\ IdleThread.order = NoOrder
  /\ IdleThread.units = 0 /\ IdleThread.res = NoState /\ IdleThread.ret = "idle"
  /\ IdleThread.boot = FALSE
BY DEF IdleThread

LEMMA BeginsKeep ==
  ASSUME IInv, CInv, NEW t, Threads = {t}, BeginStep(t)
  PROVE  IInv' /\ CInv'
<1>0. t \in Threads /\ IdleThread \in Local
  BY IdleOK
<1>1. store \in Store /\ StoreOK(broker, store, LetGo)
  BY <1>0, Facts
<1>2. ASSUME NEW r \in Refs, BeginRoll(t, r) PROVE IInv' /\ CInv'
  <2> DEFINE l == [IdleThread EXCEPT !.pc = "readSub", !.ref = r]
  <2>1. l \in Local /\ l.pc = "readSub" /\ l.ref = r
    BY <1>0 DEF Local, Labels, IdleThread
  <2>2. Begins(t, l) BY <1>2 DEF BeginRoll
  <2> HIDE DEF l
  <2>3. PlaceOK(broker, store, l)
    BY <2>1 DEF PlaceOK
  <2>4. LocalOK(broker, store, LetGo, l) /\ l.pc \notin Counted
    BY <2>1, <2>3, ByLabel DEF PlaceLabels, Counted
  <2> QED BY <2>1, <2>2, <2>4, BeginMoves
<1>3. ASSUME NEW r \in Refs, BeginCheck(t, r) PROVE IInv' /\ CInv'
  <2> DEFINE s == store.subs[r]
             i == [IdleThread EXCEPT !.ref = r, !.sub = s, !.order = s.order]
             l == [i EXCEPT !.pc = "lookup"]
             k == [[i EXCEPT !.pc = "osGet"] EXCEPT !.ret = "syncSub"]
  <2>1. s \in Submission /\ SameSub(s, s)
    BY <1>1 DEF Store, SameSub
  <2>2. i \in Local /\ i.ref = r /\ i.sub = s /\ i.order = s.order
    BY <1>0, <2>1 DEF Local, IdleThread, Submission
  <2>3. /\ l \in Local /\ l.pc = "lookup" /\ l.ref = r /\ l.sub = s
        /\ k \in Local /\ k.pc = "osGet" /\ k.ret = "syncSub" /\ k.ref = r /\ k.order = s.order
    <3> HIDE DEF i, s
    <3> QED BY <2>2 DEF Local, Labels
  <2>4. \/ Unconfirmed(r) /\ Begins(t, l)
        \/ s.order # NoOrder /\ s.status \notin Resolved /\ Begins(t, k)
    BY <1>3 DEF BeginCheck
  <2> HIDE DEF l, k, i
  <2>5. CASE Unconfirmed(r) /\ Begins(t, l)
    <3>1. CheckOK(broker, store, l)
      BY <2>1, <2>3, <2>5 DEF CheckOK, Unconfirmed, NoId
    <3>2. LocalOK(broker, store, LetGo, l) /\ l.pc \notin Counted
      BY <2>3, <3>1, ByLabel DEF CheckLabels, Counted
    <3> QED BY <2>3, <2>5, <3>2, BeginMoves
  <2>6. CASE s.order # NoOrder /\ s.status \notin Resolved /\ Begins(t, k)
    <3>1. RefOK(broker, store, r) BY <1>1 DEF StoreOK
    <3>2. Above(broker, store, s.order, r) /\ s.status \notin {NoState, "SUBMITTING"}
      BY <2>6, <3>1 DEF RefOK
    <3>3. s.status \in {"WORKING", "UNKNOWN"}
      BY <2>1, <2>6, <3>2 DEF Submission, SubStates, Resolved
    <3>4. StatusOK(broker, store, k)
      BY <2>3, <3>2, <3>3 DEF StatusOK, Above, Sent, KnownLabels, BookLabels, FreezeLabels, CopyLabels
    <3>5. LocalOK(broker, store, LetGo, k) /\ k.pc \notin Counted
      BY <2>3, <3>4, ByLabel DEF BootLabels, Counted
    <3> QED BY <2>3, <2>6, <3>5, BeginMoves
  <2> QED BY <2>4, <2>5, <2>6
<1>4. ASSUME NEW r \in Refs, BeginClear(t, r) PROVE IInv' /\ CInv'
  <2> DEFINE s == store.subs[r]
             l == [IdleThread EXCEPT !.pc = "clearRead", !.ref = r, !.sub = s, !.order = s.order]
  <2>1. s \in Submission /\ SameSub(s, s)
    BY <1>1 DEF Store, SameSub
  <2>2. l \in Local /\ l.pc = "clearRead" /\ l.ref = r /\ l.sub = s /\ l.order = s.order
    BY <1>0, <2>1 DEF Local, IdleThread, Submission, Labels
  <2>3. /\ Begins(t, l)
        /\ \/ s.order = NoOrder /\ s.status \in {"UNKNOWN", "SUBMITTING"}
           \/ s.order # NoOrder /\ store.pending[s.order].kept
    BY <1>4 DEF BeginClear
  <2> HIDE DEF l
  <2>4. RefOK(broker, store, r) BY <1>1 DEF StoreOK
  <2>5. ClearOK(broker, store, LetGo, l)
    BY <2>1, <2>2, <2>3, <2>4 DEF ClearOK, RefOK
  <2>6. LocalOK(broker, store, LetGo, l) /\ l.pc \notin Counted
    BY <2>2, <2>5, ByLabel DEF ClearLabels, Counted
  <2> QED BY <2>2, <2>3, <2>6, BeginMoves
<1>5. ASSUME NEW o \in Orders, BeginPoll(t, o) PROVE IInv' /\ CInv'
  <2> DEFINE l == [IdleThread EXCEPT !.pc = "osGet", !.order = o]
  <2>1. l \in Local /\ l.pc = "osGet" /\ l.order = o /\ l.ret = "idle"
    BY <1>0 DEF Local, Labels, IdleThread
  <2>2. Begins(t, l) /\ store.pending[o].kept BY <1>5 DEF BeginPoll
  <2> HIDE DEF l
  <2>3. StatusOK(broker, store, l)
    BY <2>1, <2>2 DEF StatusOK, KnownLabels, BookLabels, FreezeLabels, CopyLabels
  <2>4. LocalOK(broker, store, LetGo, l) /\ l.pc \notin Counted
    BY <2>1, <2>3, ByLabel DEF BootLabels, Counted
  <2> QED BY <2>1, <2>2, <2>4, BeginMoves
<1>6. ASSUME NEW o \in Orders, BeginCancel(t, o) PROVE IInv' /\ CInv'
  <2> DEFINE l == [IdleThread EXCEPT !.pc = "cxRead", !.order = o]
  <2>1. l \in Local /\ l.pc = "cxRead" /\ l.order = o /\ l.ret = "idle" /\ l.res = NoState
    BY <1>0 DEF Local, Labels, IdleThread
  <2>2. Begins(t, l) /\ store.pending[o].kept BY <1>6 DEF BeginCancel
  <2> HIDE DEF l
  <2>3. CancelOK(broker, store, l)
    BY <2>1, <2>2 DEF CancelOK
  <2>4. LocalOK(broker, store, LetGo, l) /\ l.pc \notin Counted
    BY <2>1, <2>3, ByLabel DEF CxLabels, Counted
  <2> QED BY <2>1, <2>2, <2>4, BeginMoves
<1> QED BY <1>2, <1>3, <1>4, <1>5, <1>6 DEF BeginStep

-----------------------------------------------------------------------------
(* order_status reads. *)

LEMMA StatusLabel ==
  ASSUME NEW l, l.pc \in BootLabels
  PROVE  l.pc # "idle" /\ l.pc \notin PlaceLabels \cup CheckLabels \cup CxLabels \cup ClearLabels
BY DEF PlaceLabels, CheckLabels, BootLabels, KnownLabels, BookLabels, FreezeLabels, CxLabels,
       ClearLabels

\* While the sweep goes on, its thread stays with the order it polls.
LEMMA StaysInSweep ==
  ASSUME IInv, NEW t \in Threads, NEW l, th[t].pc # "idle",
         l.pc # "idle" => l.pc \in BootLabels /\ l.ret = th[t].ret /\ l.order = th[t].order
  PROVE  todo = {} \/ (l.pc # "idle" => l.pc \in BootLabels /\ l.ret = "idle" /\ l.order \notin todo)
BY DEF IInv, SweepOK

LEMMA OsGetKeeps ==
  ASSUME IInv, CInv, NEW t, Threads = {t}, OsGet(t)
  PROVE  IInv' /\ CInv'
<1> DEFINE rec == store.pending[th[t].order]
           l == [[th[t] EXCEPT !.pc = "osRead"] EXCEPT !.rec = rec]
           k == [[th[t] EXCEPT !.pc = th[t].ret] EXCEPT !.res = "UNKNOWN"]
<1>1. /\ th[t] \in Local /\ StatusOK(broker, store, th[t]) /\ store \in Store /\ faults \in Nat
      /\ th[t].pc = "osGet" /\ up
  BY Facts DEF LocalOK, OsGet, At
<1>2. /\ Step(t, IF rec.kept THEN l ELSE k)
      /\ UNCHANGED <<broker, store, process, history, crashes>> /\ faults' = faults
  BY DEF OsGet, Reads, bounds
<1>3. th[t].ret \in {"idle", "syncSub"}
  BY <1>1 DEF Local
<1>4. th[t].order \in Orders
  BY <1>1, <1>3 DEF StatusOK, Above, Sent
<1>5. rec \in Pending
  BY <1>1, <1>4 DEF Store
<1>6. CASE rec.kept
  <2>1. l \in Local /\ l.pc = "osRead" /\ l.rec = rec /\ l.order = th[t].order
        /\ l.ret = th[t].ret /\ l.ref = th[t].ref
    <3> HIDE DEF rec
    <3> QED BY <1>1, <1>5 DEF Local, Labels
  <2>2. Step(t, l) BY <1>2, <1>6
  <2> HIDE DEF l
  <2>3. StatusOK(broker, store, l)
    BY <1>1, <1>4, <1>6, <2>1 DEF StatusOK, BookLabels, FreezeLabels, CopyLabels, BootLabels
  <2>4. LocalOK(broker, store, LetGo, l) /\ l.pc \notin Counted /\ l.pc \in BootLabels
    BY <2>1, <2>3, ByLabel DEF BootLabels, KnownLabels, Counted
  <2>5. Keeps(th[t], l)
    BY <1>1 DEF Keeps, Mid, Hand, FreezeLabels, BookLabels
  <2>6. todo = {} \/ (l.pc # "idle" => l.pc \in BootLabels /\ l.ret = "idle" /\ l.order \notin todo)
    BY <1>1, <2>1, <2>4, StaysInSweep
  <2> QED BY <1>1, <1>2, <2>1, <2>2, <2>4, <2>5, <2>6, Uncounted, LocalMoves
<1>7. CASE ~rec.kept
  <2>0. th[t].ret = "syncSub"
    BY <1>1, <1>3, <1>7 DEF StatusOK
  <2>1. k \in Local /\ k.pc = "syncSub" /\ k.res = "UNKNOWN" /\ k.order = th[t].order
        /\ k.ref = th[t].ref
    BY <1>1, <2>0 DEF Local, Labels, SubStates
  <2>2. Step(t, k) BY <1>2, <1>7
  <2>3. th[t].ref \in Refs /\ Above(broker, store, th[t].order, th[t].ref)
        /\ store.subs[th[t].ref].order = th[t].order
    BY <1>1, <2>0 DEF StatusOK, BootLabels
  <2> HIDE DEF k
  <2>4. CheckOK(broker, store, k)
    BY <1>7, <2>1, <2>3 DEF CheckOK, Ends, Resolved
  <2>5. LocalOK(broker, store, LetGo, k) /\ k.pc \notin Counted
    BY <2>1, <2>4, ByLabel DEF CheckLabels, Counted
  <2>6. Keeps(th[t], k)
    BY <1>1 DEF Keeps, Mid, Hand, FreezeLabels, BookLabels
  <2>7. todo = {}
    BY <1>1, <2>0 DEF IInv, SweepOK
  <2> QED BY <1>1, <1>2, <2>1, <2>2, <2>5, <2>6, <2>7, Uncounted, LocalMoves
<1> QED BY <1>6, <1>7

\* The thread gives up.
LEMMA GivesUp ==
  ASSUME IInv, CInv, NEW t, Threads = {t}, up, Step(t, IdleThread),
         UNCHANGED <<broker, store, process, history, crashes>>, faults' \in Nat,
         th[t].pc \notin Mid \cup Hand \cup FreezeLabels \cup {"ackUnknown"}
  PROVE  IInv' /\ CInv'
<1>1. IdleThread \in Local /\ LocalOK(broker, store, LetGo, IdleThread)
      /\ CountOK(broker, store, LetGo, IdleThread)
  BY IdleOK
<1>2. Keeps(th[t], IdleThread)
  BY DEF Keeps
<1>3. IdleThread.pc = "idle"
  BY IdleFields
<1> QED BY <1>1, <1>2, <1>3, LocalMoves

LEMMA FaultCounts ==
  ASSUME IInv, CInv, Fault, NEW t \in Threads
  PROVE  faults' \in Nat /\ crashes' = crashes
BY Facts DEF Fault

LEMMA OsReadFailsKeeps ==
  ASSUME IInv, CInv, NEW t, Threads = {t}, OsReadFails(t)
  PROVE  IInv' /\ CInv'
<1>1. faults' \in Nat /\ crashes' = crashes BY FaultCounts DEF OsReadFails
<1> QED BY <1>1, GivesUp DEF OsReadFails, At, Mid, Hand, FreezeLabels, BookLabels

\* What _roll_order_status makes of an answer: l are the locals, u the ones
\* before and n the whole units reported.
RollOutcome(l, u, status, n, close, open) ==
  /\ l \in Local /\ l.ref = u.ref /\ l.order = u.order /\ l.rec = u.rec /\ l.ret = u.ret
  /\ \/ l.pc = "pop" /\ l.res = "LEG_IMBALANCE" /\ status \in RawTerminal /\ close # open
     \/ /\ l.pc = "bookClose" /\ u.rec.filled + l.units = n /\ l.units > 0
        /\ ~(status \in RawTerminal /\ close # open)
        /\ l.res = IF n >= Qty \/ status = "FILLED" THEN "FILLED" ELSE "WORKING"
     \/ /\ l.pc = "pop" /\ l.res = DeadRes(status) /\ n <= u.rec.filled /\ close = open
        /\ status \in RawTerminal \ {"FILLED"}
     \/ l.pc = "sync" /\ l.res = "WORKING"

LEMMA OnRollCases ==
  ASSUME NEW t, th[t] \in Local, NEW status, NEW close \in 0..Qty, NEW open \in 0..Qty
  PROVE  RollOutcome(OnRoll(t, status, close, open), th[t], status,
                     FilledUnits(status, close, open), close, open)
<1> DEFINE n == FilledUnits(status, close, open)
           x == th[t].rec.filled
           a == [[th[t] EXCEPT !.pc = "pop"] EXCEPT !.res = "LEG_IMBALANCE"]
           r == IF x + (n - x) >= Qty \/ status = "FILLED" THEN "FILLED" ELSE "WORKING"
           e == [[th[t] EXCEPT !.pc = "bookClose"] EXCEPT !.units = n - x]
           b == [e EXCEPT !.res = r]
           c == [[th[t] EXCEPT !.pc = "pop"] EXCEPT !.res = DeadRes(status)]
           d == [[th[t] EXCEPT !.pc = "sync"] EXCEPT !.res = "WORKING"]
           torn == status \in RawTerminal /\ close # open
<1>1. Qty \in Nat /\ x \in Nat /\ n \in 0..Qty
  BY RollConstants DEF Local, Pending, FilledUnits, Less
<1>2. OnRoll(t, status, close, open) =
        CASE torn -> a
          [] ~torn /\ n - x > 0 -> b
          [] ~torn /\ n - x <= 0 /\ status \in RawTerminal \ {"FILLED"} -> c
          [] OTHER -> d
  BY DEF OnRoll
<1>3. CASE torn
  <2>1. OnRoll(t, status, close, open) = a BY <1>2, <1>3
  <2> QED BY <2>1, <1>3 DEF RollOutcome, Local, Labels, SubStates, Resolved
<1>4. CASE ~torn /\ n - x > 0
  <2>1. OnRoll(t, status, close, open) = b BY <1>1, <1>2, <1>4
  <2>2. n - x \in 0..Qty /\ x + (n - x) = n BY <1>1, <1>4
  <2>3. /\ b \in Local /\ b.ref = th[t].ref /\ b.order = th[t].order /\ b.rec = th[t].rec
        /\ b.ret = th[t].ret /\ b.pc = "bookClose" /\ b.units = n - x
        /\ b.res = IF n >= Qty \/ status = "FILLED" THEN "FILLED" ELSE "WORKING"
    <3>1. r \in SubStates /\ r = IF n >= Qty \/ status = "FILLED" THEN "FILLED" ELSE "WORKING"
      BY <2>2 DEF SubStates, Resolved
    <3>2. /\ e \in Local /\ e.ref = th[t].ref /\ e.order = th[t].order /\ e.rec = th[t].rec
          /\ e.ret = th[t].ret /\ e.pc = "bookClose" /\ e.units = n - x
      <4> HIDE DEF n
      <4> QED BY <2>2 DEF Local, Labels
    <3> HIDE DEF n, r, e
    <3>3. b \in Local /\ b.res = r
      BY <3>1, <3>2 DEF Local
    <3>4. /\ b.ref = th[t].ref /\ b.order = th[t].order /\ b.rec = th[t].rec
          /\ b.ret = th[t].ret /\ b.pc = "bookClose" /\ b.units = n - x
      BY <3>2 DEF Local
    <3> QED BY <3>1, <3>3, <3>4
  <2> HIDE DEF b
  <2> QED BY <2>1, <2>2, <2>3, <1>4 DEF RollOutcome
<1>5. CASE ~torn /\ n - x <= 0 /\ status \in RawTerminal \ {"FILLED"}
  <2>1. OnRoll(t, status, close, open) = c BY <1>2, <1>5, <1>1
  <2>2. n <= x /\ close = open BY <1>1, <1>5
  <2>3. /\ c \in Local /\ c.ref = th[t].ref /\ c.order = th[t].order /\ c.rec = th[t].rec
        /\ c.ret = th[t].ret /\ c.pc = "pop" /\ c.res = DeadRes(status)
    <3>1. DeadRes(status) \in SubStates BY DEF SubStates, Resolved, DeadRes
    <3> QED BY <3>1 DEF Local, Labels
  <2> HIDE DEF c
  <2> QED BY <2>1, <2>2, <2>3, <1>5 DEF RollOutcome
<1>6. CASE ~torn /\ ~(n - x > 0) /\ ~(n - x <= 0 /\ status \in RawTerminal \ {"FILLED"})
  <2>1. OnRoll(t, status, close, open) = d BY <1>2, <1>6
  <2> QED BY <2>1 DEF RollOutcome, Local, Labels, SubStates, Resolved
<1> QED BY <1>3, <1>4, <1>5, <1>6

LEMMA Reported ==
  ASSUME NEW v \in Roll, v.status = "FILLED" <=> v.close = Qty /\ v.open = Qty,
         NEW legs \in LegReports(v)
  PROVE  LET n == FilledUnits(v.status, legs[1], legs[2])
         IN  /\ legs[1] \in 0..Qty /\ legs[2] \in 0..Qty
             /\ n \in Nat /\ n <= v.close /\ n <= v.open
             /\ n >= Qty \/ v.status = "FILLED" => n = Qty /\ v.status = "FILLED"
             /\ v.status # "FILLED" /\ legs[1] = legs[2] => n = v.close /\ n = v.open
<1>1. Qty \in Nat /\ v.close \in 0..Qty /\ v.open \in 0..Qty
  BY RollConstants DEF Roll
<1>2. \/ legs[1] = v.close /\ legs[2] = v.open
      \/ v.status = "FILLED" /\ legs[1] = 0 /\ legs[2] = 0
  BY DEF LegReports
<1> QED BY <1>1, <1>2 DEF FilledUnits, Less

LEMMA OsReadKeeps ==
  ASSUME IInv, CInv, NEW t, Threads = {t}, OsRead(t)
  PROVE  IInv' /\ CInv'
<1> DEFINE o == th[t].order
           v == broker[o]
<1>1. /\ th[t] \in Local /\ StatusOK(broker, store, th[t]) /\ store \in Store /\ faults \in Nat
      /\ th[t].pc = "osRead" /\ up /\ broker \in BrokerType /\ BrokerOK(broker)
      /\ StoreOK(broker, store, LetGo)
  BY Facts DEF LocalOK, OsRead, At
<1>2. PICK legs \in LegReports(v) : Reads(t, OnRoll(t, v.status, legs[1], legs[2]))
  BY DEF OsRead
<1>3. /\ o \in Orders /\ store.pending[o].kept /\ th[t].rec = store.pending[o]
      /\ OrderOK(broker, store, LetGo, o)
  BY <1>1 DEF StatusOK, KnownLabels, StoreOK
<1>4. v \in Roll /\ (v.status = "FILLED" <=> v.close = Qty /\ v.open = Qty)
  BY <1>1, <1>3 DEF BrokerType, BrokerOK
<1> DEFINE l == OnRoll(t, v.status, legs[1], legs[2])
           n == FilledUnits(v.status, legs[1], legs[2])
           x == th[t].rec.filled
<1>5. /\ legs[1] \in 0..Qty /\ legs[2] \in 0..Qty
      /\ n \in Nat /\ n <= v.close /\ n <= v.open
      /\ n >= Qty \/ v.status = "FILLED" => n = Qty /\ v.status = "FILLED"
      /\ v.status # "FILLED" /\ legs[1] = legs[2] => n = v.close /\ n = v.open
  BY <1>4, Reported
<1>6. /\ l \in Local /\ l.ref = th[t].ref /\ l.order = o /\ l.rec = th[t].rec /\ l.ret = th[t].ret
      /\ \/ l.pc = "pop" /\ l.res = "LEG_IMBALANCE" /\ v.status \in RawTerminal /\ legs[1] # legs[2]
         \/ /\ l.pc = "bookClose" /\ x + l.units = n /\ l.units > 0
            /\ ~(v.status \in RawTerminal /\ legs[1] # legs[2])
            /\ l.res = IF n >= Qty \/ v.status = "FILLED" THEN "FILLED" ELSE "WORKING"
         \/ /\ l.pc = "pop" /\ l.res = DeadRes(v.status) /\ n <= x /\ legs[1] = legs[2]
            /\ v.status \in RawTerminal \ {"FILLED"}
         \/ l.pc = "sync" /\ l.res = "WORKING"
  <2>1. th[t] \in Local /\ legs[1] \in 0..Qty /\ legs[2] \in 0..Qty
    BY <1>1, <1>5
  <2>2. RollOutcome(l, th[t], v.status, n, legs[1], legs[2])
    BY <2>1, OnRollCases
  <2> HIDE DEF l, n, v
  <2> QED BY <2>2 DEF RollOutcome
<1>7. Step(t, l) /\ UNCHANGED <<broker, store, process, history, crashes>> /\ faults' = faults
  BY <1>2 DEF Reads, bounds
<1> HIDE DEF l, n
<1>8. l.pc \in {"pop", "bookClose", "sync"}
  BY <1>6
<1>9. StatusOK(broker, store, l)
  <2>1. l.ret = "syncSub" => l.ref \in Refs /\ v.ref = l.ref
    BY <1>1, <1>6 DEF StatusOK, BootLabels, KnownLabels
  <2>2. l.pc = "bookClose" => /\ l.res \in {"FILLED", "WORKING"} /\ l.units > 0
                              /\ x + l.units <= v.close /\ x + l.units <= v.open
                              /\ l.res = "FILLED" => Over(broker, o) /\ x + l.units = Qty
    BY <1>5, <1>6 DEF Over, RawTerminal
  <2>3. l.pc = "pop" => l.res \in Ends /\ Over(broker, o)
    BY <1>6 DEF Over, RawTerminal, DeadRes, Ends, Resolved
  <2>4. l.pc = "sync" => Current(broker, store, o) /\ l.rec.ref = v.ref /\ l.res = "WORKING"
    BY <1>3, <1>6 DEF OrderOK
  <2> QED BY <1>3, <1>6, <1>8, <2>1, <2>2, <2>3, <2>4
          DEF StatusOK, KnownLabels, BookLabels, FreezeLabels, CopyLabels
<1>10. LocalOK(broker, store, LetGo, l) /\ l.pc \in BootLabels
  BY <1>8, <1>9, ByLabel DEF BootLabels, KnownLabels, BookLabels
<1>11. Keeps(th[t], l)
  BY <1>1 DEF Keeps, Mid, Hand, FreezeLabels, BookLabels
<1>12. crashes = 0 => CountOK(broker, store, LetGo, l)
  <2>1. CASE l.pc # "pop"
    BY <1>8, <2>1, Uncounted DEF Counted
  <2>2. CASE l.pc = "pop" /\ crashes = 0
    <3>1. Booked(store, o, x) /\ store.closed[o] <= v.close
      BY <1>1, <1>3, <2>2, Facts DEF BooksOK, BookLabels
    <3>2. x <= v.close /\ x \in Nat
      BY <3>1, <1>1, <1>3 DEF Booked, Local, Pending
    <3>3. l.res # "FILLED"
      BY <1>6, <2>2 DEF DeadRes
    <3>4. l.res # "LEG_IMBALANCE" => v.close = x /\ v.open = x
      <4>1. l.res # "LEG_IMBALANCE" => n <= x /\ legs[1] = legs[2] /\ v.status # "FILLED"
        BY <1>6, <2>2
      <4> QED BY <4>1, <3>2, <1>5
    <3> QED BY <1>6, <2>2, <3>1, <3>3, <3>4 DEF CountOK
  <2> QED BY <2>1, <2>2
<1>13. todo = {} \/ (l.pc # "idle" => l.pc \in BootLabels /\ l.ret = "idle" /\ l.order \notin todo)
  BY <1>1, <1>6, <1>10, StaysInSweep
<1>14. faults' \in Nat
  BY <1>1, <1>7
<1> QED BY <1>1, <1>6, <1>7, <1>10, <1>11, <1>12, <1>13, <1>14, LocalMoves

LEMMA SameStoreAtOnce ==
  ASSUME NEW s
  PROVE  SameStore(s, s)
BY DEF SameStore, SameSub

LEMMA ApplyLoadKeeps ==
  ASSUME IInv, CInv, NEW t, Threads = {t}, ApplyLoad(t)
  PROVE  IInv' /\ CInv'
<1> DEFINE l == [[th[t] EXCEPT !.pc = "applySave"] EXCEPT !.copy = store]
<1>1. /\ th[t] \in Local /\ StatusOK(broker, store, th[t]) /\ store \in Store /\ faults \in Nat
      /\ th[t].pc = "applyLoad" /\ up
      /\ crashes = 0 => CountOK(broker, store, LetGo, th[t])
  BY Facts DEF LocalOK, ApplyLoad, At
<1>2. Step(t, l) /\ UNCHANGED <<broker, store, process, history, crashes>> /\ faults' = faults
  BY DEF ApplyLoad, Reads, bounds
<1>3. /\ l \in Local /\ l.pc = "applySave" /\ l.copy = store /\ l.ref = th[t].ref
      /\ l.order = th[t].order /\ l.rec = th[t].rec /\ l.units = th[t].units
      /\ l.res = th[t].res /\ l.ret = th[t].ret
  BY <1>1 DEF Local, Labels
<1> HIDE DEF l
<1>4. StatusOK(broker, store, l)
  BY <1>1, <1>3, SameStoreAtOnce DEF StatusOK, BootLabels, KnownLabels, BookLabels, FreezeLabels
<1>5. LocalOK(broker, store, LetGo, l) /\ l.pc \in BootLabels
  BY <1>3, <1>4, ByLabel DEF BootLabels, KnownLabels, BookLabels
<1>6. Keeps(th[t], l)
  BY <1>1, <1>3 DEF Keeps, Mid, Hand, FreezeLabels, BookLabels
<1>7. crashes = 0 => CountOK(broker, store, LetGo, l)
  BY <1>1, <1>3 DEF CountOK
<1>8. todo = {} \/ (l.pc # "idle" => l.pc \in BootLabels /\ l.ret = "idle" /\ l.order \notin todo)
  BY <1>1, <1>3, <1>5, StaysInSweep
<1> QED BY <1>1, <1>2, <1>3, <1>5, <1>6, <1>7, <1>8, LocalMoves

LEMMA FreezeLoadKeeps ==
  ASSUME IInv, CInv, NEW t, Threads = {t}, FreezeLoad(t)
  PROVE  IInv' /\ CInv'
<1> DEFINE l == [[th[t] EXCEPT !.pc = "freezeSave"] EXCEPT !.copy = store]
<1>1. /\ th[t] \in Local /\ StatusOK(broker, store, th[t]) /\ store \in Store /\ faults \in Nat
      /\ th[t].pc = "freezeLoad" /\ up
  BY Facts DEF LocalOK, FreezeLoad, At
<1>2. Step(t, l) /\ UNCHANGED <<broker, store, process, history, crashes>> /\ faults' = faults
  BY DEF FreezeLoad, Reads, bounds
<1>3. /\ l \in Local /\ l.pc = "freezeSave" /\ l.copy = store /\ l.ref = th[t].ref
      /\ l.order = th[t].order /\ l.rec = th[t].rec /\ l.units = th[t].units
      /\ l.res = th[t].res /\ l.ret = th[t].ret
  BY <1>1 DEF Local, Labels
<1> HIDE DEF l
<1>4. StatusOK(broker, store, l)
  BY <1>1, <1>3, SameStoreAtOnce DEF StatusOK, BootLabels, KnownLabels, BookLabels, FreezeLabels
<1>5. LocalOK(broker, store, LetGo, l) /\ l.pc \in BootLabels /\ l.pc \notin Counted
  BY <1>3, <1>4, ByLabel DEF BootLabels, FreezeLabels, Counted
<1>6. Keeps(th[t], l)
  BY <1>1, <1>3 DEF Keeps, Mid, Hand, FreezeLabels, BookLabels
<1>8. todo = {} \/ (l.pc # "idle" => l.pc \in BootLabels /\ l.ret = "idle" /\ l.order \notin todo)
  BY <1>1, <1>3, <1>5, StaysInSweep
<1> QED BY <1>1, <1>2, <1>3, <1>5, <1>6, <1>8, Uncounted, LocalMoves

-----------------------------------------------------------------------------
(* The broker moves on, or the operator lets orders go, under a thread     *)
(* that takes a step.                                                      *)

LEMMA GrowsAtOnce ==
  ASSUME NEW b \in BrokerType
  PROVE  BrokerGrows(b, b)
BY RollConstants DEF BrokerGrows, BrokerType, Roll

LEMMA SameNumbers ==
  ASSUME BrokerGrows(broker, broker'), Numbered
  PROVE  Numbered'
<1>1. \A o \in Orders : Sent(broker, o) <=> Sent(broker', o)
  BY DEF BrokerGrows
<1>2. Entered' = Entered
  BY <1>1 DEF Entered, Sent
<1> QED BY <1>1, <1>2 DEF Numbered

LEMMA BrokerMoves ==
  ASSUME IInv, CInv, NEW t, Threads = {t}, NEW l \in Local, Step(t, l),
         up, UNCHANGED <<store, process, crashes>>, faults' \in Nat,
         broker' \in BrokerType, BrokerOK(broker'), BrokerGrows(broker, broker'),
         forced \subseteq forced', cleared \subseteq cleared',
         forced' \subseteq Orders, cleared' \subseteq Orders,
         LocalOK(broker, store, LetGo', l),
         crashes = 0 => CountOK(broker, store, LetGo', l),
         Keeps(th[t], l),
         todo = {} \/ (l.pc # "idle" => l.pc \in BootLabels /\ l.ret = "idle" /\ l.order \notin todo)
  PROVE  IInv' /\ CInv'
<1>1. LetGo \subseteq LetGo'
  BY DEF LetGo
<1>2. /\ broker \in BrokerType /\ store \in Store /\ StoreOK(broker, store, LetGo) /\ Numbered
      /\ th[t] \in Local
      /\ crashes = 0 => BooksOK(broker, store, LetGo, th[t])
      /\ \A o \in todo : store.pending[o].kept
  BY Facts DEF SweepOK
<1> HIDE DEF LetGo
<1>3. store' = store
  OBVIOUS
<1>4. StoreOK(broker', store, LetGo')
  BY <1>1, <1>2, StoreStable
<1>5. LocalOK(broker', store, LetGo', l)
  BY <1>2, LocalStable
<1>6. crashes = 0 => CountOK(broker', store, LetGo', l)
  BY <1>2, CountStable
<1>7. crashes = 0 => BooksOK(broker', store, LetGo', l)
  <2>1. crashes = 0 => BooksOK(broker', store, LetGo', th[t])
    BY <1>1, <1>2, BooksStable
  <2> QED BY <2>1, BooksKept
<1>8. Numbered'
  BY <1>2, SameNumbers
<1> QED BY <1>2, <1>3, <1>4, <1>5, <1>6, <1>7, <1>8, ThreadMoves

-----------------------------------------------------------------------------
(* cancel_order up to its pop. *)

LEMMA CxFacts ==
  ASSUME IInv, CInv, NEW t \in Threads, th[t].pc \in CxLabels
  PROVE  /\ th[t] \in Local /\ th[t].order \in Orders /\ store.pending[th[t].order].kept
         /\ th[t].res = NoState /\ th[t].ret = "idle"
         /\ th[t].pc \in {"finalize", "cxPopPartial", "cxPopClean"} => Over(broker, th[t].order)
         /\ broker \in BrokerType /\ BrokerOK(broker) /\ todo = {} /\ faults \in Nat
         /\ forced \subseteq Orders /\ cleared \subseteq Orders
<1>1. th[t].pc \notin BootLabels \cup {"idle"}
  BY DEF CxLabels, BootLabels, KnownLabels, BookLabels, FreezeLabels
<1> QED BY <1>1, NotBooting, Facts DEF LocalOK, CancelOK

\* Wherever cancel_order goes next, it knows enough.
LEMMA CxGoes ==
  ASSUME NEW u \in Local, u.pc \in CxLabels, CancelOK(broker, store, u),
         NEW p \in {"osGet", "cxRead", "cxDelete", "cxConfirm", "finalize", "cxPopPartial", "cxPopClean"},
         p \in {"finalize", "cxPopPartial", "cxPopClean"} => Over(broker, u.order),
         p = "cxPopClean" => broker[u.order].close = 0 /\ broker[u.order].open = 0
  PROVE  LET l == [u EXCEPT !.pc = p]
         IN  /\ l \in Local /\ LocalOK(broker, store, LetGo, l) /\ Keeps(u, l)
             /\ CountOK(broker, store, LetGo, l)
<1> DEFINE l == [u EXCEPT !.pc = p]
<1>1. l \in Local /\ l.pc = p /\ l.order = u.order /\ l.res = u.res /\ l.ret = u.ret
  BY DEF Local, Labels
<1> HIDE DEF l
<1>2. l.pc # "osGet" => l.pc \in CxLabels /\ CancelOK(broker, store, l)
  BY <1>1 DEF CancelOK, CxLabels
<1>3. l.pc = "osGet" => l.pc \in BootLabels /\ StatusOK(broker, store, l)
  BY <1>1 DEF CancelOK, StatusOK, BootLabels, KnownLabels, BookLabels, FreezeLabels, CopyLabels
<1>4. LocalOK(broker, store, LetGo, l)
  BY <1>2, <1>3, ByLabel
<1>5. Keeps(u, l)
  BY DEF Keeps, CxLabels, Mid, Hand, FreezeLabels, BookLabels
<1>6. CountOK(broker, store, LetGo, l)
  BY <1>1, Uncounted DEF Counted
<1> QED BY <1>1, <1>4, <1>5, <1>6 DEF l

LEMMA CxReads ==
  ASSUME IInv, CInv, NEW t, Threads = {t}, up, th[t].pc \in CxLabels,
         NEW p \in {"osGet", "cxRead", "cxDelete", "cxConfirm", "finalize", "cxPopPartial", "cxPopClean"},
         p \in {"finalize", "cxPopPartial", "cxPopClean"} => Over(broker, th[t].order),
         p = "cxPopClean" => broker[th[t].order].close = 0 /\ broker[th[t].order].open = 0,
         Step(t, [th[t] EXCEPT !.pc = p]),
         UNCHANGED <<broker, store, process, history, crashes>>, faults' \in Nat
  PROVE  IInv' /\ CInv'
<1> DEFINE l == [th[t] EXCEPT !.pc = p]
<1>1. th[t] \in Local /\ todo = {} /\ CancelOK(broker, store, th[t])
  BY CxFacts, Facts DEF LocalOK
<1>2. l \in Local /\ LocalOK(broker, store, LetGo, l) /\ Keeps(th[t], l) /\ CountOK(broker, store, LetGo, l)
  BY <1>1, CxGoes
<1>3. Step(t, l)
  OBVIOUS
<1> HIDE DEF l
<1> QED BY <1>1, <1>2, <1>3, LocalMoves

LEMMA OnStatusGoes ==
  ASSUME NEW b, NEW o \in Orders, NEW raw, raw = b[o].status \/ raw = ""
  PROVE  /\ OnStatus(raw) \in {"osGet", "finalize", "cxConfirm", "cxDelete"}
         /\ OnStatus(raw) = "finalize" => Over(b, o)
BY DEF OnStatus, Over, RawTerminal

LEMMA CxReadsKeep ==
  ASSUME IInv, CInv, NEW t, Threads = {t},
         CxRead(t) \/ CxReadFails(t) \/ CxConfirm(t) \/ Finalize(t) \/ FinalizeFails(t)
  PROVE  IInv' /\ CInv'
<1> DEFINE o == th[t].order
<1>1. up /\ th[t].pc \in CxLabels
  BY DEF CxRead, CxReadFails, CxConfirm, Finalize, FinalizeFails, At, CxLabels
<1>2. /\ th[t] \in Local /\ o \in Orders /\ broker \in BrokerType /\ BrokerOK(broker) /\ todo = {}
      /\ faults \in Nat /\ (th[t].pc = "finalize" => Over(broker, o))
  BY <1>1, CxFacts
<1>3. th[t].pc \notin Mid \cup Hand \cup FreezeLabels \cup {"ackUnknown"}
  BY <1>1 DEF CxLabels, Mid, Hand, FreezeLabels, BookLabels
<1>4. CASE CxRead(t)
  <2> DEFINE p == OnStatus(broker[o].status)
  <2>1. Step(t, [th[t] EXCEPT !.pc = p])
        /\ UNCHANGED <<broker, store, process, history, crashes>> /\ faults' \in Nat
    BY <1>2, <1>4 DEF CxRead, Reads, bounds
  <2>2. /\ p \in {"osGet", "finalize", "cxConfirm", "cxDelete"}
        /\ p = "finalize" => Over(broker, o)
    BY <1>2, OnStatusGoes
  <2> HIDE DEF p
  <2> QED BY <1>1, <1>2, <2>1, <2>2, CxReads
<1>5. CASE CxReadFails(t)
  <2>1. Step(t, [th[t] EXCEPT !.pc = OnStatus("")])
        /\ UNCHANGED <<broker, store, process, history, crashes>> /\ faults' \in Nat
    BY <1>5, FaultCounts DEF CxReadFails
  <2>2. /\ OnStatus("") \in {"osGet", "finalize", "cxConfirm", "cxDelete"}
        /\ OnStatus("") = "finalize" => Over(broker, o)
    BY <1>2, OnStatusGoes
  <2> QED BY <1>1, <1>2, <2>1, <2>2, CxReads
<1>6. CASE CxConfirm(t)
  <2>1. CASE Dead(o) /\ Reads(t, [th[t] EXCEPT !.pc = "finalize"])
    <3>1. Over(broker, o) BY <2>1 DEF Dead, Over
    <3>2. Step(t, [th[t] EXCEPT !.pc = "finalize"])
          /\ UNCHANGED <<broker, store, process, history, crashes>> /\ faults' \in Nat
      BY <2>1, <1>2 DEF Reads, bounds
    <3> QED BY <1>1, <3>1, <3>2, CxReads
  <2>2. CASE Reads(t, IdleThread)
    BY <2>2, <1>1, <1>2, <1>3, GivesUp DEF Reads, bounds
  <2> QED BY <1>6, <2>1, <2>2 DEF CxConfirm
<1>7. CASE Finalize(t)
  <2> DEFINE p == IF broker[o].status = "FILLED" THEN "osGet"
                  ELSE IF broker[o].close + broker[o].open > 0 THEN "cxPopPartial" ELSE "cxPopClean"
  <2>1. /\ Step(t, [th[t] EXCEPT !.pc = p])
        /\ UNCHANGED <<broker, store, process, history, crashes>> /\ faults' \in Nat
        /\ th[t].pc = "finalize"
    BY <1>7, <1>2 DEF Finalize, Reads, bounds, At
  <2>2. broker[o].close \in Nat /\ broker[o].open \in Nat
    BY <1>2, RollConstants DEF BrokerType, Roll
  <2>3. /\ p \in {"osGet", "cxPopPartial", "cxPopClean"}
        /\ p = "cxPopClean" => broker[o].close = 0 /\ broker[o].open = 0
    BY <2>2
  <2> HIDE DEF p
  <2> QED BY <1>1, <1>2, <2>1, <2>3, CxReads
<1>8. CASE FinalizeFails(t)
  BY <1>8, <1>1, <1>3, FaultCounts, GivesUp DEF FinalizeFails
<1> QED BY <1>4, <1>5, <1>6, <1>7, <1>8

LEMMA AskGrows ==
  ASSUME NEW o \in Orders, broker \in BrokerType, BrokerOK(broker), AskToCancel(o)
  PROVE  broker' \in BrokerType /\ BrokerOK(broker') /\ BrokerGrows(broker, broker')
<1> DEFINE x == IF broker[o].status = "WORKING" THEN "PENDING_CANCEL" ELSE broker[o].status
<1>1. /\ broker' = [broker EXCEPT ![o].status = x]
      /\ broker[o] \in Roll
  BY DEF AskToCancel, BrokerType
<1>2. /\ x \in RawTerminal \cup RawLive \cup {NoState}
      /\ x # broker[o].status => broker[o].status = "WORKING" /\ x = "PENDING_CANCEL"
  BY <1>1 DEF Roll, RawLive
<1> HIDE DEF x
<1>3. broker' \in BrokerType
  BY <1>1, <1>2 DEF BrokerType, Roll
<1>4. \A p \in Orders :
        /\ broker'[p].close = broker[p].close /\ broker'[p].open = broker[p].open
        /\ broker'[p].ref = broker[p].ref /\ broker'[p].listed = broker[p].listed
        /\ broker'[p].status = IF p = o THEN x ELSE broker[p].status
  BY <1>1 DEF BrokerType, Roll
<1>5. BrokerOK(broker')
  BY <1>2, <1>4, NoState # "WORKING" DEF BrokerOK, Sent, NoState
<1>6. \A p \in Orders : broker[p].close \in Nat /\ broker[p].open \in Nat
  BY RollConstants DEF BrokerType, Roll
<1>7. BrokerGrows(broker, broker')
  BY <1>2, <1>4, <1>6 DEF BrokerGrows, Sent, Live, Over, RawLive, RawTerminal, NoState
<1> QED BY <1>3, <1>5, <1>7

LEMMA CxDeletesKeep ==
  ASSUME IInv, CInv, NEW t, Threads = {t}, CxDelete(t) \/ CxDeleteFails(t)
  PROVE  IInv' /\ CInv'
<1> DEFINE o == th[t].order
           a == [th[t] EXCEPT !.pc = "cxConfirm"]
           b == [th[t] EXCEPT !.pc = "cxRead"]
<1>1. up /\ th[t].pc = "cxDelete" /\ th[t].pc \in CxLabels
  BY DEF CxDelete, CxDeleteFails, At, CxLabels
<1>2. /\ th[t] \in Local /\ o \in Orders /\ broker \in BrokerType /\ BrokerOK(broker) /\ todo = {}
      /\ faults \in Nat /\ forced \subseteq Orders /\ cleared \subseteq Orders
      /\ CancelOK(broker, store, th[t])
  BY <1>1, CxFacts, Facts DEF LocalOK
<1>3. /\ AskToCancel(o) \/ UNCHANGED broker
      /\ Step(t, a) \/ Step(t, b) \/ Step(t, IdleThread)
      /\ UNCHANGED <<store, process, history, crashes>>
  BY FaultCounts DEF CxDelete, CxDeleteFails, bounds
<1>4. faults' \in Nat
  BY <1>2, FaultCounts DEF CxDelete, CxDeleteFails, bounds
<1>5. broker' \in BrokerType /\ BrokerOK(broker') /\ BrokerGrows(broker, broker')
  BY <1>2, <1>3, AskGrows, GrowsAtOnce
<1>6. PICK l \in {a, b, IdleThread} : Step(t, l)
  BY <1>3
<1>7. l \in Local /\ LocalOK(broker, store, LetGo, l) /\ Keeps(th[t], l) /\ CountOK(broker, store, LetGo, l)
  <2>1. CASE l = IdleThread
    BY <2>1, <1>1, IdleOK DEF Keeps, Mid, Hand, FreezeLabels, BookLabels
  <2>2. CASE l = a
    BY <2>2, <1>1, <1>2, CxGoes
  <2>3. CASE l = b
    BY <2>3, <1>1, <1>2, CxGoes
  <2> QED BY <2>1, <2>2, <2>3
<1>8. forced' = forced /\ cleared' = cleared /\ LetGo' = LetGo /\ UNCHANGED <<store, process, crashes>>
  BY <1>3 DEF history, LetGo
<1> QED BY <1>1, <1>2, <1>4, <1>5, <1>6, <1>7, <1>8, BrokerMoves

-----------------------------------------------------------------------------
(* The lookup.  With a pair of legs of its own, what it finds for a ref is *)
(* the one order sent since the record was stamped.                        *)

LEMMA MatchOK ==
  ASSUME OwnPair, BrokerOK(broker), StoreOK(broker, store, LetGo), NEW r \in Refs, NEW sub,
         sub.floor = store.subs[r].floor
  PROVE  LET o == match_recent_order(r, sub)
         IN  \/ o = NoOrder /\ \A p \in Orders : Above(broker, store, p, r) => ~broker[p].listed
             \/ o \in Orders /\ o # NoOrder /\ Above(broker, store, o, r)
<1> DEFINE found == Candidates(r, sub)
           live == {o \in found : broker[o].status = "WORKING"}
           o == match_recent_order(r, sub)
<1>1. \A p : p \in found <=> p \in Orders /\ broker[p].listed /\ Above(broker, store, p, r)
  BY DEF Candidates, OwnPair, Above, Sent, BrokerOK
<1>2. \A p, q \in found : p = q
  BY <1>1 DEF StoreOK, RefOK
<1>3. o = IF found = {} THEN NoOrder ELSE Newest(IF live # {} THEN live ELSE found)
  BY DEF match_recent_order
<1> HIDE DEF found, o
<1>4. CASE found = {}
  BY <1>1, <1>3, <1>4 DEF o
<1>5. CASE found # {}
  <2>1. PICK p \in found : TRUE BY <1>5
  <2>2. p \in Orders /\ p <= p /\ p # NoOrder BY <2>1, <1>1, RollConstants DEF Orders, NoOrder
  <2>3. found = {p} BY <2>1, <1>2
  <2>4. (IF live # {} THEN live ELSE found) = {p}
    BY <2>3
  <2>5. Newest({p}) = p
    BY <2>2 DEF Newest
  <2>6. o = p
    BY <1>3, <1>5, <2>4, <2>5
  <2> QED BY <2>1, <2>2, <2>6, <1>1 DEF o
<1> QED BY <1>4, <1>5

\* What was sent for r before the record was stamped is over and looked after.
LEMMA PastOK ==
  ASSUME NEW b, NEW s, NEW f, BrokerOK(b), StoreOK(b, s, f), NEW r \in Refs,
         NEW p \in Orders, b[p].ref = r, ~Above(b, s, p, r), s \in Store
  PROVE  /\ Sent(b, p) /\ ~s.pending[p].kept
         /\ p \in f \/ Over(b, p)
<1>1. Sent(b, p) BY DEF BrokerOK
<1>2. ~(s.subs[r].floor < p) /\ s.subs[r].floor \in Nat /\ p \in Nat
  BY <1>1 DEF Above, Store, Submission, Orders
<1>3. p <= s.subs[r].floor BY <1>2
<1>4. OrderOK(b, s, f, p) BY DEF StoreOK
<1> QED BY <1>1, <1>3, <1>4 DEF OrderOK, Current

\* ... and its fills are booked.
LEMMA PastBooked ==
  ASSUME NEW b, NEW s, NEW f, NEW l, BrokerOK(b), StoreOK(b, s, f), NEW r \in Refs,
         NEW p \in Orders, b[p].ref = r, ~Above(b, s, p, r), s \in Store,
         BooksOK(b, s, f, l), p \notin f, l.pc \notin FreezeLabels
  PROVE  EndedWell(b, s, p)
BY PastOK DEF BooksOK, InHand

LEMMA ClearFacts ==
  ASSUME IInv, CInv, NEW t \in Threads, th[t].pc = "clearRead"
  PROVE  /\ th[t] \in Local /\ th[t].ref \in Refs /\ SameSub(th[t].sub, store.subs[th[t].ref])
         /\ th[t].order = store.subs[th[t].ref].order
         /\ th[t].order # NoOrder => /\ store.pending[th[t].order].kept
                                     /\ Above(broker, store, th[t].order, th[t].ref)
         /\ broker \in BrokerType /\ BrokerOK(broker) /\ todo = {} /\ faults \in Nat
         /\ forced \subseteq Orders /\ cleared \subseteq Orders
         /\ store \in Store /\ StoreOK(broker, store, LetGo)
         /\ \A p \in Orders : store.pending[p].kept => Above(broker, store, p, broker[p].ref)
         /\ \A p \in Orders : store.pending[p].kept /\ broker[p].ref = th[t].ref => p = th[t].order
<1>1. th[t].pc \notin BootLabels \cup {"idle"} /\ th[t].pc \in ClearLabels
  BY DEF ClearLabels, BootLabels, KnownLabels, BookLabels, FreezeLabels
<1>2. StoreOK(broker, store, LetGo) BY Facts
<1>3. \A p \in Orders : store.pending[p].kept => Current(broker, store, p)
  BY <1>2 DEF StoreOK, OrderOK
<1>4. ClearOK(broker, store, LetGo, th[t]) BY Facts DEF LocalOK
<1> HIDE DEF LetGo
<1>5. /\ th[t].ref \in Refs /\ SameSub(th[t].sub, store.subs[th[t].ref])
      /\ th[t].order = store.subs[th[t].ref].order
      /\ th[t].order # NoOrder => /\ store.pending[th[t].order].kept
                                  /\ Above(broker, store, th[t].order, th[t].ref)
  BY <1>1, <1>4 DEF ClearOK
<1> QED BY <1>1, <1>2, <1>3, <1>5, NotBooting, Facts DEF Current

LEMMA ClearReadKeeps ==
  ASSUME OwnPair, IInv, CInv, NEW t, Threads = {t}, ClearRead(t)
  PROVE  IInv' /\ CInv'
<1> DEFINE u == th[t]
           o == IF u.order # NoOrder THEN u.order ELSE match_recent_order(u.ref, u.sub)
           a == [u EXCEPT !.pc = "clearSub"]
           c == [[u EXCEPT !.pc = "clearPop"] EXCEPT !.order = o]
           good == /\ broker[o].status \in RawTerminal \ {"FILLED"}
                   /\ broker[o].close + broker[o].open = 0
<1>1. /\ u.pc = "clearRead" /\ up
      /\ Step(t, IF o = NoOrder THEN a ELSE IF good THEN c ELSE IdleThread)
      /\ cleared' = IF o = NoOrder THEN cleared \cup SentFor(u.ref) ELSE cleared
      /\ UNCHANGED <<broker, store, process, crashes>> /\ forced' = forced /\ faults' = faults
  BY DEF ClearRead, At, bounds
<1>2. /\ u \in Local /\ u.ref \in Refs /\ SameSub(u.sub, store.subs[u.ref])
      /\ u.order = store.subs[u.ref].order
      /\ u.order # NoOrder => Above(broker, store, u.order, u.ref)
      /\ broker \in BrokerType /\ BrokerOK(broker) /\ todo = {} /\ faults \in Nat
      /\ forced \subseteq Orders /\ cleared \subseteq Orders
      /\ store \in Store /\ StoreOK(broker, store, LetGo)
      /\ \A p \in Orders : store.pending[p].kept => Above(broker, store, p, broker[p].ref)
      /\ \A p \in Orders : store.pending[p].kept /\ broker[p].ref = u.ref => p = u.order
  BY <1>1, ClearFacts
<1> HIDE DEF u
<1>3. o = NoOrder \/ (o \in Orders /\ o # NoOrder /\ Above(broker, store, o, u.ref))
  <2>1. CASE u.order # NoOrder
    BY <2>1, <1>2 DEF Above, Sent
  <2>2. CASE u.order = NoOrder
    <3>1. u.sub.floor = store.subs[u.ref].floor BY <1>2 DEF SameSub
    <3> QED BY <2>2, <3>1, <1>2, MatchOK
  <2> QED BY <2>1, <2>2
<1> HIDE DEF o
<1>4. Keeps(u, a) /\ Keeps(u, c) /\ Keeps(u, IdleThread)
  BY <1>1 DEF Keeps, Mid, Hand, FreezeLabels, BookLabels
<1>5. BrokerGrows(broker, broker') /\ broker' = broker /\ UNCHANGED <<store, process, crashes>>
  BY <1>1, <1>2, GrowsAtOnce
<1>6. forced \subseteq forced' /\ cleared \subseteq cleared' /\ forced' \subseteq Orders
      /\ cleared' \subseteq Orders
  BY <1>1, <1>2 DEF SentFor
<1>7. CASE o = NoOrder
  <2>1. a \in Local /\ a.pc = "clearSub" /\ a.ref = u.ref /\ a.order = u.order
    BY <1>2 DEF Local, Labels
  <2>2. \A p \in Orders : broker[p].ref = u.ref => p \in LetGo'
    BY <1>1, <1>7 DEF LetGo, SentFor
  <2>3. u.order = NoOrder
    BY <1>7 DEF o
  <2>a. \A p \in Orders : broker[p].ref = u.ref => ~store.pending[p].kept
    BY <1>2, <2>3, RollConstants DEF Orders, NoOrder
  <2>4. Step(t, a) BY <1>1, <1>7
  <2> HIDE DEF a, LetGo
  <2>5. ClearOK(broker, store, LetGo', a)
    BY <1>2, <2>1, <2>2, <2>3, <2>a DEF ClearOK
  <2>6. LocalOK(broker, store, LetGo', a)
    BY <2>1, <2>5, ByLabel DEF ClearLabels
  <2>7. CountOK(broker, store, LetGo', a)
    BY <2>1, <2>2 DEF CountOK
  <2> QED BY <1>1, <1>2, <1>4, <1>5, <1>6, <2>1, <2>4, <2>6, <2>7, BrokerMoves DEF u
<1>8. CASE o # NoOrder /\ good
  <2>1. c \in Local /\ c.pc = "clearPop" /\ c.ref = u.ref /\ c.order = o
    BY <1>2, <1>3, <1>8 DEF Local, Labels
  <2>2. LetGo' = LetGo /\ Step(t, c)
    BY <1>1, <1>8 DEF LetGo
  <2>3. Over(broker, o) /\ broker[o].close = 0 /\ broker[o].open = 0
    BY <1>2, <1>3, <1>8, RollConstants DEF Over, BrokerType, Roll
  <2>4. \A p \in Orders : Above(broker, store, p, u.ref) => p = o
    BY <1>2, <1>3, <1>8 DEF StoreOK, RefOK
  <2> HIDE DEF c, LetGo
  <2>5. ClearOK(broker, store, LetGo, c)
    <3>1. ASSUME NEW p \in Orders, broker[p].ref = c.ref
          PROVE  /\ p \in LetGo \/ Over(broker, p)
                 /\ store.pending[p].kept => p = o
      <4>1. CASE Above(broker, store, p, u.ref) BY <4>1, <2>3, <2>4
      <4>2. CASE ~Above(broker, store, p, u.ref) BY <4>2, <3>1, <1>2, <2>1, PastOK
      <4> QED BY <4>1, <4>2
    <3> QED BY <3>1, <1>2, <1>3, <1>8, <2>1 DEF ClearOK
  <2>6. LocalOK(broker, store, LetGo, c)
    BY <2>1, <2>5, ByLabel DEF ClearLabels
  <2>7. ASSUME crashes = 0 PROVE CountOK(broker, store, LetGo, c)
    <3>0. BooksOK(broker, store, LetGo, u) BY <2>7, Facts DEF u
    <3>1. ASSUME NEW p \in Orders, broker[p].ref = c.ref, p \notin LetGo
          PROVE  \/ EndedWell(broker, store, p)
                 \/ /\ p = o
                    /\ broker[p].close = 0 /\ broker[p].open = 0 /\ Booked(store, p, 0)
      <4>1. CASE Above(broker, store, p, u.ref)
        BY <4>1, <3>0, <2>3, <2>4, <1>2 DEF BooksOK, Booked, Store
      <4>2. CASE ~Above(broker, store, p, u.ref)
        <5>1. u.pc \notin FreezeLabels BY <1>1 DEF FreezeLabels
        <5> QED BY <4>2, <5>1, <3>1, <3>0, <1>2, <2>1, PastBooked
      <4> QED BY <4>1, <4>2
    <3> QED BY <3>1, <2>1 DEF CountOK
  <2> QED BY <1>1, <1>2, <1>4, <1>5, <1>6, <2>1, <2>2, <2>6, <2>7, BrokerMoves DEF u
<1>9. CASE o # NoOrder /\ ~good
  <2>1. LetGo' = LetGo /\ Step(t, IdleThread)
    BY <1>1, <1>9 DEF LetGo
  <2>2. /\ IdleThread \in Local /\ LocalOK(broker, store, LetGo', IdleThread)
        /\ CountOK(broker, store, LetGo', IdleThread)
    BY IdleOK
  <2> QED BY <1>1, <1>2, <1>4, <1>5, <1>6, <2>1, <2>2, BrokerMoves DEF u
<1> QED BY <1>7, <1>8, <1>9

LEMMA ClearUnverifiedKeeps ==
  ASSUME IInv, CInv, NEW t, Threads = {t}, ClearUnverified(t)
  PROVE  IInv' /\ CInv'
<1> DEFINE u == th[t]
           p == IF u.order = NoOrder THEN "clearSub" ELSE "clearPop"
           l == [u EXCEPT !.pc = p]
<1>1. /\ u.pc = "clearRead" /\ up /\ Step(t, l)
      /\ forced' = forced \cup SentFor(u.ref) /\ cleared' = cleared
      /\ UNCHANGED <<broker, store, process, crashes>> /\ faults' \in Nat
  BY FaultCounts DEF ClearUnverified, At
<1>2. /\ u \in Local /\ u.ref \in Refs
      /\ u.order # NoOrder => Above(broker, store, u.order, u.ref)
      /\ broker \in BrokerType /\ BrokerOK(broker) /\ todo = {}
      /\ forced \subseteq Orders /\ cleared \subseteq Orders
      /\ \A q \in Orders : store.pending[q].kept /\ broker[q].ref = u.ref => q = u.order
  BY <1>1, ClearFacts
<1>3. l \in Local /\ l.pc = p /\ l.ref = u.ref /\ l.order = u.order
  BY <1>2 DEF Local, Labels
<1>4. \A q \in Orders : broker[q].ref = u.ref => q \in LetGo'
  BY <1>1 DEF LetGo, SentFor
<1>5. Keeps(u, l)
  BY <1>1 DEF Keeps, Mid, Hand, FreezeLabels, BookLabels
<1>6. forced \subseteq forced' /\ cleared \subseteq cleared' /\ forced' \subseteq Orders
      /\ cleared' \subseteq Orders
  BY <1>1, <1>2 DEF SentFor
<1>7. BrokerGrows(broker, broker') /\ broker' = broker /\ UNCHANGED <<store, process, crashes>>
  BY <1>1, <1>2, GrowsAtOnce
<1>8. l.pc \in {"clearSub", "clearPop"} /\ (l.pc = "clearSub" <=> u.order = NoOrder)
  BY <1>3
<1> HIDE DEF l, LetGo, u, p
<1>9. ClearOK(broker, store, LetGo', l)
  <2>1. \A q \in Orders : store.pending[q].kept /\ broker[q].ref = u.ref => u.order # NoOrder
    BY <1>2, RollConstants DEF Orders, NoOrder
  <2> QED BY <1>2, <1>3, <1>4, <1>8, <2>1 DEF ClearOK
<1>10. LocalOK(broker, store, LetGo', l)
  BY <1>8, <1>9, ByLabel DEF ClearLabels
<1>11. CountOK(broker, store, LetGo', l)
  BY <1>3, <1>4, <1>8 DEF CountOK
<1> QED BY <1>1, <1>2, <1>3, <1>5, <1>6, <1>7, <1>10, <1>11, BrokerMoves DEF u

-----------------------------------------------------------------------------
(* The reads of a placement and of a check. *)

LEMMA ReadSubKeeps ==
  ASSUME IInv, CInv, NEW t, Threads = {t}, ReadSub(t)
  PROVE  IInv' /\ CInv'
<1> DEFINE u == th[t]
           fresh == Sub(t).status \in {NoState, "NOT_PLACED"}
           p == IF fresh THEN "saveSub" ELSE "idle"
           l == [u EXCEPT !.pc = p]
<1>1. /\ u.pc = "readSub" /\ up /\ Step(t, l) /\ faults' = faults
      /\ UNCHANGED <<broker, store, process, history, crashes>>
  BY DEF ReadSub, Reads, bounds, At
<1>2. u \in Local /\ PlaceOK(broker, store, u) /\ faults \in Nat
  BY Facts DEF LocalOK
<1>3. todo = {}
  BY <1>1, NotBooting DEF BootLabels, KnownLabels, BookLabels, FreezeLabels
<1>4. l \in Local /\ l.pc = p /\ l.ref = u.ref
  BY <1>2 DEF Local, Labels
<1>5. Keeps(u, l)
  BY <1>1 DEF Keeps, Mid, Hand, FreezeLabels, BookLabels
<1>6. p = "saveSub" => store.subs[u.ref].status \in {NoState, "NOT_PLACED"}
  BY DEF Sub
<1>7. p \in {"saveSub", "idle"} OBVIOUS
<1> HIDE DEF l, p
<1>8. l.pc = "idle" \/ (l.pc \in PlaceLabels /\ PlaceOK(broker, store, l))
  BY <1>1, <1>2, <1>4, <1>6, <1>7 DEF PlaceOK, PlaceLabels
<1>9. LocalOK(broker, store, LetGo, l) /\ l.pc \notin Counted
  BY <1>4, <1>7, <1>8, ByLabel DEF Counted
<1>10. faults' \in Nat /\ todo = {} /\ up
  BY <1>1, <1>2, <1>3
<1> QED BY <1>1, <1>4, <1>5, <1>9, <1>10, Uncounted, LocalMoves

LEMMA SendRejectedKeeps ==
  ASSUME IInv, CInv, NEW t, Threads = {t}, SendRejected(t)
  PROVE  IInv' /\ CInv'
<1> DEFINE u == th[t]
           l == [u EXCEPT !.pc = "ackRejected"]
<1>1. /\ u.pc = "send" /\ up /\ Step(t, l) /\ faults' = faults
      /\ UNCHANGED <<broker, store, process, history, crashes>>
  BY DEF SendRejected, Reads, bounds, At
<1>2. u \in Local /\ PlaceOK(broker, store, u) /\ faults \in Nat
  BY Facts DEF LocalOK
<1>3. todo = {}
  BY <1>1, NotBooting DEF BootLabels, KnownLabels, BookLabels, FreezeLabels
<1>4. l \in Local /\ l.pc = "ackRejected" /\ l.ref = u.ref
  BY <1>2 DEF Local, Labels
<1>5. Keeps(u, l)
  BY <1>1 DEF Keeps, Mid, Hand, FreezeLabels, BookLabels
<1> HIDE DEF l
<1>6. PlaceOK(broker, store, l)
  BY <1>1, <1>2, <1>4 DEF PlaceOK, PlaceLabels
<1>7. LocalOK(broker, store, LetGo, l) /\ l.pc \notin Counted
  BY <1>4, <1>6, ByLabel DEF PlaceLabels, Counted
<1>8. faults' \in Nat BY <1>1, <1>2
<1> QED BY <1>1, <1>3, <1>4, <1>5, <1>7, <1>8, Uncounted, LocalMoves

LEMMA CheckFacts ==
  ASSUME IInv, CInv, NEW t \in Threads, th[t].pc \in CheckLabels
  PROVE  /\ th[t] \in Local /\ th[t].ref \in Refs /\ CheckOK(broker, store, th[t])
         /\ todo = {} /\ faults \in Nat
         /\ broker \in BrokerType /\ BrokerOK(broker)
         /\ store \in Store /\ StoreOK(broker, store, LetGo)
<1>1. th[t].pc \notin BootLabels \cup {"idle"}
  BY DEF CheckLabels, BootLabels, KnownLabels, BookLabels, FreezeLabels
<1> QED BY <1>1, NotBooting, Facts DEF LocalOK, CheckOK

LEMMA LookupKeeps ==
  ASSUME OwnPair, IInv, CInv, NEW t, Threads = {t}, Lookup(t)
  PROVE  IInv' /\ CInv'
<1> DEFINE u == th[t]
           o == match_recent_order(u.ref, u.sub)
           a == [[u EXCEPT !.pc = "adopt"] EXCEPT !.order = o]
           n == [u EXCEPT !.pc = "notPlaced"]
           old == u.sub.aged \/ Sub(t).aged
<1>1. /\ u.pc = "lookup" /\ up /\ faults' = faults
      /\ Step(t, IF o # NoOrder THEN a ELSE IF old THEN n ELSE IdleThread)
      /\ UNCHANGED <<broker, store, process, history, crashes>>
  BY DEF Lookup, Reads, bounds, At
<1>2. /\ u \in Local /\ u.ref \in Refs /\ todo = {} /\ faults \in Nat
      /\ NoId(store, u.ref, "UNKNOWN") /\ SameSub(u.sub, store.subs[u.ref])
      /\ BrokerOK(broker) /\ StoreOK(broker, store, LetGo)
  BY <1>1, CheckFacts DEF CheckLabels, CheckOK
<1>a. crashes = 0 => BooksOK(broker, store, LetGo, u)
  BY Facts
<1>b. old => store.subs[u.ref].aged
  BY <1>2 DEF SameSub, Sub
<1> HIDE DEF u, old
<1>3. \/ o = NoOrder /\ \A p \in Orders : Above(broker, store, p, u.ref) => ~broker[p].listed
      \/ o \in Orders /\ o # NoOrder /\ Above(broker, store, o, u.ref)
  BY <1>2, MatchOK DEF SameSub
<1> HIDE DEF o
<1>4. u.pc \notin Mid \cup Hand \cup FreezeLabels \cup {"ackUnknown"}
  BY <1>1 DEF Mid, Hand, FreezeLabels, BookLabels
<1>5. Keeps(u, a) /\ Keeps(u, n)
  BY <1>4 DEF Keeps
<1>6. faults' \in Nat
  BY <1>1, <1>2
<1>7. CASE o # NoOrder
  <2>1. a \in Local /\ a.pc = "adopt" /\ a.ref = u.ref /\ a.order = o
    BY <1>2, <1>3, <1>7 DEF Local, Labels
  <2>2. Step(t, a) BY <1>1, <1>7
  <2> HIDE DEF a
  <2>3. CheckOK(broker, store, a)
    BY <1>2, <1>3, <1>7, <2>1 DEF CheckOK
  <2>4. LocalOK(broker, store, LetGo, a)
    BY <2>1, <2>3, ByLabel DEF CheckLabels
  <2>5. crashes = 0 => Booked(store, o, 0)
    <3>1. Above(broker, store, o, u.ref) /\ o \in Orders /\ broker[o].ref = u.ref
      BY <1>3, <1>7 DEF Above, Sent
    <3> QED BY <3>1, <1>2, <1>a DEF BooksOK, NoId
  <2>6. crashes = 0 => CountOK(broker, store, LetGo, a)
    BY <2>1, <2>5 DEF CountOK
  <2> QED BY <1>1, <1>2, <1>5, <1>6, <2>1, <2>2, <2>4, <2>6, LocalMoves DEF u
<1>8. CASE o = NoOrder /\ old
  <2>1. n \in Local /\ n.pc = "notPlaced" /\ n.ref = u.ref
    BY <1>2 DEF Local, Labels
  <2>2. Step(t, n) BY <1>1, <1>8
  <2> HIDE DEF n
  <2>3. NoneAbove(broker, store, u.ref)
    <3>1. RefOK(broker, store, u.ref) BY <1>2 DEF StoreOK
    <3>2. \A p \in Orders : broker[p].ref = u.ref => broker[p].listed
      BY <3>1, <1>8, <1>b DEF RefOK
    <3> QED BY <3>2, <1>3, <1>8 DEF NoneAbove, Above
  <2>4. CheckOK(broker, store, n)
    BY <1>2, <2>1, <2>3 DEF CheckOK
  <2>5. LocalOK(broker, store, LetGo, n) /\ n.pc \notin Counted
    BY <2>1, <2>4, ByLabel DEF CheckLabels, Counted
  <2> QED BY <1>1, <1>2, <1>5, <1>6, <2>1, <2>2, <2>5, Uncounted, LocalMoves DEF u
<1>9. CASE o = NoOrder /\ ~old
  <2>1. Step(t, IdleThread) BY <1>1, <1>9
  <2> QED BY <1>1, <1>4, <1>6, <2>1, GivesUp DEF u
<1> QED BY <1>7, <1>8, <1>9

LEMMA LookupFailsKeeps ==
  ASSUME IInv, CInv, NEW t, Threads = {t}, LookupFails(t)
  PROVE  IInv' /\ CInv'
<1>1. faults' \in Nat /\ crashes' = crashes BY FaultCounts DEF LookupFails
<1> QED BY <1>1, GivesUp DEF LookupFails, At, Mid, Hand, FreezeLabels, BookLabels

LEMMA AdoptGetKeeps ==
  ASSUME IInv, CInv, NEW t, Threads = {t}, AdoptGet(t)
  PROVE  IInv' /\ CInv'
<1> DEFINE u == th[t]
           p == IF store.pending[u.order].kept THEN "osGet" ELSE "adoptSave"
           l == [u EXCEPT !.ret = "syncSub", !.pc = p]
<1>1. /\ u.pc = "adoptGet" /\ up /\ faults' = faults /\ Step(t, l)
      /\ UNCHANGED <<broker, store, process, history, crashes>>
  BY DEF AdoptGet, Reads, bounds, At
<1>2. /\ u \in Local /\ u.ref \in Refs /\ todo = {} /\ faults \in Nat
      /\ Names(broker, store, u.ref, u.order)
  BY <1>1, CheckFacts DEF CheckLabels, CheckOK
<1>3. crashes = 0 => Booked(store, u.order, 0)
  BY <1>1, Facts DEF CountOK
<1>4. p = "adoptSave"
  BY <1>2 DEF Names
<1> HIDE DEF u, p
<1>5. l \in Local /\ l.pc = "adoptSave" /\ l.ref = u.ref /\ l.order = u.order
  BY <1>2, <1>4 DEF Local, Labels
<1> HIDE DEF l
<1>6. CheckOK(broker, store, l)
  BY <1>2, <1>5 DEF CheckOK
<1>7. LocalOK(broker, store, LetGo, l)
  BY <1>5, <1>6, ByLabel DEF CheckLabels
<1>8. crashes = 0 => CountOK(broker, store, LetGo, l)
  BY <1>3, <1>5 DEF CountOK
<1>9. Keeps(u, l)
  BY <1>1, <1>5 DEF Keeps, Mid, Hand, FreezeLabels, BookLabels
<1>10. faults' \in Nat BY <1>1, <1>2
<1> QED BY <1>1, <1>2, <1>5, <1>7, <1>8, <1>9, <1>10, LocalMoves DEF u

-----------------------------------------------------------------------------
(* update_order_submission.                                                *)

\* v is s with the record of r merged to status st and order x.
Merged(s, v, r, st, x) ==
  /\ v.pending = s.pending /\ v.closed = s.closed /\ v.opened = s.opened
  /\ v.moved = s.moved /\ v.review = s.review
  /\ \A q \in Refs \ {r} : v.subs[q] = s.subs[q]
  /\ v.subs[r].status = st /\ v.subs[r].order = x
  /\ v.subs[r].floor = s.subs[r].floor /\ v.subs[r].aged = s.subs[r].aged

LEMMA MergeWrites ==
  ASSUME store \in Store, NEW r \in Refs, NEW st \in SubStates, NEW o \in Orders \cup {NoOrder}
  PROVE  LET v == MergeSub(r, st, o)
         IN  /\ v \in Store
             /\ Merged(store, v, r, st, IF o = NoOrder THEN store.subs[r].order ELSE o)
<1> DEFINE x == IF o = NoOrder THEN store.subs[r].order ELSE o
           rec == store.subs[r]
           new == [[rec EXCEPT !.status = st] EXCEPT !.order = x]
           v == [store EXCEPT !.subs = [store.subs EXCEPT ![r] = new]]
<1>1. rec \in Submission /\ x \in Orders \cup {NoOrder}
  BY DEF Store, Submission
<1>2. MergeSub(r, st, o) = v
  <2>1. DEFINE one == [store EXCEPT !.subs[r].status = st]
  <2>2. one.subs[r].order = rec.order
    BY DEF Store, Submission
  <2> QED BY <2>2 DEF MergeSub, Store, Submission
<1> HIDE DEF x
<1>3. new \in Submission /\ new.status = st /\ new.order = x /\ new.floor = rec.floor /\ new.aged = rec.aged
  <2> HIDE DEF rec
  <2> QED BY <1>1 DEF Submission
<1> HIDE DEF new
<1>4. v \in Store /\ v.subs[r] = new /\ \A q \in Refs \ {r} : v.subs[q] = store.subs[q]
  BY <1>3 DEF Store
<1>5. /\ v.pending = store.pending /\ v.closed = store.closed /\ v.opened = store.opened
      /\ v.moved = store.moved /\ v.review = store.review
  BY DEF Store
<1> HIDE DEF v
<1> QED BY <1>2, <1>3, <1>4, <1>5 DEF Merged, x

\* When such a write is sound.
MergeFits(b, s, f, r, st, x) ==
  /\ st \in SubStates \ {"SUBMITTING"}
  /\ x # NoOrder => Above(b, s, x, r)
  /\ x = NoOrder => s.subs[r].order = NoOrder
  /\ \A p \in Orders : b[p].ref = r =>
       /\ s.pending[p].kept => x = p /\ st = "WORKING"
       /\ Live(b, p) /\ p \notin f => \/ x = p /\ st \in {"WORKING", "UNKNOWN"}
                                      \/ x = NoOrder /\ st = "UNKNOWN"

LEMMA MergeStore ==
  ASSUME NEW b, NEW s \in Store, NEW v, NEW f, NEW r \in Refs, NEW st, NEW x,
         BrokerOK(b), StoreOK(b, s, f), Merged(s, v, r, st, x), MergeFits(b, s, f, r, st, x)
  PROVE  /\ StoreOK(b, v, f)
         /\ \A o, q : q \in Refs => (Above(b, s, o, q) <=> Above(b, v, o, q))
<1>1. \A q \in Refs : v.subs[q].floor = s.subs[q].floor /\ v.subs[q].aged = s.subs[q].aged
  BY DEF Merged
<1>2. \A o, q : q \in Refs => (Above(b, s, o, q) <=> Above(b, v, o, q))
  BY <1>1 DEF Above
<1>3. ASSUME NEW q \in Refs PROVE RefOK(b, v, q)
  <2>1. RefOK(b, s, q) BY DEF StoreOK
  <2>2. CASE q # r
    <3>1. v.subs[q] = s.subs[q] BY <2>2 DEF Merged
    <3> QED BY <3>1, <2>1, <1>2 DEF RefOK
  <2>3. CASE q = r
    <3>1. st # "SUBMITTING" /\ st # NoState
      BY DEF MergeFits, SubStates, Resolved, NoState
    <3> QED BY <3>1, <2>1, <2>3, <1>1, <1>2 DEF RefOK, Merged, MergeFits
  <2> QED BY <2>2, <2>3
<1>4. ASSUME NEW o \in Orders PROVE OrderOK(b, v, f, o)
  <2>1. OrderOK(b, s, f, o) /\ v.pending = s.pending BY DEF StoreOK, Merged
  <2>2. CASE b[o].ref \in Refs /\ b[o].ref # r
    <3>1. v.subs[b[o].ref] = s.subs[b[o].ref] BY <2>2 DEF Merged
    <3> QED BY <3>1, <2>1, <2>2, <1>2 DEF OrderOK, Current
  <2>3. CASE b[o].ref = r
    <3>1. s.pending[o].kept => s.pending[o].ref = b[o].ref /\ Current(b, v, o)
      BY <2>1, <2>3, <1>2 DEF OrderOK, Current, MergeFits, Merged
    <3>2. Sent(b, o) /\ o <= v.subs[r].floor => o \in f \/ Over(b, o)
      BY <2>1, <2>3, <1>1 DEF OrderOK
    <3>3. Live(b, o) /\ o \notin f =>
       \/ v.subs[r].order = o /\ v.subs[r].status \in {"WORKING", "UNKNOWN"}
       \/ v.subs[r].order = NoOrder /\ v.subs[r].status = "UNKNOWN"
      BY <2>3 DEF MergeFits, Merged
    <3> QED BY <2>1, <2>3, <3>1, <3>2, <3>3 DEF OrderOK
  <2>4. CASE b[o].ref \notin Refs
    <3>1. ~Sent(b, o) BY <2>4 DEF BrokerOK
    <3>2. ~s.pending[o].kept BY <3>1, <2>1 DEF OrderOK, Current, Above
    <3> QED BY <3>1, <3>2, <2>1 DEF OrderOK
  <2> QED BY <2>2, <2>3, <2>4
<1> QED BY <1>2, <1>3, <1>4 DEF StoreOK

HandFits(b, s, f, r, st, x, l, m) ==
  /\ l.pc \notin Mid \cup FreezeLabels
  /\ l.pc \in Hand => b[l.order].ref = r
  /\ l.pc = "ackUnknown" => l.ref = r
  /\ \A p \in Orders : Above(b, s, p, r) /\ ~s.pending[p].kept /\ p \notin f =>
       \/ EndedWell(b, s, p)
       \/ st = "UNKNOWN" /\ x = NoOrder
       \/ m.pc \in Hand /\ m.order = p

LEMMA MergeBooks ==
  ASSUME NEW b, NEW s \in Store, NEW v, NEW f, NEW r \in Refs, NEW st, NEW x, NEW l, NEW m,
         BrokerOK(b), StoreOK(b, s, f), Merged(s, v, r, st, x), MergeFits(b, s, f, r, st, x),
         HandFits(b, s, f, r, st, x, l, m), BooksOK(b, s, f, l)
  PROVE  BooksOK(b, v, f, m)
<1>1. \A o, q : q \in Refs => (Above(b, s, o, q) <=> Above(b, v, o, q))
  BY MergeStore
<1>2. ASSUME NEW o \in Orders
      PROVE  /\ Above(b, v, o, b[o].ref) /\ v.subs[b[o].ref].order = NoOrder => Booked(v, o, 0)
             /\ Sent(b, o) /\ ~v.pending[o].kept /\ o \notin f => EndedWell(b, v, o) \/ InHand(b, v, m, o)
  <2>1. /\ Above(b, s, o, b[o].ref) /\ s.subs[b[o].ref].order = NoOrder => Booked(s, o, 0)
        /\ Sent(b, o) /\ ~s.pending[o].kept /\ o \notin f => EndedWell(b, s, o) \/ InHand(b, s, l, o)
    BY DEF BooksOK
  <2>2. /\ Booked(s, o, 0) => Booked(v, o, 0)
        /\ EndedWell(b, s, o) => EndedWell(b, v, o)
        /\ v.pending = s.pending
    BY DEF Merged, Booked, EndedWell
  <2>3. CASE b[o].ref \in Refs /\ b[o].ref # r
    <3>1. v.subs[b[o].ref] = s.subs[b[o].ref] BY <2>3 DEF Merged
    <3>2. InHand(b, s, l, o) => InHand(b, v, m, o)
      BY <3>1, <2>3, <1>1 DEF InHand, HandFits, Hand
    <3> QED BY <2>1, <2>2, <2>3, <3>1, <3>2, <1>1
  <2>4. CASE b[o].ref = r
    <3>1. v.subs[r].order = x /\ v.subs[r].status = st BY DEF Merged
    <3>2. x = NoOrder => s.subs[r].order = NoOrder BY DEF MergeFits
    <3>3. CASE Above(b, s, o, r)
      <4>1. /\ st = "UNKNOWN" /\ x = NoOrder => InHand(b, v, m, o)
            /\ m.pc \in Hand /\ m.order = o => InHand(b, v, m, o)
        BY <3>1, <3>3, <2>4, <1>1 DEF InHand, Hand
      <4> QED BY <4>1, <3>1, <3>2, <3>3, <2>1, <2>2, <2>4, <1>1 DEF HandFits
    <3>4. CASE ~Above(b, s, o, r)
      <4>1. ~InHand(b, s, l, o) BY <3>4, <2>4 DEF InHand, HandFits
      <4> QED BY <4>1, <3>4, <2>1, <2>2, <2>4, <1>1
    <3> QED BY <3>3, <3>4
  <2>5. CASE b[o].ref \notin Refs
    <3>1. ~Sent(b, o) BY <2>5 DEF BrokerOK
    <3> QED BY <3>1 DEF Above
  <2> QED BY <2>3, <2>4, <2>5
<1>3. ASSUME NEW o \in Orders
      PROVE  /\ v.closed[o] <= b[o].close /\ v.closed[o] <= b[o].open
             /\ v.opened[o] <= b[o].close /\ v.opened[o] <= b[o].open
             /\ v.moved[o] > 0 => b[o].close > 0 /\ b[o].open > 0
             /\ v.pending[o].kept => Booked(v, o, v.pending[o].filled)
  BY DEF BooksOK, Merged, Booked, HandFits, Mid
<1> QED BY <1>2, <1>3 DEF BooksOK

LEMMA MergeMoves ==
  ASSUME IInv, CInv, NEW t, Threads = {t}, up, NEW m \in Local,
         NEW r \in Refs, NEW st, NEW o \in Orders \cup {NoOrder}, NEW x,
         Writes(t, m, MergeSub(r, st, o)),
         x = IF o = NoOrder THEN store.subs[r].order ELSE o,
         MergeFits(broker, store, LetGo, r, st, x),
         Merged(store, store', r, st, x) => LocalOK(broker, store', LetGo, m),
         Merged(store, store', r, st, x) /\ crashes = 0 => CountOK(broker, store', LetGo, m),
         crashes = 0 => HandFits(broker, store, LetGo, r, st, x, th[t], m),
         todo = {} \/ (m.pc # "idle" => m.pc \in BootLabels /\ m.ret = "idle" /\ m.order \notin todo)
  PROVE  IInv' /\ CInv'
<1>1. /\ store \in Store /\ StoreOK(broker, store, LetGo) /\ BrokerOK(broker) /\ faults \in Nat
      /\ crashes = 0 => BooksOK(broker, store, LetGo, th[t])
      /\ \A p \in todo : store.pending[p].kept
  BY Facts DEF SweepOK
<1> HIDE DEF LetGo
<1>2. st \in SubStates
  BY DEF MergeFits
<1>3. /\ Step(t, m) /\ UNCHANGED <<broker, process, history, crashes>> /\ faults' = faults
      /\ store' = MergeSub(r, st, o)
  BY DEF Writes, bounds
<1>4. store' \in Store /\ Merged(store, store', r, st, x)
  BY <1>1, <1>2, <1>3, MergeWrites
<1>5. StoreOK(broker, store', LetGo)
  BY <1>1, <1>4, MergeStore
<1>6. crashes = 0 => BooksOK(broker, store', LetGo, m)
  BY <1>1, <1>4, MergeBooks
<1>7. \A p \in todo : store'.pending[p].kept
  BY <1>1, <1>4 DEF Merged
<1> QED BY <1>1, <1>3, <1>4, <1>5, <1>6, <1>7, StoreMoves

LEMMA FitsAbove ==
  ASSUME NEW b, NEW s \in Store, NEW f, BrokerOK(b), StoreOK(b, s, f), NEW r \in Refs,
         NEW st \in SubStates \ {"SUBMITTING"}, NEW x,
         x # NoOrder => Above(b, s, x, r),
         x = NoOrder => s.subs[r].order = NoOrder,
         \A p \in Orders : Above(b, s, p, r) =>
           /\ s.pending[p].kept => x = p /\ st = "WORKING"
           /\ Live(b, p) /\ p \notin f => \/ x = p /\ st \in {"WORKING", "UNKNOWN"}
                                          \/ x = NoOrder /\ st = "UNKNOWN"
  PROVE  MergeFits(b, s, f, r, st, x)
<1>1. ASSUME NEW p \in Orders, b[p].ref = r, ~Above(b, s, p, r)
      PROVE  ~s.pending[p].kept /\ ~(Live(b, p) /\ p \notin f)
  BY <1>1, PastOK DEF Live, Over, RawLive, RawTerminal
<1> QED BY <1>1 DEF MergeFits

LEMMA NoneKept ==
  ASSUME NEW b, NEW s, NEW f, StoreOK(b, s, f), NEW r, s.subs[r].order = NoOrder,
         NEW p \in Orders, b[p].ref = r
  PROVE  ~s.pending[p].kept
<1>1. p # NoOrder BY RollConstants DEF Orders, NoOrder
<1> QED BY <1>1 DEF StoreOK, OrderOK, Current

LEMMA AboveIs ==
  ASSUME NEW b, NEW s, NEW o, NEW r, Above(b, s, o, r)
  PROVE  o \in Orders /\ o # NoOrder /\ b[o].ref = r /\ Sent(b, o)
BY RollConstants DEF Above, Sent, Orders, NoOrder

LEMMA OneAbove ==
  ASSUME NEW b, NEW s, NEW f, StoreOK(b, s, f), NEW r \in Refs, NEW o, NEW p \in Orders,
         Above(b, s, o, r), Above(b, s, p, r)
  PROVE  p = o
BY AboveIs DEF StoreOK, RefOK

\* The record learns the order's id, which the locals hold.
LEMMA IdKnown ==
  ASSUME IInv, CInv, NEW t, Threads = {t}, up, todo = {}, NEW p \in {"savePending", "adoptGet"},
         th[t].pc \in {"ackId", "adopt"}, th[t].ref \in Refs,
         store.subs[th[t].ref].order = NoOrder, Above(broker, store, th[t].order, th[t].ref),
         Writes(t, [th[t] EXCEPT !.pc = p], MergeSub(th[t].ref, "WORKING", th[t].order))
  PROVE  IInv' /\ CInv'
<1> DEFINE u == th[t]
           r == u.ref
           o == u.order
           m == [u EXCEPT !.pc = p]
<1>1. /\ store \in Store /\ StoreOK(broker, store, LetGo) /\ BrokerOK(broker) /\ u \in Local
  BY Facts
<1>2. o \in Orders /\ o # NoOrder /\ broker[o].ref = r
  BY AboveIs
<1>3. m \in Local /\ m.pc = p /\ m.order = o /\ m.ref = r
  BY <1>1 DEF Local, Labels
<1>4. MergeFits(broker, store, LetGo, r, "WORKING", o)
  <2>1. "WORKING" \in SubStates \ {"SUBMITTING"} BY DEF SubStates
  <2>2. \A q \in Orders : Above(broker, store, q, r) => q = o BY <1>1, OneAbove
  <2> HIDE DEF u, LetGo
  <2> QED BY <1>1, <1>2, <2>1, <2>2, FitsAbove DEF u
<1>5. Writes(t, m, MergeSub(r, "WORKING", o))
  OBVIOUS
<1>6. crashes = 0 => Booked(store, o, 0)
  BY Facts DEF CountOK
<1>7. ~store.pending[o].kept
  BY <1>1, <1>2, NoneKept
<1> HIDE DEF m, LetGo
<1>8. ASSUME Merged(store, store', r, "WORKING", o)
      PROVE  /\ LocalOK(broker, store', LetGo, m)
             /\ crashes = 0 => CountOK(broker, store', LetGo, m)
  <2>1. Names(broker, store', r, o)
    BY <1>7, <1>8 DEF Names, Above, Merged
  <2>2. PlaceOK(broker, store', m) /\ CheckOK(broker, store', m)
    BY <1>3, <2>1 DEF PlaceOK, CheckOK, PlaceLabels, CheckLabels
  <2>3. LocalOK(broker, store', LetGo, m)
    BY <1>3, <2>2, ByLabel DEF PlaceLabels, CheckLabels
  <2>4. crashes = 0 => CountOK(broker, store', LetGo, m)
    BY <1>3, <1>6, <1>8 DEF CountOK, Merged, Booked
  <2> QED BY <2>3, <2>4
<1>9. HandFits(broker, store, LetGo, r, "WORKING", o, u, m)
  <2>1. \A q \in Orders : Above(broker, store, q, r) => q = o BY <1>1, OneAbove
  <2> QED BY <1>2, <1>3, <2>1 DEF HandFits, Mid, Hand, FreezeLabels, BookLabels
<1> QED BY <1>2, <1>3, <1>4, <1>5, <1>8, <1>9, MergeMoves

LEMMA IdKeeps ==
  ASSUME IInv, CInv, NEW t, Threads = {t}, AckId(t) \/ Adopt(t)
  PROVE  IInv' /\ CInv'
<1>1. up /\ th[t].pc \in {"ackId", "adopt"}
  BY DEF AckId, Adopt, At
<1>2. todo = {}
  BY <1>1, NotBooting DEF BootLabels, KnownLabels, BookLabels, FreezeLabels
<1>3. th[t].ref \in Refs /\ store.subs[th[t].ref].order = NoOrder
      /\ Above(broker, store, th[t].order, th[t].ref)
  BY <1>1, Facts DEF LocalOK, PlaceOK, CheckOK, PlaceLabels, CheckLabels, NoId
<1>4. CASE AckId(t)
  BY <1>1, <1>2, <1>3, <1>4, IdKnown DEF AckId
<1>5. CASE Adopt(t)
  BY <1>1, <1>2, <1>3, <1>5, IdKnown DEF Adopt
<1> QED BY <1>4, <1>5

\* The record is closed, or left unconfirmed, and the thread is done.
LEMMA MergeEnds ==
  ASSUME IInv, CInv, NEW t, Threads = {t}, up,
         NEW r \in Refs, NEW st, NEW o \in Orders \cup {NoOrder}, NEW x,
         Writes(t, IdleThread, MergeSub(r, st, o)),
         x = IF o = NoOrder THEN store.subs[r].order ELSE o,
         MergeFits(broker, store, LetGo, r, st, x),
         crashes = 0 => HandFits(broker, store, LetGo, r, st, x, th[t], IdleThread)
  PROVE  IInv' /\ CInv'
<1>1. /\ IdleThread \in Local /\ LocalOK(broker, store', LetGo, IdleThread)
      /\ CountOK(broker, store', LetGo, IdleThread) /\ IdleThread.pc = "idle"
  BY IdleOK, IdleFields
<1> HIDE DEF LetGo
<1> QED BY <1>1, MergeMoves

LEMMA AckEndsKeep ==
  ASSUME IInv, CInv, NEW t, Threads = {t}, AckRejected(t) \/ AckUnknown(t) \/ NotPlaced(t)
  PROVE  IInv' /\ CInv'
<1> DEFINE u == th[t]
           r == u.ref
           st == IF u.pc = "ackRejected" THEN "REJECTED"
                 ELSE IF u.pc = "ackUnknown" THEN "UNKNOWN" ELSE "NOT_PLACED"
<1>1. /\ up /\ u.pc \in {"ackRejected", "ackUnknown", "notPlaced"}
      /\ Writes(t, IdleThread, MergeSub(r, st, NoOrder))
  BY DEF AckRejected, AckUnknown, NotPlaced, At
<1>2. /\ store \in Store /\ StoreOK(broker, store, LetGo) /\ BrokerOK(broker) /\ u \in Local
      /\ PlaceOK(broker, store, u) /\ CheckOK(broker, store, u)
  BY Facts DEF LocalOK
<1>3. /\ r \in Refs /\ store.subs[r].order = NoOrder
      /\ u.pc # "ackUnknown" => NoneAbove(broker, store, r)
  BY <1>1, <1>2 DEF PlaceOK, CheckOK, PlaceLabels, CheckLabels, NoId
<1>4. st \in SubStates \ {"SUBMITTING"} /\ (u.pc = "ackUnknown" => st = "UNKNOWN")
  BY <1>1 DEF SubStates, Resolved
<1> HIDE DEF u, st, LetGo
<1>5. MergeFits(broker, store, LetGo, r, st, NoOrder)
  <2>1. \A p \in Orders : Above(broker, store, p, r) => ~store.pending[p].kept /\ st = "UNKNOWN"
    BY <1>2, <1>3, <1>4, NoneKept, AboveIs DEF NoneAbove
  <2> QED BY <1>2, <1>3, <1>4, <2>1, FitsAbove
<1>6. HandFits(broker, store, LetGo, r, st, NoOrder, u, IdleThread)
  BY <1>1, <1>3, <1>4 DEF HandFits, NoneAbove, Mid, Hand, FreezeLabels, BookLabels
<1> QED BY <1>1, <1>3, <1>5, <1>6, MergeEnds DEF u

LEMMA SyncSubKeeps ==
  ASSUME IInv, CInv, NEW t, Threads = {t}, SyncSub(t)
  PROVE  IInv' /\ CInv'
<1> DEFINE u == th[t]
           r == u.ref
           o == u.order
<1>1. /\ up /\ u.pc = "syncSub" /\ Writes(t, IdleThread, MergeSub(r, u.res, NoOrder))
  BY DEF SyncSub, At
<1>2. /\ store \in Store /\ StoreOK(broker, store, LetGo) /\ BrokerOK(broker) /\ u \in Local
      /\ CheckOK(broker, store, u)
  BY Facts DEF LocalOK
<1>3. /\ r \in Refs /\ Above(broker, store, o, r) /\ store.subs[r].order = o
      /\ store.pending[o].kept => u.res = "WORKING"
      /\ u.res \in {"WORKING", "UNKNOWN"} \cup Ends
      /\ u.res \in Ends => Over(broker, o)
  BY <1>1, <1>2 DEF CheckOK, CheckLabels
<1>4. o \in Orders /\ o # NoOrder
  BY <1>3, AboveIs
<1>5. \A p \in Orders : Above(broker, store, p, r) => p = o
  BY <1>2, <1>3, OneAbove
<1>6. u.res \in SubStates \ {"SUBMITTING"} /\ (u.res \in Ends => ~Live(broker, o))
  BY <1>3 DEF SubStates, Resolved, Ends, Live, Over, RawLive, RawTerminal
<1> HIDE DEF u, LetGo
<1>7. MergeFits(broker, store, LetGo, r, u.res, o)
  BY <1>2, <1>3, <1>4, <1>5, <1>6, FitsAbove
<1>8. crashes = 0 => HandFits(broker, store, LetGo, r, u.res, o, u, IdleThread)
  <2>1. SUFFICES ASSUME crashes = 0 PROVE HandFits(broker, store, LetGo, r, u.res, o, u, IdleThread)
    OBVIOUS
  <2>2. BooksOK(broker, store, LetGo, u) BY <2>1, Facts DEF u
  <2>3. ~InHand(broker, store, u, o)
    BY <1>1, <1>3, <1>4, AboveIs DEF InHand, FreezeLabels
  <2>4. ~store.pending[o].kept /\ o \notin LetGo => EndedWell(broker, store, o)
    BY <1>3, <1>4, <2>2, <2>3, AboveIs DEF BooksOK
  <2> QED BY <1>1, <1>5, <2>4 DEF HandFits, Mid, Hand, FreezeLabels, BookLabels
<1> QED BY <1>1, <1>3, <1>4, <1>7, <1>8, MergeEnds DEF u

LEMMA ClearSubKeeps ==
  ASSUME IInv, CInv, NEW t, Threads = {t}, ClearSub(t)
  PROVE  IInv' /\ CInv'
<1> DEFINE u == th[t]
           r == u.ref
           x == IF u.order = NoOrder THEN store.subs[r].order ELSE u.order
<1>1. /\ up /\ u.pc = "clearSub" /\ Writes(t, IdleThread, MergeSub(r, "NOT_PLACED", u.order))
  BY DEF ClearSub, At
<1>2. /\ store \in Store /\ StoreOK(broker, store, LetGo) /\ BrokerOK(broker) /\ u \in Local
      /\ ClearOK(broker, store, LetGo, u)
      /\ crashes = 0 => CountOK(broker, store, LetGo, u)
  BY Facts DEF LocalOK
<1> HIDE DEF u, LetGo
<1>3. /\ r \in Refs /\ (u.order # NoOrder => Above(broker, store, u.order, r))
      /\ \A p \in Orders : broker[p].ref = r => /\ p \in LetGo \/ Over(broker, p)
                                                /\ ~store.pending[p].kept
  BY <1>1, <1>2 DEF ClearOK, ClearLabels
<1>4. u.order \in Orders \cup {NoOrder}
  BY <1>2 DEF Local
<1>5. MergeFits(broker, store, LetGo, r, "NOT_PLACED", x)
  <2>1. "NOT_PLACED" \in SubStates \ {"SUBMITTING"} BY DEF SubStates, Resolved
  <2>2. x # NoOrder => Above(broker, store, x, r)
    BY <1>2, <1>3 DEF StoreOK, RefOK
  <2> QED BY <1>3, <2>1, <2>2 DEF MergeFits, Live, Over, RawLive, RawTerminal
<1>6. crashes = 0 => HandFits(broker, store, LetGo, r, "NOT_PLACED", x, u, IdleThread)
  <2>1. ASSUME crashes = 0, NEW p \in Orders, Above(broker, store, p, r), p \notin LetGo
        PROVE  EndedWell(broker, store, p)
    BY <2>1, <1>1, <1>2, AboveIs DEF CountOK
  <2> QED BY <1>1, <2>1 DEF HandFits, Mid, Hand, FreezeLabels, BookLabels
<1> HIDE DEF x
<1>7. x = IF u.order = NoOrder THEN store.subs[r].order ELSE u.order
  BY DEF x
<1> QED BY <1>1, <1>3, <1>4, <1>5, <1>6, <1>7, MergeEnds DEF u

LEMMA SyncKeeps ==
  ASSUME IInv, CInv, NEW t, Threads = {t}, Sync(t)
  PROVE  IInv' /\ CInv'
<1> DEFINE u == th[t]
           r == u.rec.ref
           o == u.order
           m == [u EXCEPT !.pc = u.ret]
<1>1. /\ up /\ u.pc = "sync" /\ Writes(t, m, MergeSub(r, u.res, o))
  BY DEF Sync, At
<1>2. /\ store \in Store /\ StoreOK(broker, store, LetGo) /\ BrokerOK(broker) /\ u \in Local
      /\ StatusOK(broker, store, u)
  BY Facts DEF LocalOK
<1>a. todo = {} \/ u.ret = "idle"
  BY <1>1 DEF IInv, SweepOK
<1> HIDE DEF u, LetGo
<1>3. /\ o \in Orders /\ Current(broker, store, o) /\ r = broker[o].ref
      /\ \/ u.res = "WORKING" /\ store.pending[o].kept
         \/ u.res \in Ends /\ Over(broker, o) /\ ~store.pending[o].kept
      /\ u.ret = "syncSub" => u.ref \in Refs /\ broker[o].ref = u.ref
  BY <1>1, <1>2 DEF StatusOK, BootLabels
<1>4. /\ Above(broker, store, o, r) /\ store.subs[r].order = o /\ r \in Refs /\ o # NoOrder
  BY <1>2, <1>3, AboveIs DEF Current, BrokerOK
<1>5. \A p \in Orders : Above(broker, store, p, r) => p = o
  BY <1>2, <1>4, OneAbove
<1>6. u.res \in SubStates \ {"SUBMITTING"} /\ (u.res \in Ends => ~Live(broker, o))
  BY <1>3 DEF SubStates, Resolved, Ends, Live, Over, RawLive, RawTerminal
<1>b. u.ret \in {"idle", "syncSub"} BY <1>2 DEF Local
<1>7. MergeFits(broker, store, LetGo, r, u.res, o)
  BY <1>2, <1>3, <1>4, <1>5, <1>6, FitsAbove DEF Ends
<1>8. m \in Local /\ m.pc = u.ret /\ m.order = o /\ m.ref = u.ref /\ m.res = u.res /\ m.ret = u.ret
  BY <1>2, <1>b DEF Local, Labels
<1> HIDE DEF m
<1>9. ASSUME Merged(store, store', r, u.res, o) PROVE LocalOK(broker, store', LetGo, m)
  <2>1. CASE u.ret = "idle" BY <2>1, <1>8, ByLabel
  <2>2. CASE u.ret = "syncSub"
    <3>1. u.ref = r BY <2>2, <1>3
    <3>2. CheckOK(broker, store', m)
      <4>1. m.pc = "syncSub" /\ m.ref = r /\ m.order = o /\ m.res = u.res /\ r \in Refs
        BY <3>1, <2>2, <1>4, <1>8
      <4>2. Above(broker, store', o, r) /\ store'.subs[r].order = o
            /\ store'.pending = store.pending
        BY <1>4, <1>9 DEF Merged, Above
      <4>3. /\ u.res \in {"WORKING"} \cup Ends /\ (u.res \in Ends => Over(broker, o))
            /\ store.pending[o].kept => u.res = "WORKING"
        BY <1>3 DEF Ends, Resolved
      <4> QED BY <4>1, <4>2, <4>3 DEF CheckOK
    <3> QED BY <3>2, <2>2, <1>8, ByLabel DEF CheckLabels
  <2> QED BY <2>1, <2>2, <1>b
<1>10. CountOK(broker, store', LetGo, m)
  BY <1>8, <1>b, Uncounted DEF Counted
<1>11. crashes = 0 => HandFits(broker, store, LetGo, r, u.res, o, u, m)
  <2>1. SUFFICES ASSUME crashes = 0 PROVE HandFits(broker, store, LetGo, r, u.res, o, u, m)
    OBVIOUS
  <2>2. BooksOK(broker, store, LetGo, u) BY <2>1, Facts DEF u
  <2>3. ~InHand(broker, store, u, o)
    BY <1>1, <1>4, AboveIs DEF InHand, FreezeLabels
  <2>4. ~store.pending[o].kept /\ o \notin LetGo => EndedWell(broker, store, o)
    BY <1>3, <1>4, <2>2, <2>3, AboveIs DEF BooksOK
  <2> QED BY <1>1, <1>5, <2>4 DEF HandFits, Mid, Hand, FreezeLabels, BookLabels
<1>12. todo = {} \/ (m.pc # "idle" => m.pc \in BootLabels /\ m.ret = "idle" /\ m.order \notin todo)
  BY <1>a, <1>8
<1> QED BY <1>1, <1>3, <1>4, <1>7, <1>8, <1>9, <1>10, <1>11, <1>12, MergeMoves DEF u

-----------------------------------------------------------------------------
(* The pending record is dropped.                                          *)

Popped(s, v, o) ==
  /\ v.subs = s.subs /\ v.closed = s.closed /\ v.opened = s.opened
  /\ v.moved = s.moved /\ v.review = s.review
  /\ ~v.pending[o].kept
  /\ \A p \in Orders \ {o} : v.pending[p] = s.pending[p]

LEMMA PopWrites ==
  ASSUME NEW s \in Store, NEW o \in Orders
  PROVE  LET v == [s EXCEPT !.pending[o] = NotPending]
         IN  v \in Store /\ Popped(s, v, o)
<1> DEFINE new == [s.pending EXCEPT ![o] = NotPending]
           v == [s EXCEPT !.pending = new]
<1>1. NotPending \in Pending /\ ~NotPending.kept
  BY RollConstants DEF NotPending, Pending
<1>2. s.pending \in [Orders -> Pending]
  BY DEF Store
<1>3. new \in [Orders -> Pending] /\ ~new[o].kept /\ \A p \in Orders \ {o} : new[p] = s.pending[p]
  BY <1>1, <1>2
<1> HIDE DEF new
<1>4. v \in Store /\ v.pending = new /\ v.subs = s.subs /\ v.closed = s.closed
      /\ v.opened = s.opened /\ v.moved = s.moved /\ v.review = s.review
  BY <1>3 DEF Store
<1>5. [s EXCEPT !.pending[o] = NotPending] = v
  BY DEF new
<1> HIDE DEF v
<1> QED BY <1>3, <1>4, <1>5 DEF Popped

LEMMA PopStore ==
  ASSUME NEW b, NEW s, NEW v, NEW f, NEW o, Popped(s, v, o), StoreOK(b, s, f)
  PROVE  StoreOK(b, v, f) /\ \A p, r : Above(b, v, p, r) <=> Above(b, s, p, r)
<1>1. \A p, r : Above(b, v, p, r) <=> Above(b, s, p, r)
  BY DEF Above, Popped
<1>2. \A p : Current(b, v, p) <=> Current(b, s, p)
  BY <1>1 DEF Current, Popped
<1>3. ASSUME NEW r \in Refs PROVE RefOK(b, v, r)
  <2>1. RefOK(b, s, r) BY DEF StoreOK
  <2> QED BY <2>1, <1>1 DEF RefOK, Popped
<1>4. ASSUME NEW p \in Orders PROVE OrderOK(b, v, f, p)
  <2>1. OrderOK(b, s, f, p) BY DEF StoreOK
  <2>2. v.pending[p].kept => v.pending[p] = s.pending[p] BY DEF Popped
  <2> QED BY <2>1, <2>2, <1>2 DEF OrderOK, Popped
<1> QED BY <1>1, <1>3, <1>4 DEF StoreOK

PopFits(b, s, f, o, l, m) ==
  /\ l.pc \notin FreezeLabels \cup Hand \cup {"ackUnknown"}
  /\ l.pc \in Mid => l.order = o
  /\ Sent(b, o) /\ o \notin f => EndedWell(b, s, o) \/ (m.pc \in FreezeLabels /\ m.order = o)

LEMMA PopBooks ==
  ASSUME NEW b, NEW s, NEW v, NEW f, NEW o, NEW l, NEW m, Popped(s, v, o), StoreOK(b, s, f),
         PopFits(b, s, f, o, l, m), BooksOK(b, s, f, l)
  PROVE  BooksOK(b, v, f, m)
<1>1. \A p, r : Above(b, v, p, r) <=> Above(b, s, p, r)
  BY PopStore
<1>2. \A p : /\ EndedWell(b, s, p) => EndedWell(b, v, p)
             /\ \A n : Booked(s, p, n) => Booked(v, p, n)
  BY DEF EndedWell, Booked, Popped
<1>3. \A p : InHand(b, s, l, p) => InHand(b, v, m, p)
  BY <1>1 DEF InHand, PopFits, Hand, Popped
<1>4. m.pc \in FreezeLabels /\ m.order = o => InHand(b, v, m, o)
  BY DEF InHand
<1> SUFFICES ASSUME NEW p \in Orders
    PROVE  /\ v.closed[p] <= b[p].close /\ v.closed[p] <= b[p].open
           /\ v.opened[p] <= b[p].close /\ v.opened[p] <= b[p].open
           /\ v.moved[p] > 0 => b[p].close > 0 /\ b[p].open > 0
           /\ Above(b, v, p, b[p].ref) /\ v.subs[b[p].ref].order = NoOrder => Booked(v, p, 0)
           /\ v.pending[p].kept => Booked(v, p, v.pending[p].filled)
           /\ Sent(b, p) /\ ~v.pending[p].kept /\ p \notin f => EndedWell(b, v, p) \/ InHand(b, v, m, p)
  BY DEF BooksOK
<1>5. /\ v.closed[p] <= b[p].close /\ v.closed[p] <= b[p].open
      /\ v.opened[p] <= b[p].close /\ v.opened[p] <= b[p].open
      /\ v.moved[p] > 0 => b[p].close > 0 /\ b[p].open > 0
      /\ Above(b, v, p, b[p].ref) /\ v.subs[b[p].ref].order = NoOrder => Booked(v, p, 0)
  BY <1>1, <1>2 DEF BooksOK, Popped
<1>6. v.pending[p].kept => Booked(v, p, v.pending[p].filled)
  <2>1. v.pending[p].kept => p # o /\ v.pending[p] = s.pending[p] BY DEF Popped
  <2> QED BY <2>1, <1>2 DEF BooksOK, PopFits, Mid
<1>7. Sent(b, p) /\ ~v.pending[p].kept /\ p \notin f => EndedWell(b, v, p) \/ InHand(b, v, m, p)
  <2>1. CASE p = o BY <2>1, <1>2, <1>4 DEF PopFits
  <2>2. CASE p # o
    <3>1. v.pending[p] = s.pending[p] BY <2>2 DEF Popped
    <3> QED BY <3>1, <1>2, <1>3 DEF BooksOK
  <2> QED BY <2>1, <2>2
<1> QED BY <1>5, <1>6, <1>7

LEMMA PopMoves ==
  ASSUME IInv, CInv, NEW t, Threads = {t}, up, NEW m \in Local, NEW o \in Orders,
         Writes(t, m, [store EXCEPT !.pending[o] = NotPending]),
         Popped(store, store', o) => LocalOK(broker, store', LetGo, m),
         Popped(store, store', o) /\ crashes = 0 => CountOK(broker, store', LetGo, m),
         crashes = 0 => PopFits(broker, store, LetGo, o, th[t], m),
         \/ todo = {}
         \/ /\ m.pc # "idle" => m.pc \in BootLabels /\ m.ret = "idle" /\ m.order \notin todo
            /\ o \notin todo
  PROVE  IInv' /\ CInv'
<1>1. /\ store \in Store /\ StoreOK(broker, store, LetGo) /\ faults \in Nat
      /\ crashes = 0 => BooksOK(broker, store, LetGo, th[t])
      /\ todo \subseteq Orders /\ \A p \in todo : store.pending[p].kept
  BY Facts DEF SweepOK
<1> HIDE DEF LetGo
<1>2. /\ Step(t, m) /\ UNCHANGED <<broker, process, history, crashes>> /\ faults' = faults
      /\ store' = [store EXCEPT !.pending[o] = NotPending]
  BY DEF Writes, bounds
<1>3. store' \in Store /\ Popped(store, store', o)
  BY <1>1, <1>2, PopWrites
<1>4. StoreOK(broker, store', LetGo)
  BY <1>1, <1>3, PopStore
<1>5. crashes = 0 => BooksOK(broker, store', LetGo, m)
  BY <1>1, <1>3, PopBooks
<1>6. o \notin todo => \A p \in todo : store'.pending[p].kept
  BY <1>1, <1>3 DEF Popped
<1> QED BY <1>1, <1>2, <1>3, <1>4, <1>5, <1>6, StoreMoves

LEMMA PopKeeps ==
  ASSUME IInv, CInv, NEW t, Threads = {t}, Pop(t)
  PROVE  IInv' /\ CInv'
<1> DEFINE u == th[t]
           o == u.order
           p == IF u.res = "LEG_IMBALANCE" THEN "freezeLoad" ELSE "sync"
           m == [u EXCEPT !.pc = p]
<1>1. /\ up /\ u.pc = "pop" /\ Writes(t, m, [store EXCEPT !.pending[o] = NotPending])
  BY DEF Pop, At
<1>2. /\ store \in Store /\ StoreOK(broker, store, LetGo) /\ broker \in BrokerType /\ u \in Local
      /\ StatusOK(broker, store, u)
      /\ crashes = 0 => CountOK(broker, store, LetGo, u)
  BY Facts DEF LocalOK
<1>3. todo = {} \/ (u.ret = "idle" /\ o \notin todo)
  BY <1>1 DEF IInv, SweepOK
<1>4. m \in Local /\ m.pc = p /\ m.order = o /\ m.ref = u.ref /\ m.rec = u.rec
      /\ m.res = u.res /\ m.ret = u.ret /\ m.units = u.units
  BY <1>2 DEF Local, Labels
<1>5. p \in {"freezeLoad", "sync"} /\ (p = "freezeLoad" <=> u.res = "LEG_IMBALANCE")
  OBVIOUS
<1> HIDE DEF u, m, p, LetGo
<1>6. /\ o \in Orders /\ store.pending[o].kept /\ u.rec = store.pending[o]
      /\ u.res \in Ends /\ Over(broker, o)
      /\ u.ret = "syncSub" => u.ref \in Refs /\ broker[o].ref = u.ref
  BY <1>1, <1>2 DEF StatusOK, KnownLabels, BootLabels
<1>7. u.rec.ref = broker[o].ref /\ Current(broker, store, o)
  BY <1>2, <1>6 DEF StoreOK, OrderOK
<1>8. ASSUME Popped(store, store', o) PROVE LocalOK(broker, store', LetGo, m)
  <2>1. ~store'.pending[o].kept /\ Current(broker, store', o)
    BY <1>7, <1>8 DEF Popped, Current, Above
  <2>2. StatusOK(broker, store', m)
    BY <1>4, <1>5, <1>6, <1>7, <2>1
       DEF StatusOK, KnownLabels, BookLabels, FreezeLabels, CopyLabels
  <2> QED BY <1>4, <1>5, <2>2, ByLabel DEF BootLabels, FreezeLabels
<1>9. CountOK(broker, store', LetGo, m)
  BY <1>4, <1>5, Uncounted DEF Counted
<1>10. crashes = 0 => PopFits(broker, store, LetGo, o, u, m)
  <2>1. SUFFICES ASSUME crashes = 0, u.res # "LEG_IMBALANCE" PROVE EndedWell(broker, store, o)
    BY <1>1, <1>4, <1>5 DEF PopFits, FreezeLabels, Hand
  <2>2. /\ Booked(store, o, IF u.res = "FILLED" THEN Qty ELSE u.rec.filled)
        /\ u.res = "FILLED" => broker[o].close = Qty /\ broker[o].open = Qty
        /\ u.res # "FILLED" => broker[o].close = u.rec.filled /\ broker[o].open = u.rec.filled
    BY <1>1, <1>2, <2>1 DEF CountOK
  <2> QED BY <2>2, <1>6 DEF EndedWell
<1>11. \/ todo = {}
       \/ /\ m.pc # "idle" => m.pc \in BootLabels /\ m.ret = "idle" /\ m.order \notin todo
          /\ o \notin todo
  BY <1>3, <1>4, <1>5 DEF BootLabels, FreezeLabels
<1> QED BY <1>1, <1>4, <1>6, <1>8, <1>9, <1>10, <1>11, PopMoves DEF u

LEMMA CxPopsKeep ==
  ASSUME IInv, CInv, NEW t, Threads = {t}, CxPopPartial(t) \/ CxPopClean(t)
  PROVE  IInv' /\ CInv'
<1> DEFINE u == th[t]
           o == u.order
           a == [u EXCEPT !.pc = "freezeLoad"]
           v == [store EXCEPT !.pending[o] = NotPending]
<1>1. up /\ u.pc \in {"cxPopPartial", "cxPopClean"} /\ u.pc \in CxLabels
  BY DEF CxPopPartial, CxPopClean, At, CxLabels
<1>2. /\ u \in Local /\ o \in Orders /\ store.pending[o].kept
      /\ u.res = NoState /\ u.ret = "idle" /\ Over(broker, o) /\ broker \in BrokerType
      /\ todo = {} /\ CancelOK(broker, store, u) /\ store \in Store
  BY <1>1, CxFacts, Facts DEF LocalOK
<1>a. u.pc \notin Mid \cup FreezeLabels \cup Hand \cup {"ackUnknown"}
  BY <1>1 DEF Mid, Hand, FreezeLabels, BookLabels
<1>3. CASE CxPopPartial(t)
  <2>1. Writes(t, a, v) BY <1>3 DEF CxPopPartial
  <2>2. a \in Local /\ a.pc = "freezeLoad" /\ a.order = o /\ a.res = NoState /\ a.ret = "idle"
    BY <1>2 DEF Local, Labels
  <2> HIDE DEF u, a, LetGo
  <2>3. ASSUME Popped(store, store', o) PROVE LocalOK(broker, store', LetGo, a)
    <3>1. StatusOK(broker, store', a)
      BY <1>2, <2>2, <2>3
         DEF StatusOK, KnownLabels, BookLabels, FreezeLabels, CopyLabels, Popped, NoState
    <3> QED BY <2>2, <3>1, ByLabel DEF BootLabels, FreezeLabels
  <2>4. CountOK(broker, store', LetGo, a)
    BY <2>2, Uncounted DEF Counted
  <2>5. PopFits(broker, store, LetGo, o, u, a)
    BY <1>a, <2>2 DEF PopFits, FreezeLabels
  <2> QED BY <1>1, <1>2, <2>1, <2>2, <2>3, <2>4, <2>5, PopMoves DEF u
<1>4. CASE CxPopClean(t)
  <2>1. Writes(t, IdleThread, v) /\ u.pc = "cxPopClean" BY <1>4 DEF CxPopClean, At
  <2>2. broker[o].close = 0 /\ broker[o].open = 0
    BY <1>2, <2>1 DEF CancelOK
  <2>3. /\ IdleThread \in Local /\ LocalOK(broker, store', LetGo, IdleThread)
        /\ CountOK(broker, store', LetGo, IdleThread)
    BY IdleOK
  <2> HIDE DEF u, LetGo
  <2>4. crashes = 0 => PopFits(broker, store, LetGo, o, u, IdleThread)
    <3>1. SUFFICES ASSUME crashes = 0 PROVE EndedWell(broker, store, o)
      BY <1>a DEF PopFits
    <3>2. BooksOK(broker, store, LetGo, u) BY <3>1, Facts DEF u
    <3>3. store.closed[o] \in Nat /\ store.opened[o] \in Nat BY <1>2 DEF Store
    <3> QED BY <3>2, <3>3, <1>2, <2>2 DEF BooksOK, EndedWell, Booked
  <2> QED BY <1>1, <1>2, <2>1, <2>3, <2>4, PopMoves DEF u
<1> QED BY <1>3, <1>4

LEMMA ClearPopKeeps ==
  ASSUME IInv, CInv, NEW t, Threads = {t}, ClearPop(t)
  PROVE  IInv' /\ CInv'
<1> DEFINE u == th[t]
           o == u.order
           a == [u EXCEPT !.pc = "clearSub"]
<1>1. up /\ u.pc = "clearPop" /\ Writes(t, a, [store EXCEPT !.pending[o] = NotPending])
  BY DEF ClearPop, At
<1>2. /\ u \in Local /\ ClearOK(broker, store, LetGo, u) /\ store \in Store
      /\ crashes = 0 => CountOK(broker, store, LetGo, u)
  BY Facts DEF LocalOK
<1>3. todo = {}
  BY <1>1, NotBooting DEF BootLabels, KnownLabels, BookLabels, FreezeLabels
<1>4. a \in Local /\ a.pc = "clearSub" /\ a.order = o /\ a.ref = u.ref
  BY <1>2 DEF Local, Labels
<1> HIDE DEF u, a, LetGo
<1>5. /\ u.ref \in Refs /\ Above(broker, store, o, u.ref)
      /\ \A p \in Orders : broker[p].ref = u.ref =>
           /\ p \in LetGo \/ Over(broker, p)
           /\ store.pending[p].kept => p = o
  BY <1>1, <1>2 DEF ClearOK, ClearLabels
<1>6. o \in Orders /\ o # NoOrder /\ broker[o].ref = u.ref
  BY <1>5, AboveIs
<1>7. ASSUME Popped(store, store', o) PROVE LocalOK(broker, store', LetGo, a)
  <2>1. ClearOK(broker, store', LetGo, a)
    BY <1>4, <1>5, <1>6, <1>7 DEF ClearOK, Popped, Above
  <2> QED BY <1>4, <2>1, ByLabel DEF ClearLabels
<1>8. ASSUME crashes = 0, NEW p \in Orders, broker[p].ref = u.ref, p \notin LetGo
      PROVE  EndedWell(broker, store, p)
  <2>1. \/ EndedWell(broker, store, p)
        \/ broker[p].close = 0 /\ broker[p].open = 0 /\ Booked(store, p, 0)
    BY <1>1, <1>2, <1>8 DEF CountOK
  <2> QED BY <2>1, <1>5, <1>8 DEF EndedWell
<1>9. ASSUME Popped(store, store', o), crashes = 0 PROVE CountOK(broker, store', LetGo, a)
  <2>1. \A p \in Orders : EndedWell(broker, store, p) => EndedWell(broker, store', p)
    BY <1>9 DEF EndedWell, Booked, Popped
  <2> QED BY <1>4, <1>8, <1>9, <2>1 DEF CountOK
<1>10. crashes = 0 => PopFits(broker, store, LetGo, o, u, a)
  BY <1>1, <1>6, <1>8 DEF PopFits, Mid, Hand, FreezeLabels, BookLabels
<1> QED BY <1>1, <1>3, <1>4, <1>6, <1>7, <1>9, <1>10, PopMoves DEF u

-----------------------------------------------------------------------------
(* The pending record is written.                                          *)

Put(s, v, o, rec) ==
  /\ v.subs = s.subs /\ v.closed = s.closed /\ v.opened = s.opened
  /\ v.moved = s.moved /\ v.review = s.review
  /\ v.pending[o] = rec
  /\ \A p \in Orders \ {o} : v.pending[p] = s.pending[p]

LEMMA PutWrites ==
  ASSUME NEW s \in Store, NEW o \in Orders, NEW rec \in Pending
  PROVE  LET v == [s EXCEPT !.pending[o] = rec]
         IN  v \in Store /\ Put(s, v, o, rec)
<1> DEFINE new == [s.pending EXCEPT ![o] = rec]
           v == [s EXCEPT !.pending = new]
<1>2. s.pending \in [Orders -> Pending]
  BY DEF Store
<1>3. new \in [Orders -> Pending] /\ new[o] = rec /\ \A p \in Orders \ {o} : new[p] = s.pending[p]
  BY <1>2
<1> HIDE DEF new
<1>4. v \in Store /\ v.pending = new /\ v.subs = s.subs /\ v.closed = s.closed
      /\ v.opened = s.opened /\ v.moved = s.moved /\ v.review = s.review
  BY <1>3 DEF Store
<1>5. [s EXCEPT !.pending[o] = rec] = v
  BY DEF new
<1> HIDE DEF v
<1> QED BY <1>3, <1>4, <1>5 DEF Put

LEMMA PutStore ==
  ASSUME NEW b, NEW s, NEW v, NEW f, NEW o \in Orders, NEW rec, Put(s, v, o, rec), StoreOK(b, s, f),
         rec.ref = b[o].ref, Current(b, s, o)
  PROVE  StoreOK(b, v, f) /\ \A p, r : Above(b, v, p, r) <=> Above(b, s, p, r)
<1>1. \A p, r : Above(b, v, p, r) <=> Above(b, s, p, r)
  BY DEF Above, Put
<1>2. \A p : Current(b, v, p) <=> Current(b, s, p)
  BY <1>1 DEF Current, Put
<1>3. ASSUME NEW r \in Refs PROVE RefOK(b, v, r)
  <2>1. RefOK(b, s, r) BY DEF StoreOK
  <2> QED BY <2>1, <1>1 DEF RefOK, Put
<1>4. ASSUME NEW p \in Orders PROVE OrderOK(b, v, f, p)
  <2>1. OrderOK(b, s, f, p) BY DEF StoreOK
  <2>2. p # o => v.pending[p] = s.pending[p] BY DEF Put
  <2>3. v.pending[o] = rec BY DEF Put
  <2> QED BY <2>1, <2>2, <2>3, <1>2 DEF OrderOK, Put
<1> QED BY <1>1, <1>3, <1>4 DEF StoreOK

PutFits(s, o, rec, l) ==
  /\ l.pc \notin FreezeLabels \cup {"ackUnknown"}
  /\ l.pc \in Mid \cup Hand => l.order = o
  /\ rec.kept /\ Booked(s, o, rec.filled)

LEMMA PutBooks ==
  ASSUME NEW b, NEW s, NEW v, NEW f, NEW o \in Orders, NEW rec, NEW l, NEW m, Put(s, v, o, rec),
         PutFits(s, o, rec, l), BooksOK(b, s, f, l),
         \A p, r : Above(b, v, p, r) <=> Above(b, s, p, r)
  PROVE  BooksOK(b, v, f, m)
<1>2. \A p : /\ EndedWell(b, s, p) => EndedWell(b, v, p)
             /\ \A n : Booked(s, p, n) => Booked(v, p, n)
  BY DEF EndedWell, Booked, Put
<1>3. \A p : p # o /\ InHand(b, s, l, p) => InHand(b, v, m, p)
  BY DEF InHand, PutFits, Hand, Put
<1> SUFFICES ASSUME NEW p \in Orders
    PROVE  /\ v.closed[p] <= b[p].close /\ v.closed[p] <= b[p].open
           /\ v.opened[p] <= b[p].close /\ v.opened[p] <= b[p].open
           /\ v.moved[p] > 0 => b[p].close > 0 /\ b[p].open > 0
           /\ Above(b, v, p, b[p].ref) /\ v.subs[b[p].ref].order = NoOrder => Booked(v, p, 0)
           /\ v.pending[p].kept => Booked(v, p, v.pending[p].filled)
           /\ Sent(b, p) /\ ~v.pending[p].kept /\ p \notin f => EndedWell(b, v, p) \/ InHand(b, v, m, p)
  BY DEF BooksOK
<1>5. /\ v.closed[p] <= b[p].close /\ v.closed[p] <= b[p].open
      /\ v.opened[p] <= b[p].close /\ v.opened[p] <= b[p].open
      /\ v.moved[p] > 0 => b[p].close > 0 /\ b[p].open > 0
      /\ Above(b, v, p, b[p].ref) /\ v.subs[b[p].ref].order = NoOrder => Booked(v, p, 0)
  BY <1>2 DEF BooksOK, Put
<1>6. CASE p = o
  <2>1. v.pending[p] = rec BY <1>6 DEF Put
  <2> QED BY <2>1, <1>2, <1>5, <1>6 DEF PutFits
<1>7. CASE p # o
  <2>1. v.pending[p] = s.pending[p] BY <1>7 DEF Put
  <2>2. ~(l.pc \in Mid /\ l.order = p) BY <1>7 DEF PutFits
  <2>3. s.pending[p].kept => Booked(s, p, s.pending[p].filled)
    BY <2>2 DEF BooksOK, Mid
  <2> QED BY <2>1, <2>3, <1>2, <1>3, <1>5, <1>7 DEF BooksOK
<1> QED BY <1>6, <1>7

LEMMA PutMoves ==
  ASSUME IInv, CInv, NEW t, Threads = {t}, up, NEW m \in Local, NEW o \in Orders, NEW rec \in Pending,
         Writes(t, m, [store EXCEPT !.pending[o] = rec]),
         rec.kept, rec.ref = broker[o].ref, Current(broker, store, o),
         Put(store, store', o, rec) => LocalOK(broker, store', LetGo, m),
         m.pc \notin Counted,
         crashes = 0 => PutFits(store, o, rec, th[t]),
         todo = {} \/ (m.pc # "idle" => m.pc \in BootLabels /\ m.ret = "idle" /\ m.order \notin todo)
  PROVE  IInv' /\ CInv'
<1>1. /\ store \in Store /\ StoreOK(broker, store, LetGo) /\ faults \in Nat
      /\ crashes = 0 => BooksOK(broker, store, LetGo, th[t])
      /\ todo \subseteq Orders /\ \A p \in todo : store.pending[p].kept
  BY Facts DEF SweepOK
<1> HIDE DEF LetGo
<1>2. /\ Step(t, m) /\ UNCHANGED <<broker, process, history, crashes>> /\ faults' = faults
      /\ store' = [store EXCEPT !.pending[o] = rec]
  BY DEF Writes, bounds
<1>3. store' \in Store /\ Put(store, store', o, rec)
  BY <1>1, <1>2, PutWrites
<1>4. StoreOK(broker, store', LetGo) /\ \A p, r : Above(broker, store', p, r) <=> Above(broker, store, p, r)
  BY <1>1, <1>3, PutStore
<1>5. crashes = 0 => BooksOK(broker, store', LetGo, m)
  BY <1>1, <1>3, <1>4, PutBooks
<1>6. \A p \in todo : store'.pending[p].kept
  BY <1>1, <1>3 DEF Put
<1>7. CountOK(broker, store', LetGo, m)
  BY Uncounted
<1> QED BY <1>1, <1>2, <1>3, <1>4, <1>5, <1>6, <1>7, StoreMoves

LEMMA SavesKeep ==
  ASSUME IInv, CInv, NEW t, Threads = {t}, SavePending(t) \/ AdoptSave(t)
  PROVE  IInv' /\ CInv'
<1> DEFINE u == th[t]
           r == u.ref
           o == u.order
           rec(x) == [kept |-> TRUE, ref |-> r, filled |-> 0, strikes |-> x]
           a == [u EXCEPT !.pc = "osGet"]
<1>1. up /\ u.pc \in {"savePending", "adoptSave"}
  BY DEF SavePending, AdoptSave, At
<1>2. /\ u \in Local /\ store \in Store /\ BrokerOK(broker)
      /\ r \in Refs /\ Names(broker, store, r, o)
      /\ crashes = 0 => Booked(store, o, 0)
  BY <1>1, Facts DEF LocalOK, PlaceOK, CheckOK, PlaceLabels, CheckLabels, CountOK
<1>3. todo = {}
  BY <1>1, NotBooting DEF BootLabels, KnownLabels, BookLabels, FreezeLabels
<1>4. o \in Orders /\ o # NoOrder /\ broker[o].ref = r
  BY <1>2, AboveIs DEF Names
<1>5. Current(broker, store, o)
  BY <1>2, <1>4 DEF Names, Current
<1>6. ASSUME NEW x \in BOOLEAN
      PROVE  /\ rec(x) \in Pending /\ rec(x).kept /\ rec(x).ref = r /\ rec(x).filled = 0
             /\ crashes = 0 => PutFits(store, o, rec(x), u)
  <2>1. rec(x) \in Pending BY <1>2, RollConstants DEF Pending
  <2>2. rec(x).kept /\ rec(x).ref = r /\ rec(x).filled = 0 OBVIOUS
  <2> HIDE DEF rec, u
  <2> QED BY <1>1, <1>2, <2>1, <2>2 DEF PutFits, FreezeLabels
<1>7. CASE SavePending(t)
  <2>1. Writes(t, IdleThread, [store EXCEPT !.pending[o] = rec(TRUE)])
    BY <1>7 DEF SavePending
  <2>2. /\ IdleThread \in Local /\ LocalOK(broker, store', LetGo, IdleThread)
        /\ IdleThread.pc \notin Counted
    BY IdleOK, IdleFields DEF Counted
  <2> HIDE DEF u, rec, LetGo
  <2>3. TRUE \in BOOLEAN OBVIOUS
  <2> DEFINE q == rec(TRUE)
  <2>4. /\ q \in Pending /\ q.kept /\ q.ref = r
        /\ crashes = 0 => PutFits(store, o, q, u)
    BY <2>3, <1>6
  <2>5. Writes(t, IdleThread, [store EXCEPT !.pending[o] = q]) BY <2>1
  <2> HIDE DEF q
  <2> QED BY <1>1, <1>2, <1>3, <1>4, <1>5, <2>2, <2>4, <2>5, PutMoves DEF u
<1>8. CASE AdoptSave(t)
  <2>1. Writes(t, a, [store EXCEPT !.pending[o] = rec(FALSE)])
    BY <1>8 DEF AdoptSave
  <2>2. a \in Local /\ a.pc = "osGet" /\ a.order = o /\ a.ref = r
    BY <1>2 DEF Local, Labels
  <2> DEFINE q == rec(FALSE)
  <2> HIDE DEF u, rec, a, LetGo
  <2>3. FALSE \in BOOLEAN OBVIOUS
  <2>4. /\ q \in Pending /\ q.kept /\ q.ref = r
        /\ crashes = 0 => PutFits(store, o, q, u)
    BY <2>3, <1>6
  <2>5. Writes(t, a, [store EXCEPT !.pending[o] = q]) BY <2>1
  <2> HIDE DEF q
  <2>6. ASSUME Put(store, store', o, q) PROVE LocalOK(broker, store', LetGo, a)
    <3>1. store'.pending[o].kept /\ Names(broker, store, r, o) /\ store'.subs = store.subs
      BY <1>2, <2>4, <2>6 DEF Put
    <3>2. StatusOK(broker, store', a)
      BY <1>2, <1>4, <2>2, <3>1
         DEF StatusOK, KnownLabels, BookLabels, FreezeLabels, CopyLabels, Names, Above
    <3> QED BY <2>2, <3>2, ByLabel DEF BootLabels
  <2>7. a.pc \notin Counted BY <2>2 DEF Counted
  <2> QED BY <1>1, <1>2, <1>3, <1>4, <1>5, <2>2, <2>4, <2>5, <2>6, <2>7, PutMoves DEF u
<1> QED BY <1>7, <1>8

LEMMA SavePartKeeps ==
  ASSUME IInv, CInv, NEW t, Threads = {t}, SavePart(t)
  PROVE  IInv' /\ CInv'
<1> DEFINE u == th[t]
           o == u.order
           q == [u.rec EXCEPT !.filled = @ + u.units]
           a == [u EXCEPT !.pc = "sync"]
<1>1. up /\ u.pc = "savePart" /\ Writes(t, a, [store EXCEPT !.pending[o] = q])
  BY DEF SavePart, At
<1>2. /\ u \in Local /\ store \in Store /\ StoreOK(broker, store, LetGo) /\ broker \in BrokerType
      /\ StatusOK(broker, store, u)
      /\ crashes = 0 => CountOK(broker, store, LetGo, u)
  BY Facts DEF LocalOK
<1>3. /\ o \in Orders /\ store.pending[o].kept /\ u.rec = store.pending[o] /\ u.res = "WORKING"
      /\ u.rec.filled + u.units <= broker[o].close
      /\ u.ret = "syncSub" => u.ref \in Refs /\ broker[o].ref = u.ref
  BY <1>1, <1>2 DEF StatusOK, KnownLabels, BootLabels, BookLabels
<1>4. u.rec.ref = broker[o].ref /\ Current(broker, store, o)
  BY <1>2, <1>3 DEF StoreOK, OrderOK
<1>5. u.rec \in Pending /\ u.units \in Nat /\ broker[o].close \in 0..Qty
  BY <1>2, <1>3, RollConstants DEF Local, BrokerType, Roll
<1>6. /\ q \in Pending /\ q.kept /\ q.ref = u.rec.ref /\ q.filled = u.rec.filled + u.units
  <2>1. u.rec.filled + u.units \in 0..Qty
    BY <1>3, <1>5, RollConstants DEF Pending
  <2>2. u.rec.kept BY <1>3
  <2> QED BY <2>1, <2>2, <1>5 DEF Pending
<1>7. a \in Local /\ a.pc = "sync" /\ a.order = o /\ a.ref = u.ref /\ a.rec = u.rec
      /\ a.res = u.res /\ a.ret = u.ret
  BY <1>2 DEF Local, Labels
<1>8. todo = {} \/ (u.ret = "idle" /\ o \notin todo)
  BY <1>1 DEF IInv, SweepOK
<1> HIDE DEF u, q, a, LetGo
<1>9. ASSUME Put(store, store', o, q) PROVE LocalOK(broker, store', LetGo, a)
  <2>1. Current(broker, store', o) /\ store'.pending[o].kept
    BY <1>4, <1>6, <1>9 DEF Put, Current, Above
  <2>2. StatusOK(broker, store', a)
    BY <1>3, <1>4, <1>7, <2>1
       DEF StatusOK, KnownLabels, BookLabels, FreezeLabels, CopyLabels
  <2> QED BY <1>7, <2>2, ByLabel DEF BootLabels
<1>10. crashes = 0 => PutFits(store, o, q, u)
  BY <1>1, <1>2, <1>6 DEF PutFits, CountOK, Mid, FreezeLabels
<1>11. todo = {} \/ (a.pc # "idle" => a.pc \in BootLabels /\ a.ret = "idle" /\ a.order \notin todo)
  BY <1>7, <1>8 DEF BootLabels
<1>12. a.pc \notin Counted
  BY <1>7 DEF Counted
<1> QED BY <1>1, <1>3, <1>4, <1>6, <1>7, <1>9, <1>10, <1>11, <1>12, PutMoves DEF u

-----------------------------------------------------------------------------
(* The books are written, by an append or with a whole private copy.       *)

Filed(s, v) ==
  /\ v.pending = s.pending /\ (s.review => v.review)
  /\ \A r \in Refs : SameSub(v.subs[r], s.subs[r])

LEMMA FiledStore ==
  ASSUME NEW b, NEW s, NEW v, NEW f, Filed(s, v), StoreOK(b, s, f), BrokerOK(b)
  PROVE  /\ StoreOK(b, v, f)
         /\ \A p, r : r \in Refs => (Above(b, v, p, r) <=> Above(b, s, p, r))
         /\ \A p \in Orders : Current(b, s, p) => Current(b, v, p)
<1>1. \A p, r : r \in Refs => (Above(b, v, p, r) <=> Above(b, s, p, r))
  BY DEF Above, Filed, SameSub
<1>2. \A p \in Orders : Current(b, s, p) => Current(b, v, p)
  <2> SUFFICES ASSUME NEW p \in Orders, Current(b, s, p) PROVE Current(b, v, p)
    OBVIOUS
  <2>1. b[p].ref \in Refs BY DEF Current, Above, BrokerOK
  <2> QED BY <2>1, <1>1 DEF Current, Filed, SameSub
<1>3. ASSUME NEW r \in Refs PROVE RefOK(b, v, r)
  <2>1. RefOK(b, s, r) BY DEF StoreOK
  <2>2. /\ v.subs[r].status = s.subs[r].status /\ v.subs[r].order = s.subs[r].order
        /\ v.subs[r].floor = s.subs[r].floor /\ (v.subs[r].aged => s.subs[r].aged)
    BY DEF Filed, SameSub
  <2> QED BY <2>1, <2>2, <1>1 DEF RefOK
<1>4. ASSUME NEW p \in Orders PROVE OrderOK(b, v, f, p)
  <2>1. OrderOK(b, s, f, p) BY DEF StoreOK
  <2>2. Sent(b, p) => /\ b[p].ref \in Refs
                      /\ v.subs[b[p].ref].status = s.subs[b[p].ref].status
                      /\ v.subs[b[p].ref].order = s.subs[b[p].ref].order
                      /\ v.subs[b[p].ref].floor = s.subs[b[p].ref].floor
    BY DEF Filed, SameSub, BrokerOK
  <2>3. v.pending = s.pending BY DEF Filed
  <2> QED BY <2>1, <2>2, <2>3, <1>2 DEF OrderOK
<1> QED BY <1>1, <1>2, <1>3, <1>4 DEF StoreOK

LedgerFits(b, s, v, f, o, l, m) ==
  /\ l.pc \notin Hand \cup {"ackUnknown"}
  /\ l.pc \in Mid \cup FreezeLabels => l.order = o
  /\ \A p \in Orders \ {o} : /\ v.closed[p] = s.closed[p] /\ v.opened[p] = s.opened[p]
                             /\ v.moved[p] = s.moved[p]
  /\ v.closed[o] <= b[o].close /\ v.closed[o] <= b[o].open
  /\ v.opened[o] <= b[o].close /\ v.opened[o] <= b[o].open
  /\ v.moved[o] > 0 => b[o].close > 0 /\ b[o].open > 0
  /\ Above(b, s, o, b[o].ref) /\ s.subs[b[o].ref].order = NoOrder => Booked(v, o, 0)
  /\ s.pending[o].kept /\ ~(m.pc \in Mid /\ m.order = o) => Booked(v, o, s.pending[o].filled)
  /\ Sent(b, o) /\ ~s.pending[o].kept /\ o \notin f => EndedWell(b, v, o)

LEMMA LedgerBooks ==
  ASSUME NEW b, NEW s, NEW v, NEW f, NEW o \in Orders, NEW l, NEW m, Filed(s, v), BrokerOK(b),
         StoreOK(b, s, f), LedgerFits(b, s, v, f, o, l, m), BooksOK(b, s, f, l)
  PROVE  BooksOK(b, v, f, m)
<1>1. \A p, r : r \in Refs => (Above(b, v, p, r) <=> Above(b, s, p, r))
  BY FiledStore
<1>2. \A p \in Orders \ {o} : /\ EndedWell(b, s, p) => EndedWell(b, v, p)
                              /\ \A n : Booked(s, p, n) => Booked(v, p, n)
  BY DEF EndedWell, Booked, Filed, LedgerFits
<1>3. \A p \in Orders \ {o} : Sent(b, p) /\ InHand(b, s, l, p) => InHand(b, v, m, p)
  <2> SUFFICES ASSUME NEW p \in Orders \ {o}, Sent(b, p), InHand(b, s, l, p) PROVE InHand(b, v, m, p)
    OBVIOUS
  <2>1. b[p].ref \in Refs BY DEF BrokerOK
  <2>2. /\ v.subs[b[p].ref].status = s.subs[b[p].ref].status
        /\ v.subs[b[p].ref].order = s.subs[b[p].ref].order
    BY <2>1 DEF Filed, SameSub
  <2> QED BY <2>1, <2>2, <1>1 DEF InHand, LedgerFits, Hand
<1>4. \A p \in Orders : Above(b, s, p, b[p].ref) =>
        v.subs[b[p].ref].order = s.subs[b[p].ref].order /\ b[p].ref \in Refs
  BY DEF Filed, SameSub, Above, BrokerOK
<1>a. \A p \in Orders : Above(b, v, p, b[p].ref) => Above(b, s, p, b[p].ref)
  BY <1>1 DEF Above, BrokerOK
<1> SUFFICES ASSUME NEW p \in Orders
    PROVE  /\ v.closed[p] <= b[p].close /\ v.closed[p] <= b[p].open
           /\ v.opened[p] <= b[p].close /\ v.opened[p] <= b[p].open
           /\ v.moved[p] > 0 => b[p].close > 0 /\ b[p].open > 0
           /\ Above(b, v, p, b[p].ref) /\ v.subs[b[p].ref].order = NoOrder => Booked(v, p, 0)
           /\ v.pending[p].kept /\ ~(m.pc \in Mid /\ m.order = p) => Booked(v, p, v.pending[p].filled)
           /\ Sent(b, p) /\ ~v.pending[p].kept /\ p \notin f => EndedWell(b, v, p) \/ InHand(b, v, m, p)
  BY DEF BooksOK, Mid
<1>5. CASE p = o
  BY <1>5, <1>a, <1>4 DEF LedgerFits, Filed
<1>6. CASE p # o
  <2>1. ~(l.pc \in Mid /\ l.order = p) BY <1>6 DEF LedgerFits
  <2>2. s.pending[p].kept => Booked(s, p, s.pending[p].filled)
    BY <2>1 DEF BooksOK, Mid
  <2>3. v.pending = s.pending BY DEF Filed
  <2>4. /\ v.closed[p] = s.closed[p] /\ v.opened[p] = s.opened[p] /\ v.moved[p] = s.moved[p]
    BY <1>6 DEF LedgerFits
  <2> QED BY <2>2, <2>3, <2>4, <1>2, <1>3, <1>a, <1>4, <1>6 DEF BooksOK
<1> QED BY <1>5, <1>6

LEMMA LedgerMoves ==
  ASSUME IInv, CInv, NEW t, Threads = {t}, up, NEW m \in Local, NEW o \in Orders,
         Writes(t, m, store'), store' \in Store, Filed(store, store'),
         LocalOK(broker, store', LetGo, m),
         crashes = 0 => CountOK(broker, store', LetGo, m),
         crashes = 0 => LedgerFits(broker, store, store', LetGo, o, th[t], m),
         todo = {} \/ (m.pc # "idle" => m.pc \in BootLabels /\ m.ret = "idle" /\ m.order \notin todo)
  PROVE  IInv' /\ CInv'
<1>1. /\ store \in Store /\ StoreOK(broker, store, LetGo) /\ faults \in Nat /\ BrokerOK(broker)
      /\ crashes = 0 => BooksOK(broker, store, LetGo, th[t])
      /\ \A p \in todo : store.pending[p].kept
  BY Facts DEF SweepOK
<1> HIDE DEF LetGo
<1>2. /\ Step(t, m) /\ UNCHANGED <<broker, process, history, crashes>> /\ faults' = faults
  BY DEF Writes, bounds
<1>3. StoreOK(broker, store', LetGo)
  BY <1>1, FiledStore
<1>4. crashes = 0 => BooksOK(broker, store', LetGo, m)
  BY <1>1, LedgerBooks
<1>5. \A p \in todo : store'.pending[p].kept
  BY <1>1 DEF Filed
<1> QED BY <1>1, <1>2, <1>3, <1>4, <1>5, StoreMoves

LEMMA BookFacts ==
  ASSUME IInv, CInv, NEW t \in Threads, th[t].pc \in BookLabels
  PROVE  /\ th[t] \in Local /\ th[t].order \in Orders
         /\ store \in Store /\ store.pending[th[t].order].kept
         /\ th[t].rec = store.pending[th[t].order]
         /\ store.subs[broker[th[t].order].ref].order # NoOrder
         /\ Current(broker, store, th[t].order) /\ th[t].rec.ref = broker[th[t].order].ref
         /\ th[t].res \in {"FILLED", "WORKING"} /\ th[t].units > 0
         /\ th[t].rec.filled + th[t].units <= broker[th[t].order].close
         /\ th[t].rec.filled + th[t].units <= broker[th[t].order].open
         /\ th[t].res = "FILLED" => /\ Over(broker, th[t].order)
                                    /\ th[t].rec.filled + th[t].units = Qty
         /\ th[t].ret = "syncSub" => /\ th[t].ref \in Refs
                                     /\ broker[th[t].order].ref = th[t].ref
         /\ broker[th[t].order] \in Roll
         /\ th[t].rec.filled \in Nat /\ th[t].units \in Nat
         /\ todo = {} \/ (th[t].ret = "idle" /\ th[t].order \notin todo)
<1>1. /\ th[t] \in Local /\ StatusOK(broker, store, th[t]) /\ store \in Store
      /\ StoreOK(broker, store, LetGo) /\ broker \in BrokerType
  BY Facts DEF LocalOK
<1>2. th[t].pc \in KnownLabels /\ th[t].pc \in BootLabels /\ th[t].pc # "idle"
  BY DEF KnownLabels, BootLabels, BookLabels
<1>3. /\ th[t].order \in Orders /\ store.pending[th[t].order].kept
      /\ th[t].rec = store.pending[th[t].order]
  BY <1>1, <1>2 DEF StatusOK
<1>4. OrderOK(broker, store, LetGo, th[t].order)
  BY <1>1, <1>3 DEF StoreOK
<1>5. Current(broker, store, th[t].order) /\ th[t].rec.ref = broker[th[t].order].ref
  BY <1>3, <1>4 DEF OrderOK
<1>6. store.subs[broker[th[t].order].ref].order # NoOrder
  BY <1>3, <1>5, RollConstants DEF Current, Orders, NoOrder
<1>7. th[t].rec.filled \in Nat /\ th[t].units \in Nat /\ broker[th[t].order] \in Roll
  BY <1>1, <1>3, RollConstants DEF Local, Pending, BrokerType
<1>8. todo = {} \/ (th[t].ret = "idle" /\ th[t].order \notin todo)
  BY <1>2 DEF IInv, SweepOK
<1> QED BY <1>1, <1>2, <1>3, <1>5, <1>6, <1>7, <1>8 DEF StatusOK

\* The record the thread holds stays what it read.
LEMMA BookGoes ==
  ASSUME IInv, CInv, NEW t \in Threads, th[t].pc \in BookLabels, NEW v, Filed(store, v),
         NEW m, m.pc \in BookLabels \cup {"pop"}, m.pc # "applySave",
         m.pc \in {"savePart"} => m.res = "WORKING", m.pc = "pop" => m.res = "FILLED",
         m.order = th[t].order, m.ref = th[t].ref, m.rec = th[t].rec, m.units = th[t].units,
         m.res = th[t].res, m.ret = th[t].ret
  PROVE  LocalOK(broker, v, LetGo, m) /\ m.pc \in BootLabels
<1>1. v.pending = store.pending BY DEF Filed
<1>2. m.pc \in BootLabels /\ m.pc \notin FreezeLabels \cup {"osGet", "sync"} \cup CopyLabels
  BY DEF BootLabels, KnownLabels, BookLabels, FreezeLabels, CopyLabels
<1>3. StatusOK(broker, v, m)
  BY <1>1, <1>2, BookFacts DEF StatusOK, Ends, Resolved
<1> QED BY <1>2, <1>3, ByLabel

LEMMA BookCloseKeeps ==
  ASSUME IInv, CInv, NEW t, Threads = {t}, BookClose(t)
  PROVE  IInv' /\ CInv'
<1> DEFINE u == th[t]
           o == u.order
           m == [u EXCEPT !.pc = "bookOpen"]
<1>1. /\ up /\ u.pc = "bookClose" /\ u.pc \in BookLabels
      /\ Writes(t, m, [store EXCEPT !.closed[o] = @ + u.units])
  BY DEF BookClose, At, BookLabels
<1>2. /\ u \in Local /\ o \in Orders /\ store \in Store /\ store.pending[o].kept
      /\ u.rec = store.pending[o] /\ store.subs[broker[o].ref].order # NoOrder
      /\ u.rec.filled + u.units <= broker[o].close /\ u.rec.filled + u.units <= broker[o].open
      /\ u.rec.filled \in Nat /\ u.units \in Nat
      /\ todo = {} \/ (u.ret = "idle" /\ o \notin todo)
  BY <1>1, BookFacts
<1>3. store' = [store EXCEPT !.closed = [store.closed EXCEPT ![o] = store.closed[o] + u.units]]
  BY <1>1 DEF Writes
<1>4. m \in Local /\ m.pc = "bookOpen" /\ m.order = o /\ m.ref = u.ref /\ m.rec = u.rec
      /\ m.units = u.units /\ m.res = u.res /\ m.ret = u.ret
  BY <1>2 DEF Local, Labels
<1>5. store' \in Store
  BY <1>2, <1>3 DEF Store
<1>6. /\ store'.closed[o] = store.closed[o] + u.units
      /\ \A p \in Orders \ {o} : store'.closed[p] = store.closed[p]
      /\ store'.opened = store.opened /\ store'.moved = store.moved
      /\ store'.subs = store.subs /\ store'.pending = store.pending /\ store'.review = store.review
  BY <1>2, <1>3 DEF Store
<1>7. Filed(store, store')
  BY <1>6 DEF Filed, SameSub
<1>a. Writes(t, m, store')
  BY <1>1 DEF Writes
<1> HIDE DEF m
<1>8. LocalOK(broker, store', LetGo, m) /\ m.pc \in BootLabels
  BY <1>1, <1>4, <1>7, BookGoes DEF BookLabels
<1>9. crashes = 0 => Booked(store, o, u.rec.filled)
  BY <1>1, <1>2, Facts DEF BooksOK
<1> HIDE DEF u, LetGo
<1>10. crashes = 0 => CountOK(broker, store', LetGo, m)
  BY <1>4, <1>6, <1>9 DEF CountOK, Booked
<1>11. crashes = 0 => LedgerFits(broker, store, store', LetGo, o, u, m)
  <2>1. SUFFICES ASSUME crashes = 0 PROVE LedgerFits(broker, store, store', LetGo, o, u, m)
    OBVIOUS
  <2>2. BooksOK(broker, store, LetGo, u) BY <2>1, Facts DEF u
  <2>3. store'.closed[o] = u.rec.filled + u.units
    BY <2>1, <1>6, <1>9 DEF Booked
  <2>4. m.pc \in Mid /\ u.pc \notin Mid \cup FreezeLabels \cup Hand \cup {"ackUnknown"}
    BY <1>1, <1>4 DEF Mid, Hand, FreezeLabels, BookLabels
  <2> QED BY <2>2, <2>3, <2>4, <1>2, <1>4, <1>6 DEF LedgerFits, BooksOK
<1>12. todo = {} \/ (m.pc # "idle" => m.pc \in BootLabels /\ m.ret = "idle" /\ m.order \notin todo)
  BY <1>2, <1>4, <1>8
<1> QED BY <1>1, <1>2, <1>4, <1>5, <1>7, <1>a, <1>8, <1>10, <1>11, <1>12, LedgerMoves DEF u

LEMMA BookOpenKeeps ==
  ASSUME IInv, CInv, NEW t, Threads = {t}, BookOpen(t)
  PROVE  IInv' /\ CInv'
<1> DEFINE u == th[t]
           o == u.order
           m == [u EXCEPT !.pc = "applyLoad"]
<1>1. /\ up /\ u.pc = "bookOpen" /\ u.pc \in BookLabels
      /\ Writes(t, m, [store EXCEPT !.opened[o] = @ + u.units])
  BY DEF BookOpen, At, BookLabels
<1>2. /\ u \in Local /\ o \in Orders /\ store \in Store /\ store.pending[o].kept
      /\ u.rec = store.pending[o] /\ store.subs[broker[o].ref].order # NoOrder
      /\ u.rec.filled + u.units <= broker[o].close /\ u.rec.filled + u.units <= broker[o].open
      /\ u.rec.filled \in Nat /\ u.units \in Nat
      /\ todo = {} \/ (u.ret = "idle" /\ o \notin todo)
  BY <1>1, BookFacts
<1>3. store' = [store EXCEPT !.opened = [store.opened EXCEPT ![o] = store.opened[o] + u.units]]
  BY <1>1 DEF Writes
<1>4. m \in Local /\ m.pc = "applyLoad" /\ m.order = o /\ m.ref = u.ref /\ m.rec = u.rec
      /\ m.units = u.units /\ m.res = u.res /\ m.ret = u.ret
  BY <1>2 DEF Local, Labels
<1>5. store' \in Store
  BY <1>2, <1>3 DEF Store
<1>6. /\ store'.opened[o] = store.opened[o] + u.units
      /\ \A p \in Orders \ {o} : store'.opened[p] = store.opened[p]
      /\ store'.closed = store.closed /\ store'.moved = store.moved
      /\ store'.subs = store.subs /\ store'.pending = store.pending /\ store'.review = store.review
  BY <1>2, <1>3 DEF Store
<1>7. Filed(store, store')
  BY <1>6 DEF Filed, SameSub
<1>a. Writes(t, m, store')
  BY <1>1 DEF Writes
<1> HIDE DEF m
<1>8. LocalOK(broker, store', LetGo, m) /\ m.pc \in BootLabels
  BY <1>1, <1>4, <1>7, BookGoes DEF BookLabels
<1>9. crashes = 0 => store.closed[o] = u.rec.filled + u.units /\ store.opened[o] = u.rec.filled
  BY <1>1, Facts DEF CountOK
<1> HIDE DEF u, LetGo
<1>10. crashes = 0 => CountOK(broker, store', LetGo, m)
  BY <1>4, <1>6, <1>9 DEF CountOK, Booked
<1>11. crashes = 0 => LedgerFits(broker, store, store', LetGo, o, u, m)
  <2>1. SUFFICES ASSUME crashes = 0 PROVE LedgerFits(broker, store, store', LetGo, o, u, m)
    OBVIOUS
  <2>2. BooksOK(broker, store, LetGo, u) BY <2>1, Facts DEF u
  <2>3. store'.opened[o] = u.rec.filled + u.units
    BY <2>1, <1>6, <1>9
  <2>4. m.pc \in Mid /\ u.pc \notin FreezeLabels \cup Hand \cup {"ackUnknown"}
    BY <1>1, <1>4 DEF Mid, Hand, FreezeLabels, BookLabels
  <2> QED BY <2>2, <2>3, <2>4, <1>2, <1>4, <1>6 DEF LedgerFits, BooksOK
<1>12. todo = {} \/ (m.pc # "idle" => m.pc \in BootLabels /\ m.ret = "idle" /\ m.order \notin todo)
  BY <1>2, <1>4, <1>8
<1> QED BY <1>1, <1>2, <1>4, <1>5, <1>7, <1>a, <1>8, <1>10, <1>11, <1>12, LedgerMoves DEF u

LEMMA ApplySaveKeeps ==
  ASSUME IInv, CInv, NEW t, Threads = {t}, ApplySave(t)
  PROVE  IInv' /\ CInv'
<1> DEFINE u == th[t]
           o == u.order
           c == u.copy
           p == IF u.res = "FILLED" THEN "pop" ELSE "savePart"
           m == [[u EXCEPT !.copy = EmptyStore] EXCEPT !.pc = p]
           moved == [c EXCEPT !.moved = [c.moved EXCEPT ![o] = c.moved[o] + u.units]]
<1>1. /\ up /\ u.pc = "applySave" /\ u.pc \in BookLabels
      /\ Writes(t, m, IF u.rec.strikes THEN moved ELSE c)
  BY DEF ApplySave, At, BookLabels
<1>2. /\ u \in Local /\ o \in Orders /\ store \in Store /\ store.pending[o].kept
      /\ u.rec = store.pending[o] /\ store.subs[broker[o].ref].order # NoOrder
      /\ u.rec.filled + u.units <= broker[o].close /\ u.rec.filled + u.units <= broker[o].open
      /\ u.rec.filled \in Nat /\ u.units \in Nat /\ u.units > 0
      /\ u.res \in {"FILLED", "WORKING"} /\ broker[o] \in Roll
      /\ u.res = "FILLED" => u.rec.filled + u.units = Qty
      /\ todo = {} \/ (u.ret = "idle" /\ o \notin todo)
  BY <1>1, BookFacts
<1>3. c \in Store /\ SameStore(c, store)
  BY <1>1, <1>2, Facts DEF LocalOK, StatusOK, CopyLabels, Local
<1>4. store' = IF u.rec.strikes THEN moved ELSE c
  BY <1>1 DEF Writes
<1>5. moved \in Store
      /\ moved.subs = c.subs /\ moved.pending = c.pending /\ moved.closed = c.closed
      /\ moved.opened = c.opened /\ moved.review = c.review
      /\ \A q \in Orders \ {o} : moved.moved[q] = c.moved[q]
  <2> HIDE DEF c, u
  <2>1. u.units \in Nat /\ c \in Store /\ o \in Orders BY <1>2, <1>3
  <2> QED BY <2>1 DEF Store
<1> HIDE DEF moved
<1>6. store' \in Store
  BY <1>3, <1>4, <1>5
<1>7. /\ store'.closed = store.closed /\ store'.opened = store.opened
      /\ \A q \in Orders \ {o} : store'.moved[q] = store.moved[q]
      /\ Filed(store, store')
  BY <1>3, <1>4, <1>5 DEF SameStore, Filed
<1>8. Writes(t, m, store')
  BY <1>1, <1>4 DEF Writes
<1>9. p \in {"pop", "savePart"} /\ (p = "pop" => u.res = "FILLED") /\ (p = "savePart" => u.res = "WORKING")
  BY <1>2
<1>10. m \in Local /\ m.pc = p /\ m.order = o /\ m.ref = u.ref /\ m.rec = u.rec
      /\ m.units = u.units /\ m.res = u.res /\ m.ret = u.ret
  <2>1. EmptyStore \in Store BY IdleOK
  <2> HIDE DEF u, p
  <2> QED BY <2>1, <1>2, <1>9 DEF Local, Labels
<1> HIDE DEF m, p
<1>11. LocalOK(broker, store', LetGo, m) /\ m.pc \in BootLabels
  BY <1>1, <1>7, <1>9, <1>10, BookGoes DEF BookLabels
<1>12. crashes = 0 => Booked(store, o, u.rec.filled + u.units)
  BY <1>1, Facts DEF CountOK
<1> HIDE DEF u, c, LetGo
<1>13. broker[o].close \in 0..Qty /\ broker[o].open \in 0..Qty /\ Qty \in Nat
  BY <1>2, RollConstants DEF Roll
<1>14. crashes = 0 => CountOK(broker, store', LetGo, m)
  <2>1. CASE p = "savePart"
    BY <2>1, <1>7, <1>10, <1>12 DEF CountOK, Booked
  <2>2. CASE p = "pop"
    <3>1. u.res = "FILLED" /\ u.rec.filled + u.units = Qty BY <2>2, <1>9, <1>2
    <3>2. broker[o].close = Qty /\ broker[o].open = Qty BY <3>1, <1>2, <1>13
    <3> QED BY <3>1, <3>2, <2>2, <1>7, <1>10, <1>12 DEF CountOK, Booked
  <2> QED BY <2>1, <2>2, <1>9
<1>15. crashes = 0 => LedgerFits(broker, store, store', LetGo, o, u, m)
  <2>1. SUFFICES ASSUME crashes = 0 PROVE LedgerFits(broker, store, store', LetGo, o, u, m)
    OBVIOUS
  <2>2. BooksOK(broker, store, LetGo, u) BY <2>1, Facts DEF u
  <2>3. broker[o].close > 0 /\ broker[o].open > 0
    BY <1>2, <1>13
  <2>4. m.pc \in Mid /\ u.pc \notin FreezeLabels \cup Hand \cup {"ackUnknown"}
    BY <1>1, <1>9, <1>10 DEF Mid, Hand, FreezeLabels, BookLabels
  <2> QED BY <2>2, <2>3, <2>4, <1>2, <1>7, <1>10 DEF LedgerFits, BooksOK
<1>16. todo = {} \/ (m.pc # "idle" => m.pc \in BootLabels /\ m.ret = "idle" /\ m.order \notin todo)
  BY <1>2, <1>10, <1>11
<1> QED BY <1>1, <1>2, <1>6, <1>7, <1>8, <1>10, <1>11, <1>14, <1>15, <1>16, LedgerMoves DEF u

LEMMA FreezeSaveKeeps ==
  ASSUME IInv, CInv, NEW t, Threads = {t}, FreezeSave(t)
  PROVE  IInv' /\ CInv'
<1> DEFINE u == th[t]
           o == u.order
           c == u.copy
           p == IF u.res = "LEG_IMBALANCE" THEN "sync" ELSE "idle"
           m == [[u EXCEPT !.copy = EmptyStore] EXCEPT !.pc = p]
<1>1. /\ up /\ u.pc = "freezeSave" /\ u.pc \in FreezeLabels /\ u.pc \in BootLabels
      /\ Writes(t, m, [c EXCEPT !.review = TRUE])
  BY DEF FreezeSave, At, FreezeLabels, BootLabels
<1>2. /\ u \in Local /\ StatusOK(broker, store, u) /\ store \in Store /\ BrokerOK(broker)
      /\ StoreOK(broker, store, LetGo)
      /\ todo = {} \/ u.ret = "idle"
      /\ todo = {} \/ o \notin todo
  BY <1>1, Facts DEF LocalOK, SweepOK
<1>3. c \in Store /\ SameStore(c, store)
  BY <1>1, <1>2 DEF StatusOK, CopyLabels, Local
<1>4. store' = [c EXCEPT !.review = TRUE]
  BY <1>1 DEF Writes
<1>5. store' \in Store
      /\ store'.subs = c.subs /\ store'.pending = c.pending /\ store'.closed = c.closed
      /\ store'.opened = c.opened /\ store'.moved = c.moved /\ store'.review
  <2> HIDE DEF c
  <2> QED BY <1>3, <1>4 DEF Store
<1>7. /\ store'.closed = store.closed /\ store'.opened = store.opened
      /\ store'.moved = store.moved /\ store'.pending = store.pending
      /\ Filed(store, store')
  BY <1>3, <1>5 DEF SameStore, Filed
<1>8. Writes(t, m, store')
  BY <1>1, <1>4
<1>9. p \in {"sync", "idle"} /\ (p = "sync" <=> u.res = "LEG_IMBALANCE")
  OBVIOUS
<1>10. m \in Local /\ m.pc = p /\ m.order = o /\ m.ref = u.ref /\ m.rec = u.rec
      /\ m.units = u.units /\ m.res = u.res /\ m.ret = u.ret
  <2>1. EmptyStore \in Store BY IdleOK
  <2> HIDE DEF u, p
  <2> QED BY <2>1, <1>2, <1>9 DEF Local, Labels
<1> HIDE DEF m, p, u, c, LetGo
<1>11. /\ o \in Orders /\ Over(broker, o) /\ ~store.pending[o].kept
       /\ u.ret = "syncSub" => u.ref \in Refs /\ broker[o].ref = u.ref
       /\ u.res = "LEG_IMBALANCE" => /\ Current(broker, store, o) /\ u.rec.ref = broker[o].ref
                                     /\ u.res \in Ends
  BY <1>1, <1>2 DEF StatusOK, Ends, Resolved
<1>12. LocalOK(broker, store', LetGo, m)
  <2>1. CASE p = "idle" BY <2>1, <1>10, ByLabel
  <2>2. CASE p = "sync"
    <3>1. Current(broker, store', o) BY <2>2, <1>2, <1>7, <1>9, <1>11, FiledStore
    <3>2. StatusOK(broker, store', m)
      BY <3>1, <2>2, <1>7, <1>9, <1>10, <1>11
         DEF StatusOK, KnownLabels, BookLabels, FreezeLabels, CopyLabels
    <3> QED BY <3>2, <2>2, <1>10, ByLabel DEF BootLabels
  <2> QED BY <2>1, <2>2, <1>9
<1>13. CountOK(broker, store', LetGo, m)
  BY <1>9, <1>10, Uncounted DEF Counted
<1>14. crashes = 0 => LedgerFits(broker, store, store', LetGo, o, u, m)
  <2>1. SUFFICES ASSUME crashes = 0 PROVE LedgerFits(broker, store, store', LetGo, o, u, m)
    OBVIOUS
  <2>2. BooksOK(broker, store, LetGo, u) BY <2>1, Facts DEF u
  <2>3. EndedWell(broker, store', o) BY <1>5, <1>11 DEF EndedWell
  <2>4. u.pc \notin Mid \cup Hand \cup {"ackUnknown"}
    BY <1>1 DEF Mid, Hand, FreezeLabels, BookLabels
  <2> QED BY <2>2, <2>3, <2>4, <1>7, <1>11 DEF LedgerFits, BooksOK, Booked
<1>15. todo = {} \/ (m.pc # "idle" => m.pc \in BootLabels /\ m.ret = "idle" /\ m.order \notin todo)
  BY <1>2, <1>9, <1>10 DEF BootLabels
<1> QED BY <1>1, <1>5, <1>7, <1>8, <1>10, <1>11, <1>12, <1>13, <1>14, <1>15, LedgerMoves DEF u

-----------------------------------------------------------------------------
(* The record is stamped, and an order enters.                             *)

LEMMA EnteredType ==
  /\ Entered \in Nat
  /\ IsFiniteSet({o \in Orders : broker[o].status # NoState})
<1>1. IsFiniteSet(Orders)
  BY RollConstants, FS_Interval DEF Orders
<1>2. IsFiniteSet({o \in Orders : broker[o].status # NoState})
  BY <1>1, FS_Subset
<1> QED BY <1>2, FS_CardinalityType DEF Entered

LEMMA SaveSubmittingKeeps ==
  ASSUME IInv, CInv, NEW t, Threads = {t}, SaveSubmitting(t)
  PROVE  IInv' /\ CInv'
<1> DEFINE u == th[t]
           r == u.ref
           new == [status |-> "SUBMITTING", order |-> NoOrder, floor |-> Entered, aged |-> FALSE]
           m == [u EXCEPT !.pc = "send"]
<1>1. /\ up /\ u.pc = "saveSub" /\ Writes(t, m, [store EXCEPT !.subs[r] = new])
  BY DEF SaveSubmitting, At
<1>2. /\ u \in Local /\ PlaceOK(broker, store, u) /\ store \in Store /\ broker \in BrokerType
      /\ StoreOK(broker, store, LetGo) /\ BrokerOK(broker) /\ Numbered /\ faults \in Nat
  BY Facts DEF LocalOK
<1>3. todo = {}
  BY <1>1, NotBooting DEF BootLabels, KnownLabels, BookLabels, FreezeLabels
<1>4. r \in Refs /\ store.subs[r].status \in {NoState, "NOT_PLACED"}
  BY <1>1, <1>2 DEF PlaceOK, PlaceLabels
<1>5. new \in Submission
  BY EnteredType DEF Submission, SubStates
<1>6. store' = [store EXCEPT !.subs = [store.subs EXCEPT ![r] = new]]
      /\ Step(t, m) /\ UNCHANGED <<broker, process, history, crashes>> /\ faults' = faults
  BY <1>1 DEF Writes, bounds
<1>7. /\ new.status = "SUBMITTING" /\ new.order = NoOrder /\ new.floor = Entered /\ ~new.aged
  OBVIOUS
<1> HIDE DEF new
<1>8. /\ store' \in Store /\ store'.subs[r] = new
      /\ \A q \in Refs \ {r} : store'.subs[q] = store.subs[q]
      /\ store'.pending = store.pending /\ store'.closed = store.closed
      /\ store'.opened = store.opened /\ store'.moved = store.moved /\ store'.review = store.review
  BY <1>2, <1>4, <1>5, <1>6 DEF Store
<1>9. m \in Local /\ m.pc = "send" /\ m.ref = r
  BY <1>2 DEF Local, Labels
<1>a. \A p \in Orders : broker[p].ref = r =>
        /\ Sent(broker, p) /\ p <= Entered
        /\ ~store.pending[p].kept
        /\ p \in LetGo \/ Over(broker, p)
  <2> SUFFICES ASSUME NEW p \in Orders, broker[p].ref = r
      PROVE  /\ Sent(broker, p) /\ p <= Entered
             /\ ~store.pending[p].kept
             /\ p \in LetGo \/ Over(broker, p)
    OBVIOUS
  <2>1. Sent(broker, p) /\ p <= Entered
    BY <1>2, <1>4 DEF BrokerOK, Numbered
  <2>2. OrderOK(broker, store, LetGo, p) BY <1>2 DEF StoreOK
  <2>3. ~store.pending[p].kept
    BY <2>2, <1>4 DEF OrderOK, Current, NoState
  <2>4. p \in LetGo \/ ~Live(broker, p)
    BY <2>1, <2>2, <1>4 DEF OrderOK, NoState
  <2>5. Live(broker, p) \/ Over(broker, p)
    BY <2>1, <1>2 DEF Sent, Live, Over, BrokerType, Roll
  <2> QED BY <2>1, <2>3, <2>4, <2>5
<1>b. \A p \in Orders : ~Sent(broker, p) => Entered < p
  BY <1>2, EnteredType DEF Numbered, Orders
<1> HIDE DEF u, m, LetGo
<1>c. /\ \A p, q : q \in Refs \ {r} => (Above(broker, store', p, q) <=> Above(broker, store, p, q))
      /\ \A p : ~Above(broker, store', p, r)
  <2>1. \A p, q : q \in Refs \ {r} => (Above(broker, store', p, q) <=> Above(broker, store, p, q))
    BY <1>8 DEF Above
  <2>2. ASSUME NEW p, Above(broker, store', p, r) PROVE FALSE
    <3>1. p \in Orders /\ broker[p].ref = r /\ Entered < p
      BY <2>2, <1>7, <1>8 DEF Above, Sent
    <3>2. p <= Entered BY <3>1, <1>a
    <3> QED BY <3>1, <3>2, EnteredType DEF Orders
  <2> QED BY <2>1, <2>2
<1>d. StoreOK(broker, store', LetGo)
  <2>1. ASSUME NEW q \in Refs PROVE RefOK(broker, store', q)
    <3>1. RefOK(broker, store, q) BY <1>2 DEF StoreOK
    <3>2. CASE q # r
      <4>1. store'.subs[q] = store.subs[q] BY <3>2, <1>8
      <4> QED BY <4>1, <3>1, <3>2, <1>c DEF RefOK
    <3>3. CASE q = r
      BY <3>3, <1>7, <1>8, <1>b, <1>c DEF RefOK
    <3> QED BY <3>2, <3>3
  <2>2. ASSUME NEW p \in Orders PROVE OrderOK(broker, store', LetGo, p)
    <3>1. OrderOK(broker, store, LetGo, p) BY <1>2 DEF StoreOK
    <3>2. CASE broker[p].ref \in Refs \ {r}
      <4>1. store'.subs[broker[p].ref] = store.subs[broker[p].ref] BY <3>2, <1>8
      <4> QED BY <4>1, <3>1, <3>2, <1>8, <1>c DEF OrderOK, Current
    <3>3. CASE broker[p].ref = r
      BY <3>3, <1>a, <1>7, <1>8 DEF OrderOK
    <3>4. CASE broker[p].ref \notin Refs
      <4>1. ~Sent(broker, p) BY <3>4, <1>2 DEF BrokerOK
      <4>2. ~store.pending[p].kept BY <4>1, <3>1 DEF OrderOK, Current, Above
      <4> QED BY <4>1, <4>2, <1>8 DEF OrderOK
    <3> QED BY <3>2, <3>3, <3>4
  <2> QED BY <2>1, <2>2 DEF StoreOK
<1>e. LocalOK(broker, store', LetGo, m) /\ m.pc \notin Counted
  <2>1. PlaceOK(broker, store', m)
    BY <1>4, <1>7, <1>8, <1>9, <1>c DEF PlaceOK, NoId, NoneAbove
  <2> QED BY <2>1, <1>9, ByLabel DEF PlaceLabels, Counted
<1>f. crashes = 0 => BooksOK(broker, store', LetGo, m)
  <2>1. SUFFICES ASSUME crashes = 0, NEW p \in Orders
        PROVE  /\ store'.closed[p] <= broker[p].close /\ store'.closed[p] <= broker[p].open
               /\ store'.opened[p] <= broker[p].close /\ store'.opened[p] <= broker[p].open
               /\ store'.moved[p] > 0 => broker[p].close > 0 /\ broker[p].open > 0
               /\ Above(broker, store', p, broker[p].ref) /\ store'.subs[broker[p].ref].order = NoOrder
                    => Booked(store', p, 0)
               /\ store'.pending[p].kept => Booked(store', p, store'.pending[p].filled)
               /\ Sent(broker, p) /\ ~store'.pending[p].kept /\ p \notin LetGo =>
                    EndedWell(broker, store', p) \/ InHand(broker, store', m, p)
    BY DEF BooksOK
  <2>2. BooksOK(broker, store, LetGo, u) BY <2>1, Facts DEF u
  <2>3. u.pc \notin Mid \cup Hand \cup FreezeLabels \cup {"ackUnknown"}
    BY <1>1 DEF u, Mid, Hand, FreezeLabels, BookLabels
  <2>4. /\ store'.closed[p] <= broker[p].close /\ store'.closed[p] <= broker[p].open
        /\ store'.opened[p] <= broker[p].close /\ store'.opened[p] <= broker[p].open
        /\ store'.moved[p] > 0 => broker[p].close > 0 /\ broker[p].open > 0
        /\ store'.pending[p].kept => Booked(store', p, store'.pending[p].filled)
    BY <2>2, <2>3, <1>8 DEF BooksOK, Booked, Mid
  <2>5. EndedWell(broker, store, p) => EndedWell(broker, store', p)
    BY <1>8 DEF EndedWell, Booked
  <2>6. CASE broker[p].ref \in Refs \ {r}
    <3>1. store'.subs[broker[p].ref] = store.subs[broker[p].ref] BY <2>6, <1>8
    <3>2. InHand(broker, store, u, p) => InHand(broker, store', m, p)
      BY <3>1, <2>3, <2>6, <1>c DEF InHand, Hand
    <3> QED BY <3>1, <3>2, <2>2, <2>4, <2>5, <2>6, <1>8, <1>c DEF BooksOK, Booked
  <2>7. CASE broker[p].ref = r
    <3>1. ~InHand(broker, store, u, p)
      BY <2>3, <2>7, <1>4 DEF InHand, Hand, NoState
    <3> QED BY <3>1, <2>2, <2>4, <2>5, <2>7, <1>8, <1>c DEF BooksOK
  <2>8. CASE broker[p].ref \notin Refs
    <3>1. ~Sent(broker, p) BY <2>8, <1>2 DEF BrokerOK
    <3> QED BY <3>1, <2>4 DEF Above
  <2> QED BY <2>6, <2>7, <2>8
<1>g. faults' \in Nat BY <1>2, <1>6
<1> QED BY <1>1, <1>3, <1>6, <1>8, <1>9, <1>d, <1>e, <1>f, <1>g, Uncounted, StoreMoves DEF u

\* Order o, sent for r, is the newest the broker knows.
Entry(b, c, o, r) ==
  /\ ~Sent(b, o) /\ Sent(c, o) /\ Live(c, o)
  /\ c[o].ref = r /\ c[o].close = 0 /\ c[o].open = 0
  /\ \A p \in Orders \ {o} : c[p] = b[p]

LEMMA EntryMade ==
  ASSUME broker \in BrokerType, BrokerOK(broker), Numbered, NEW r \in Refs, NEW o \in Orders,
         Enters(o, r)
  PROVE  broker' \in BrokerType /\ BrokerOK(broker') /\ Numbered' /\ Entry(broker, broker', o, r)
<1>1. o = Entered + 1 /\ broker' = [broker EXCEPT ![o] = NewRoll(r)]
  BY DEF Enters, Unused
<1>2. NewRoll(r) \in Roll
  BY RollConstants DEF NewRoll, Roll, RawLive
<1>3. broker' \in BrokerType
  BY <1>1, <1>2 DEF BrokerType
<1>4. Entered \in Nat /\ IsFiniteSet({p \in Orders : broker[p].status # NoState})
  BY EnteredType
<1>5. ~Sent(broker, o)
  <2>1. ~(o <= Entered) BY <1>1, <1>4
  <2> QED BY <2>1 DEF Numbered
<1>6. \A p \in Orders \ {o} : broker'[p] = broker[p]
  BY <1>1 DEF BrokerType
<1>7. broker'[o] = NewRoll(r)
  BY <1>1 DEF BrokerType
<1>8. /\ broker'[o].status = "WORKING" /\ broker'[o].ref = r
      /\ broker'[o].close = 0 /\ broker'[o].open = 0
  BY <1>7 DEF NewRoll
<1>9. Entry(broker, broker', o, r)
  BY <1>5, <1>6, <1>8 DEF Entry, Sent, Live, RawLive, NoState
<1>10. BrokerOK(broker')
  <2> SUFFICES ASSUME NEW p \in Orders
      PROVE  /\ Sent(broker', p) <=> broker'[p].ref \in Refs
             /\ ~Sent(broker', p) => broker'[p].close = 0 /\ broker'[p].open = 0
             /\ broker'[p].status = "FILLED" <=> broker'[p].close = Qty /\ broker'[p].open = Qty
    BY DEF BrokerOK
  <2>1. CASE p = o
    BY <2>1, <1>8, RollConstants DEF Sent, NoState
  <2>2. CASE p # o
    BY <2>2, <1>6 DEF BrokerOK, Sent
  <2> QED BY <2>1, <2>2
<1>11. Entered' = Entered + 1
  <2> DEFINE S == {p \in Orders : broker[p].status # NoState}
             T == {p \in Orders : broker'[p].status # NoState}
  <2>1. o \notin S BY <1>5 DEF Sent
  <2>2. T = S \cup {o}
    BY <1>6, <1>8 DEF NoState
  <2> HIDE DEF S
  <2>3. Cardinality(S \cup {o}) = Cardinality(S) + 1
    BY <2>1, <1>4, FS_AddElement DEF S
  <2> QED BY <2>2, <2>3 DEF Entered, S
<1>12. Numbered'
  <2> SUFFICES ASSUME NEW p \in Orders PROVE Sent(broker', p) <=> p <= Entered'
    BY DEF Numbered
  <2>1. CASE p = o
    BY <2>1, <1>1, <1>4, <1>9, <1>11 DEF Entry
  <2>2. CASE p # o
    <3>1. Sent(broker', p) <=> Sent(broker, p) BY <2>2, <1>6 DEF Sent
    <3>2. Sent(broker, p) <=> p <= Entered BY DEF Numbered
    <3>3. p \in Nat BY DEF Orders
    <3> QED BY <2>2, <3>1, <3>2, <3>3, <1>1, <1>4, <1>11
  <2> QED BY <2>1, <2>2
<1> QED BY <1>3, <1>9, <1>10, <1>12

LEMMA EntryAbove ==
  ASSUME NEW b, NEW c, NEW s, NEW f, NEW o \in Orders, NEW r \in Refs, Entry(b, c, o, r),
         StoreOK(b, s, f)
  PROVE  /\ \A p, q : p # o => (Above(c, s, p, q) <=> Above(b, s, p, q))
         /\ \A q : Above(c, s, o, q) <=> q = r
         /\ \A q : ~Above(b, s, o, q)
<1>1. s.subs[r].floor < o
  BY DEF Entry, StoreOK, RefOK
<1> QED BY <1>1 DEF Above, Sent, Entry

LEMMA EntryStore ==
  ASSUME NEW b, NEW c, NEW s \in Store, NEW f, NEW o \in Orders, NEW r \in Refs, Entry(b, c, o, r),
         StoreOK(b, s, f), NoneAbove(b, s, r), NoId(s, r, "SUBMITTING")
  PROVE  StoreOK(c, s, f)
<1>1. /\ \A p, q : p # o => (Above(c, s, p, q) <=> Above(b, s, p, q))
      /\ \A q : Above(c, s, o, q) <=> q = r
      /\ \A q : ~Above(b, s, o, q)
  BY EntryAbove
<1>2. \A p \in Orders \ {o} : c[p] = b[p]
  BY DEF Entry
<1>3. ASSUME NEW q \in Refs PROVE RefOK(c, s, q)
  <2>1. RefOK(b, s, q) BY DEF StoreOK
  <2>2. \A p \in Orders : ~Sent(c, p) => s.subs[q].floor < p
    BY <2>1, <1>2 DEF RefOK, Sent, Entry
  <2>3. \A p, x \in Orders : Above(c, s, p, q) /\ Above(c, s, x, q) => p = x
    BY <2>1, <1>1 DEF RefOK, NoneAbove
  <2>4. s.subs[q].order # NoOrder => Above(c, s, s.subs[q].order, q)
    <3>1. s.subs[q].order # NoOrder => s.subs[q].order # o
      BY <2>1, <1>1 DEF RefOK
    <3> QED BY <3>1, <2>1, <1>1 DEF RefOK
  <2>5. s.subs[q].aged => \A p \in Orders : c[p].ref = q => c[p].listed
    <3>1. CASE q = r
      BY <3>1, <2>1 DEF RefOK, NoId
    <3>2. CASE q # r
      BY <3>2, <2>1, <1>2 DEF RefOK, Entry
    <3> QED BY <3>1, <3>2
  <2> QED BY <2>1, <2>2, <2>3, <2>4, <2>5 DEF RefOK
<1>4. ASSUME NEW p \in Orders PROVE OrderOK(c, s, f, p)
  <2>1. OrderOK(b, s, f, p) BY DEF StoreOK
  <2>2. CASE p # o
    <3>1. c[p] = b[p] BY <2>2, <1>2
    <3> QED BY <2>1, <2>2, <3>1, <1>1 DEF OrderOK, Current, Sent, Live, Over
  <2>3. CASE p = o
    <3>1. ~s.pending[o].kept BY <2>1, <2>3, <1>1 DEF OrderOK, Current
    <3>2. s.subs[r].floor < o BY <1>1 DEF Above
    <3>3. ~(o <= s.subs[r].floor)
      <4>1. s.subs[r].floor \in Nat BY DEF Store, Submission
      <4> QED BY <3>2, <4>1 DEF Orders
    <3> QED BY <3>1, <3>3, <2>3 DEF OrderOK, Entry, NoId
  <2> QED BY <2>2, <2>3
<1> QED BY <1>3, <1>4 DEF StoreOK

\* The thread that sent it, and what it has to write about it.
Sends(l, m, o) ==
  /\ l.pc = "send" /\ m.ref = l.ref
  /\ \/ m.pc = "ackId" /\ m.order = o
     \/ m.pc = "ackUnknown"

LEMMA EntryLocal ==
  ASSUME NEW b, NEW c, NEW s \in Store, NEW f, NEW o \in Orders, NEW l, NEW m,
         StoreOK(b, s, f), LocalOK(b, s, f, l), Entry(b, c, o, l.ref), Sends(l, m, o)
  PROVE  LocalOK(c, s, f, m) /\ l.ref \in Refs /\ NoneAbove(b, s, l.ref) /\ NoId(s, l.ref, "SUBMITTING")
<1>1. l.ref \in Refs /\ NoneAbove(b, s, l.ref) /\ NoId(s, l.ref, "SUBMITTING")
  BY DEF LocalOK, PlaceOK, PlaceLabels, Sends
<1>2. Above(c, s, o, l.ref)
  BY <1>1, EntryAbove
<1>3. PlaceOK(c, s, m) /\ m.pc \in PlaceLabels
  BY <1>1, <1>2 DEF Sends, PlaceOK, PlaceLabels
<1> QED BY <1>1, <1>3, ByLabel

LEMMA EntryBooks ==
  ASSUME NEW b, NEW c, NEW s \in Store, NEW f, NEW o \in Orders, NEW r \in Refs, NEW l, NEW m,
         Entry(b, c, o, r), BrokerOK(b), StoreOK(b, s, f), BooksOK(b, s, f, l),
         Sends(l, m, o), l.ref = r
  PROVE  BooksOK(c, s, f, m) /\ CountOK(c, s, f, m)
<1>1. /\ \A p, q : p # o => (Above(c, s, p, q) <=> Above(b, s, p, q))
      /\ \A q : Above(c, s, o, q) <=> q = r
      /\ \A q : ~Above(b, s, o, q)
  BY EntryAbove
<1>2. \A p \in Orders \ {o} : c[p] = b[p]
  BY DEF Entry
<1>3. /\ s.closed[o] = 0 /\ s.opened[o] = 0 /\ s.moved[o] = 0
      /\ ~s.pending[o].kept
  <2>1. b[o].close = 0 /\ b[o].open = 0 BY DEF BrokerOK, Entry
  <2>2. s.closed[o] \in Nat /\ s.opened[o] \in Nat /\ s.moved[o] \in Nat BY DEF Store
  <2>3. OrderOK(b, s, f, o) BY DEF StoreOK
  <2>4. ~s.pending[o].kept BY <2>3, <1>1 DEF OrderOK, Current
  <2> QED BY <2>1, <2>2, <2>4 DEF BooksOK
<1>4. ASSUME NEW p \in Orders
      PROVE  /\ s.closed[p] <= c[p].close /\ s.closed[p] <= c[p].open
             /\ s.opened[p] <= c[p].close /\ s.opened[p] <= c[p].open
             /\ s.moved[p] > 0 => c[p].close > 0 /\ c[p].open > 0
             /\ Above(c, s, p, c[p].ref) /\ s.subs[c[p].ref].order = NoOrder => Booked(s, p, 0)
             /\ s.pending[p].kept => Booked(s, p, s.pending[p].filled)
             /\ Sent(c, p) /\ ~s.pending[p].kept /\ p \notin f => EndedWell(c, s, p) \/ InHand(c, s, m, p)
  <2>1. CASE p # o
    <3>1. c[p] = b[p] BY <2>1, <1>2
    <3>2. /\ EndedWell(b, s, p) => EndedWell(c, s, p)
          /\ Sent(c, p) => Sent(b, p)
      BY <3>1 DEF EndedWell, Over, Sent
    <3>3. InHand(b, s, l, p) => InHand(c, s, m, p)
      BY <2>1, <3>1, <1>1 DEF InHand, Sends, FreezeLabels
    <3>4. l.pc \notin Mid BY DEF Sends, Mid, BookLabels
    <3> QED BY <2>1, <3>1, <3>2, <3>3, <3>4, <1>1 DEF BooksOK, Mid
  <2>2. CASE p = o
    <3>1. c[o].close = 0 /\ c[o].open = 0 /\ c[o].ref = r BY DEF Entry
    <3>2. Booked(s, o, 0) BY <1>3 DEF Booked
    <3>3. InHand(c, s, m, o) BY <1>1, <3>1 DEF InHand, Sends
    <3> QED BY <2>2, <3>1, <3>2, <3>3, <1>3
  <2> QED BY <2>1, <2>2
<1>5. BooksOK(c, s, f, m)
  BY <1>4 DEF BooksOK
<1>6. CountOK(c, s, f, m)
  BY <1>3 DEF CountOK, Sends, Booked
<1> QED BY <1>5, <1>6

LEMMA SendsKeep ==
  ASSUME IInv, CInv, NEW t, Threads = {t}, SendAccepted(t) \/ SendUnknown(t)
  PROVE  IInv' /\ CInv'
<1> DEFINE u == th[t]
           a(o) == [[u EXCEPT !.pc = "ackId"] EXCEPT !.order = o]
           z == [u EXCEPT !.pc = "ackUnknown"]
<1>1. up /\ u.pc = "send"
  BY DEF SendAccepted, SendUnknown, At
<1>2. /\ u \in Local /\ PlaceOK(broker, store, u) /\ store \in Store /\ broker \in BrokerType
      /\ StoreOK(broker, store, LetGo) /\ BrokerOK(broker) /\ Numbered /\ faults \in Nat
      /\ LocalOK(broker, store, LetGo, u)
      /\ crashes = 0 => BooksOK(broker, store, LetGo, u)
      /\ forced \subseteq Orders /\ cleared \subseteq Orders
  BY Facts DEF LocalOK
<1>3. todo = {}
  BY <1>1, NotBooting DEF BootLabels, KnownLabels, BookLabels, FreezeLabels
<1>4. UNCHANGED <<store, process, history, crashes>>
  BY FaultCounts DEF SendAccepted, SendUnknown, bounds
<1>5. faults' \in Nat
  BY <1>2, FaultCounts DEF SendAccepted, SendUnknown, bounds
<1>6. forced' = forced /\ cleared' = cleared /\ LetGo' = LetGo /\ store' = store
  BY <1>4 DEF history, LetGo
<1>7. z \in Local /\ z.pc = "ackUnknown" /\ z.ref = u.ref
  BY <1>2 DEF Local, Labels
<1>8. \A o \in Orders : a(o) \in Local /\ a(o).pc = "ackId" /\ a(o).ref = u.ref /\ a(o).order = o
  BY <1>2 DEF Local, Labels
<1>9. u.ref \in Refs
  BY <1>1, <1>2 DEF PlaceOK, PlaceLabels
<1>10. \/ \E o \in Orders, m \in Local : Enters(o, u.ref) /\ Step(t, m) /\ Sends(u, m, o)
       \/ broker' = broker /\ Step(t, z)
  <2>1. \/ \E o \in Orders : Enters(o, u.ref) /\ Step(t, a(o))
        \/ \E o \in Orders : Enters(o, u.ref) /\ Step(t, z)
        \/ broker' = broker /\ Step(t, z)
    BY DEF SendAccepted, SendUnknown
  <2> HIDE DEF a, z, u
  <2> QED BY <2>1, <1>1, <1>7, <1>8 DEF Sends
<1> HIDE DEF a, z, u, LetGo
<1>11. CASE \E o \in Orders, m \in Local : Enters(o, u.ref) /\ Step(t, m) /\ Sends(u, m, o)
  <2>1. PICK o \in Orders, m \in Local : Enters(o, u.ref) /\ Step(t, m) /\ Sends(u, m, o)
    BY <1>11
  <2>2. broker' \in BrokerType /\ BrokerOK(broker') /\ Numbered' /\ Entry(broker, broker', o, u.ref)
    BY <1>2, <1>9, <2>1, EntryMade
  <2>3. LocalOK(broker', store, LetGo, m) /\ NoneAbove(broker, store, u.ref)
        /\ NoId(store, u.ref, "SUBMITTING")
    BY <1>2, <2>1, <2>2, EntryLocal
  <2>4. StoreOK(broker', store, LetGo)
    BY <1>2, <1>9, <2>2, <2>3, EntryStore
  <2>5. crashes = 0 => BooksOK(broker', store, LetGo, m) /\ CountOK(broker', store, LetGo, m)
    BY <1>2, <1>9, <2>1, <2>2, EntryBooks
  <2>6. UNCHANGED process /\ UNCHANGED crashes BY <1>4
  <2>7. /\ forced' \subseteq Orders /\ cleared' \subseteq Orders
        /\ store' \in Store /\ StoreOK(broker', store', LetGo')
        /\ LocalOK(broker', store', LetGo', m)
        /\ crashes = 0 => BooksOK(broker', store', LetGo', m) /\ CountOK(broker', store', LetGo', m)
    BY <1>2, <1>6, <2>3, <2>4, <2>5
  <2> QED BY <1>1, <1>3, <1>5, <2>1, <2>2, <2>6, <2>7, ThreadMoves DEF u
<1>12. CASE broker' = broker /\ Step(t, z)
  <2>1. PlaceOK(broker, store, z)
    BY <1>1, <1>2, <1>7 DEF PlaceOK, PlaceLabels
  <2>2. LocalOK(broker, store, LetGo, z) /\ z.pc \notin Counted
    BY <1>7, <2>1, ByLabel DEF PlaceLabels, Counted
  <2>3. Keeps(u, z)
    BY <1>1 DEF Keeps, Mid, Hand, FreezeLabels, BookLabels
  <2> QED BY <1>1, <1>3, <1>4, <1>5, <1>7, <1>12, <2>2, <2>3, Uncounted, LocalMoves DEF u
<1> QED BY <1>10, <1>11, <1>12

-----------------------------------------------------------------------------
(* The broker, time, crashes and the start-up sweep.                       *)

LEMMA ListsGrows ==
  ASSUME NEW o \in Orders, broker \in BrokerType, BrokerOK(broker), BrokerLists(o)
  PROVE  broker' \in BrokerType /\ BrokerOK(broker') /\ BrokerGrows(broker, broker')
<1>1. broker' = [broker EXCEPT ![o].listed = TRUE]
  BY DEF BrokerLists
<1>2. broker' \in BrokerType
  BY <1>1 DEF BrokerType, Roll
<1>3. \A p \in Orders :
        /\ broker'[p].close = broker[p].close /\ broker'[p].open = broker[p].open
        /\ broker'[p].ref = broker[p].ref /\ broker'[p].status = broker[p].status
        /\ broker[p].listed => broker'[p].listed
        /\ broker[p].close \in Nat /\ broker[p].open \in Nat
  BY <1>1, RollConstants DEF BrokerType, Roll
<1>4. BrokerOK(broker') /\ BrokerGrows(broker, broker')
  BY <1>3 DEF BrokerOK, BrokerGrows, Sent, Live, Over
<1> QED BY <1>2, <1>4

LEMMA FillsGrows ==
  ASSUME NEW o \in Orders, broker \in BrokerType, BrokerOK(broker), BrokerFills(o)
  PROVE  broker' \in BrokerType /\ BrokerOK(broker') /\ BrokerGrows(broker, broker')
<1>1. PICK c \in broker[o].close..Qty, p \in broker[o].open..Qty :
        broker' = [broker EXCEPT ![o].close = c, ![o].open = p,
                     ![o].status = IF c + p = 2 * Qty THEN "FILLED" ELSE @]
  BY DEF BrokerFills
<1> DEFINE v == broker[o]
           x == IF c + p = 2 * Qty THEN "FILLED" ELSE v.status
           w == [[[v EXCEPT !.close = c] EXCEPT !.open = p] EXCEPT !.status = x]
<1>2. v \in Roll /\ v.status \in RawLive
  BY DEF BrokerType, BrokerFills, Alive
<1>3. v.close \in Nat /\ v.open \in Nat /\ Qty \in Nat
  BY <1>2, RollConstants DEF Roll
<1>4. c \in 0..Qty /\ p \in 0..Qty /\ v.close <= c /\ v.open <= p
  BY <1>3
<1>5. x \in RawTerminal \cup RawLive \cup {NoState} /\ (x = "FILLED" <=> c = Qty /\ p = Qty)
      /\ x # NoState
  BY <1>2, <1>3, <1>4 DEF RawTerminal, RawLive, NoState
<1>6. broker' = [broker EXCEPT ![o] = w]
  BY <1>1, <1>2 DEF BrokerType, Roll
<1> HIDE DEF x
<1>7. w \in Roll /\ w.close = c /\ w.open = p /\ w.status = x /\ w.ref = v.ref /\ w.listed = v.listed
  <2> HIDE DEF v
  <2> QED BY <1>2, <1>4, <1>5 DEF Roll
<1> HIDE DEF w
<1>8. broker' \in BrokerType /\ broker'[o] = w /\ \A q \in Orders \ {o} : broker'[q] = broker[q]
  BY <1>6, <1>7 DEF BrokerType
<1>9. \A q \in Orders : broker[q].close \in Nat /\ broker[q].open \in Nat
  BY RollConstants DEF BrokerType, Roll
<1>10. v.status # NoState /\ v.status \notin RawTerminal
  BY <1>2 DEF RawLive, RawTerminal, NoState
<1>11. ASSUME NEW q \in Orders
       PROVE  /\ Sent(broker', q) <=> broker'[q].ref \in Refs
              /\ ~Sent(broker', q) => broker'[q].close = 0 /\ broker'[q].open = 0
              /\ broker'[q].status = "FILLED" <=> broker'[q].close = Qty /\ broker'[q].open = Qty
  <2>1. CASE q = o BY <2>1, <1>5, <1>7, <1>8, <1>10 DEF BrokerOK, Sent
  <2>2. CASE q # o BY <2>2, <1>8 DEF BrokerOK, Sent
  <2> QED BY <2>1, <2>2
<1>12. ASSUME NEW q \in Orders
       PROVE  /\ broker[q].ref = broker'[q].ref
              /\ Sent(broker, q) <=> Sent(broker', q)
              /\ Live(broker', q) => Live(broker, q)
              /\ Over(broker, q) => /\ broker'[q].status = broker[q].status
                                    /\ broker'[q].close = broker[q].close
                                    /\ broker'[q].open = broker[q].open
              /\ broker[q].listed => broker'[q].listed
              /\ broker[q].close <= broker'[q].close /\ broker[q].open <= broker'[q].open
  <2>1. CASE q = o BY <2>1, <1>2, <1>4, <1>5, <1>7, <1>8, <1>10 DEF Sent, Live, Over
  <2>2. CASE q # o
    <3>1. broker'[q] = broker[q] BY <2>2, <1>8
    <3> QED BY <3>1, <1>9 DEF Sent, Live, Over
  <2> QED BY <2>1, <2>2
<1> QED BY <1>8, <1>11, <1>12 DEF BrokerOK, BrokerGrows

LEMMA DiesGrows ==
  ASSUME NEW o \in Orders, broker \in BrokerType, BrokerOK(broker), BrokerDies(o)
  PROVE  broker' \in BrokerType /\ BrokerOK(broker') /\ BrokerGrows(broker, broker')
<1>1. PICK x \in {"CANCELED", "EXPIRED", "REJECTED"} : broker' = [broker EXCEPT ![o].status = x]
  BY DEF BrokerDies
<1>2. broker[o] \in Roll /\ broker[o].status \in RawLive
  BY DEF BrokerType, BrokerDies, Alive
<1>3. x \in RawTerminal \cup RawLive \cup {NoState} /\ x # NoState /\ x # "FILLED"
  BY DEF RawTerminal, NoState
<1>4. broker[o].status # NoState /\ broker[o].status \notin RawTerminal /\ broker[o].status # "FILLED"
  BY <1>2 DEF RawLive, RawTerminal, NoState
<1>5. x \notin RawLive BY DEF RawLive
<1>6. broker' \in BrokerType
  BY <1>1, <1>3 DEF BrokerType, Roll
<1>7. \A p \in Orders :
        /\ broker'[p].close = broker[p].close /\ broker'[p].open = broker[p].open
        /\ broker'[p].ref = broker[p].ref /\ broker'[p].listed = broker[p].listed
        /\ broker'[p].status = IF p = o THEN x ELSE broker[p].status
        /\ broker[p].close \in Nat /\ broker[p].open \in Nat
  BY <1>1, RollConstants DEF BrokerType, Roll
<1>8. BrokerOK(broker')
  BY <1>3, <1>4, <1>7 DEF BrokerOK, Sent
<1>9. BrokerGrows(broker, broker')
  BY <1>2, <1>3, <1>4, <1>5, <1>7 DEF BrokerGrows, Sent, Live, Over
<1> QED BY <1>6, <1>8, <1>9

LEMMA BrokerStepKeeps ==
  ASSUME IInv, CInv, NEW o \in Orders, BrokerStep(o)
  PROVE  IInv' /\ CInv'
<1>1. /\ broker \in BrokerType /\ BrokerOK(broker) /\ Numbered /\ store \in Store
      /\ StoreOK(broker, store, LetGo) /\ th \in [Threads -> Local]
      /\ TypeOK /\ SweepOK
      /\ \A t \in Threads : LocalOK(broker, store, LetGo, th[t])
  BY DEF IInv, TypeOK, BrokerType
<1>2. broker' \in BrokerType /\ BrokerOK(broker') /\ BrokerGrows(broker, broker')
  BY <1>1, ListsGrows, FillsGrows, DiesGrows DEF BrokerStep
<1>3. UNCHANGED <<store, th, up, todo, forced, cleared, faults, crashes>>
  BY DEF BrokerStep, process, history, bounds
<1>4. LetGo' = LetGo /\ LetGo \subseteq LetGo
  BY <1>3 DEF LetGo
<1>5. TypeOK'
  BY <1>1, <1>2, <1>3 DEF TypeOK, BrokerType
<1>6. Numbered' /\ SweepOK'
  BY <1>1, <1>2, <1>3, SameNumbers DEF SweepOK
<1> HIDE DEF LetGo
<1>7. StoreOK(broker', store, LetGo)
  BY <1>1, <1>2, <1>4, StoreStable
<1>8. ASSUME NEW t \in Threads PROVE LocalOK(broker', store, LetGo, th[t])
  <2>1. th[t] \in Local BY <1>1
  <2> QED BY <2>1, <1>1, <1>2, <1>4, LocalStable
<1>9. ASSUME crashes = 0, NEW t \in Threads
      PROVE  BooksOK(broker', store, LetGo, th[t]) /\ CountOK(broker', store, LetGo, th[t])
  <2>1. th[t] \in Local BY <1>1
  <2>2. BooksOK(broker, store, LetGo, th[t]) /\ CountOK(broker, store, LetGo, th[t])
    BY <1>9 DEF CInv
  <2>3. BooksOK(broker', store, LetGo, th[t])
    BY <2>1, <2>2, <1>1, <1>2, <1>4, BooksStable
  <2>4. CountOK(broker', store, LetGo, th[t])
    BY <2>1, <2>2, <1>1, <1>2, <1>4, CountStable
  <2> QED BY <2>3, <2>4
<1>10. CInv'
  BY <1>3, <1>4, <1>9 DEF CInv
<1> QED BY <1>2, <1>3, <1>4, <1>5, <1>6, <1>7, <1>8, <1>10 DEF IInv

\* v is s with the record of r grown old.
Aged(s, v, r) ==
  /\ v.pending = s.pending /\ v.closed = s.closed /\ v.opened = s.opened
  /\ v.moved = s.moved /\ v.review = s.review
  /\ \A q \in Refs : /\ v.subs[q].status = s.subs[q].status
                     /\ v.subs[q].order = s.subs[q].order /\ v.subs[q].floor = s.subs[q].floor
                     /\ v.subs[q].aged <=> s.subs[q].aged \/ q = r

LEMMA AgedAbove ==
  ASSUME NEW b, NEW s, NEW v, NEW r, Aged(s, v, r)
  PROVE  /\ \A p, q : q \in Refs => (Above(b, v, p, q) <=> Above(b, s, p, q))
         /\ \A q \in Refs : NoneAbove(b, v, q) <=> NoneAbove(b, s, q)
         /\ \A p : \A q \in Refs : Names(b, v, q, p) <=> Names(b, s, q, p)
         /\ \A x : \A q \in Refs : NoId(v, q, x) <=> NoId(s, q, x)
         /\ BrokerOK(b) => \A p \in Orders : Current(b, v, p) <=> Current(b, s, p)
<1>1. \A p, q : q \in Refs => (Above(b, v, p, q) <=> Above(b, s, p, q))
  BY DEF Above, Aged
<1>2. \A p : \A q \in Refs : Names(b, v, q, p) <=> Names(b, s, q, p)
  BY <1>1 DEF Names, Aged
<1>3. \A x : \A q \in Refs : NoId(v, q, x) <=> NoId(s, q, x)
  BY DEF NoId, Aged
<1>4. \A q \in Refs : NoneAbove(b, v, q) <=> NoneAbove(b, s, q)
  BY <1>1 DEF NoneAbove
<1>5. ASSUME BrokerOK(b), NEW p \in Orders PROVE Current(b, v, p) <=> Current(b, s, p)
  <2>1. CASE b[p].ref \in Refs BY <2>1, <1>1 DEF Current, Aged
  <2>2. CASE b[p].ref \notin Refs BY <2>2, <1>5 DEF Current, Above, BrokerOK
  <2> QED BY <2>1, <2>2
<1> QED BY <1>1, <1>2, <1>3, <1>4, <1>5

LEMMA AgedStore ==
  ASSUME NEW b, NEW s, NEW v, NEW f, NEW r \in Refs, Aged(s, v, r), BrokerOK(b), StoreOK(b, s, f),
         s.subs[r].status \notin {NoState, "SUBMITTING"},
         \A o \in Orders : b[o].ref = r => b[o].listed
  PROVE  StoreOK(b, v, f)
<1>0. /\ \A p, q : q \in Refs => (Above(b, v, p, q) <=> Above(b, s, p, q))
      /\ \A p \in Orders : Current(b, v, p) <=> Current(b, s, p)
  BY AgedAbove
<1>1. /\ v.pending = s.pending
      /\ \A q \in Refs : /\ v.subs[q].status = s.subs[q].status
                         /\ v.subs[q].order = s.subs[q].order
                         /\ v.subs[q].floor = s.subs[q].floor
                         /\ q # r => (v.subs[q].aged <=> s.subs[q].aged)
  BY DEF Aged
<1>2. ASSUME NEW q \in Refs PROVE RefOK(b, v, q)
  <2>1. RefOK(b, s, q) BY DEF StoreOK
  <2>2. \A p : Above(b, v, p, q) <=> Above(b, s, p, q) BY <1>0
  <2>3. CASE q = r BY <2>1, <2>2, <2>3, <1>1 DEF RefOK
  <2>4. CASE q # r BY <2>1, <2>2, <2>4, <1>1 DEF RefOK
  <2> QED BY <2>3, <2>4
<1>3. ASSUME NEW p \in Orders PROVE OrderOK(b, v, f, p)
  <2>1. OrderOK(b, s, f, p) BY DEF StoreOK
  <2>2. Current(b, v, p) <=> Current(b, s, p) BY <1>0
  <2>3. CASE Sent(b, p)
    <3>1. b[p].ref \in Refs BY <2>3 DEF BrokerOK
    <3> QED BY <2>1, <2>2, <3>1, <1>1 DEF OrderOK
  <2>4. CASE ~Sent(b, p) BY <2>1, <2>2, <2>4, <1>1 DEF OrderOK
  <2> QED BY <2>3, <2>4
<1> QED BY <1>2, <1>3 DEF StoreOK

LEMMA AgedLocal ==
  ASSUME NEW b, NEW s, NEW v, NEW f, NEW r \in Refs, NEW l, Aged(s, v, r), BrokerOK(b),
         LocalOK(b, s, f, l)
  PROVE  LocalOK(b, v, f, l)
<1>0. /\ \A p, q : q \in Refs => (Above(b, v, p, q) <=> Above(b, s, p, q))
      /\ \A q \in Refs : NoneAbove(b, v, q) <=> NoneAbove(b, s, q)
      /\ \A p : \A q \in Refs : Names(b, v, q, p) <=> Names(b, s, q, p)
      /\ \A x : \A q \in Refs : NoId(v, q, x) <=> NoId(s, q, x)
      /\ \A p \in Orders : Current(b, v, p) <=> Current(b, s, p)
  BY AgedAbove
<1>1. /\ v.pending = s.pending
      /\ \A q \in Refs : /\ v.subs[q].status = s.subs[q].status
                         /\ v.subs[q].order = s.subs[q].order
      /\ \A x : \A q \in Refs : SameSub(x, s.subs[q]) => SameSub(x, v.subs[q])
      /\ \A c : SameStore(c, s) => SameStore(c, v)
  BY DEF Aged, SameSub, SameStore
<1>2. PlaceOK(b, v, l)
  BY <1>0, <1>1 DEF LocalOK, PlaceOK, PlaceLabels
<1>3. CheckOK(b, v, l)
  BY <1>0, <1>1 DEF LocalOK, CheckOK, CheckLabels
<1>4. StatusOK(b, v, l)
  <2>1. StatusOK(b, s, l) BY DEF LocalOK
  <2> QED BY <2>1, <1>0, <1>1 DEF StatusOK, BootLabels
<1>5. CancelOK(b, v, l)
  BY <1>1 DEF LocalOK, CancelOK
<1>6. ClearOK(b, v, f, l)
  BY <1>0, <1>1 DEF LocalOK, ClearOK, ClearLabels
<1> QED BY <1>2, <1>3, <1>4, <1>5, <1>6 DEF LocalOK

LEMMA AgedBooks ==
  ASSUME NEW b, NEW s, NEW v, NEW f, NEW r \in Refs, NEW l, Aged(s, v, r), BrokerOK(b),
         BooksOK(b, s, f, l), CountOK(b, s, f, l)
  PROVE  BooksOK(b, v, f, l) /\ CountOK(b, v, f, l)
<1>0. \A p, q : q \in Refs => (Above(b, v, p, q) <=> Above(b, s, p, q))
  BY AgedAbove
<1>1. /\ v.pending = s.pending /\ v.closed = s.closed /\ v.opened = s.opened /\ v.moved = s.moved
      /\ \A p, n : Booked(v, p, n) <=> Booked(s, p, n)
      /\ \A p : EndedWell(b, v, p) <=> EndedWell(b, s, p)
      /\ \A p \in Orders : Sent(b, p) => /\ b[p].ref \in Refs
                             /\ v.subs[b[p].ref].status = s.subs[b[p].ref].status
                             /\ v.subs[b[p].ref].order = s.subs[b[p].ref].order
  BY DEF Aged, Booked, EndedWell, BrokerOK
<1>2. \A p \in Orders : Sent(b, p) /\ InHand(b, s, l, p) => InHand(b, v, l, p)
  BY <1>0, <1>1 DEF InHand
<1>3. \A p \in Orders : Above(b, v, p, b[p].ref) => Sent(b, p) /\ Above(b, s, p, b[p].ref)
  BY <1>0, <1>1 DEF Above
<1>4. BooksOK(b, v, f, l)
  BY <1>1, <1>2, <1>3 DEF BooksOK
<1>5. CountOK(b, v, f, l)
  BY <1>1 DEF CountOK
<1> QED BY <1>4, <1>5

LEMMA AgeKeeps ==
  ASSUME IInv, CInv, NEW r \in Refs, Age(r)
  PROVE  IInv' /\ CInv'
<1> DEFINE new == [store.subs[r] EXCEPT !.aged = TRUE]
<1>1. /\ store.subs[r].status \notin {NoState, "SUBMITTING"}
      /\ \A o \in Orders : broker[o].ref = r => broker[o].listed
      /\ store' = [store EXCEPT !.subs = [store.subs EXCEPT ![r] = new]]
      /\ UNCHANGED <<broker, th, up, todo, forced, cleared, faults, crashes>>
  BY DEF Age, SentFor, process, history, bounds
<1>2. /\ BrokerOK(broker) /\ Numbered /\ store \in Store
      /\ StoreOK(broker, store, LetGo) /\ TypeOK /\ SweepOK
      /\ \A t \in Threads : LocalOK(broker, store, LetGo, th[t])
  BY DEF IInv, TypeOK
<1>3. store.subs[r] \in Submission BY <1>2 DEF Store
<1>4. /\ new \in Submission /\ new.status = store.subs[r].status /\ new.order = store.subs[r].order
      /\ new.floor = store.subs[r].floor /\ new.aged
  BY <1>3 DEF Submission
<1> HIDE DEF new
<1>5. store' \in Store /\ Aged(store, store', r)
  BY <1>1, <1>2, <1>4 DEF Store, Aged
<1>6. LetGo' = LetGo /\ Numbered'
  BY <1>1, <1>2 DEF LetGo, Numbered, Entered
<1>7. TypeOK' /\ SweepOK'
  BY <1>1, <1>2, <1>5 DEF TypeOK, SweepOK, Aged
<1> HIDE DEF LetGo
<1>8. StoreOK(broker, store', LetGo)
  BY <1>1, <1>2, <1>5, AgedStore
<1>9. \A t \in Threads : LocalOK(broker, store', LetGo, th[t])
  BY <1>2, <1>5, AgedLocal
<1>10. CInv'
  BY <1>1, <1>2, <1>5, <1>6, AgedBooks DEF CInv
<1> QED BY <1>1, <1>2, <1>6, <1>7, <1>8, <1>9, <1>10 DEF IInv

-----------------------------------------------------------------------------
(* Crash, restart, the start-up sweep, and the initial state. *)

LEMMA CrashKeeps ==
  ASSUME IInv, CInv, Crash
  PROVE  IInv' /\ CInv'
<1>1. /\ up' = FALSE /\ todo' = {} /\ th' = [t \in Threads |-> IdleThread]
      /\ crashes' = crashes + 1
      /\ broker' = broker /\ store' = store /\ forced' = forced /\ cleared' = cleared
      /\ faults' = faults
  BY DEF Crash, history
<1>2. /\ TypeOK /\ BrokerOK(broker) /\ Numbered /\ StoreOK(broker, store, LetGo)
  BY DEF IInv
<1>3. LetGo' = LetGo /\ Numbered'
  BY <1>1, <1>2 DEF LetGo, Numbered, Entered
<1>4. IdleThread \in Local /\ IdleThread.pc = "idle"
  BY IdleOK, IdleFields
<1>5. crashes' \in Nat /\ crashes' # 0
  BY <1>1, <1>2 DEF TypeOK
<1>6. TypeOK'
  BY <1>1, <1>2, <1>4, <1>5 DEF TypeOK
<1>7. SweepOK'
  BY <1>1, <1>4 DEF SweepOK
<1> HIDE DEF LetGo
<1>8. \A t \in Threads : LocalOK(broker, store, LetGo, th'[t])
  BY <1>1, IdleOK
<1>9. CInv'
  BY <1>5 DEF CInv
<1> QED BY <1>1, <1>2, <1>3, <1>6, <1>7, <1>8, <1>9 DEF IInv

LEMMA RestartKeeps ==
  ASSUME IInv, CInv, Restart
  PROVE  IInv' /\ CInv'
<1>1. /\ ~up /\ up' = TRUE /\ todo' = {o \in Orders : store.pending[o].kept}
      /\ UNCHANGED <<broker, store, th, forced, cleared, faults, crashes>>
  BY DEF Restart, history, bounds
<1>2. LetGo' = LetGo /\ Numbered'
  BY <1>1 DEF LetGo, Numbered, Entered, IInv
<1>3. TypeOK'
  BY <1>1 DEF TypeOK, IInv
<1>4. SweepOK'
  BY <1>1 DEF SweepOK, IInv
<1> HIDE DEF LetGo
<1>5. CInv'
  BY <1>1, <1>2 DEF CInv
<1> QED BY <1>1, <1>2, <1>3, <1>4, <1>5 DEF IInv

LEMMA BootPollKeeps ==
  ASSUME IInv, CInv, NEW t, Threads = {t}, BootPoll(t)
  PROVE  IInv' /\ CInv'
<1>1. PICK o \in todo : /\ todo' = todo \ {o}
                        /\ Step(t, [IdleThread EXCEPT !.pc = "osGet", !.order = o, !.boot = TRUE])
  BY DEF BootPoll
<1>2. /\ up /\ th[t].pc = "idle" /\ up' = up
      /\ UNCHANGED <<broker, store, forced, cleared, faults, crashes>>
  BY DEF BootPoll, history, bounds
<1>3. /\ th[t] \in Local /\ store \in Store /\ StoreOK(broker, store, LetGo) /\ SweepOK
      /\ TypeOK /\ BrokerOK(broker) /\ Numbered /\ o \in Orders /\ IdleThread \in Local
  BY <1>1, Facts, IdleOK DEF IInv, TypeOK
<1>4. store.pending[o].kept
  BY <1>1, <1>3 DEF SweepOK
<1> DEFINE l == [IdleThread EXCEPT !.pc = "osGet", !.order = o, !.boot = TRUE]
<1>5. l \in Local /\ l.pc = "osGet" /\ l.order = o /\ l.ret = "idle"
  BY <1>3 DEF Local, Labels, IdleThread
<1>6. th' = [th EXCEPT ![t] = l]
  BY <1>1, <1>5 DEF Step
<1> HIDE DEF l
<1>7. th' \in [Threads -> Local] /\ th'[t] = l
  BY <1>3, <1>5, <1>6 DEF TypeOK
<1>8. LetGo' = LetGo /\ Numbered'
  BY <1>2, <1>3 DEF LetGo, Numbered, Entered
<1>9. TypeOK'
  BY <1>1, <1>2, <1>3, <1>7 DEF TypeOK
<1>10. SweepOK'
  BY <1>1, <1>2, <1>3, <1>5, <1>7 DEF SweepOK, BootLabels
<1> HIDE DEF LetGo
<1>11. LocalOK(broker, store, LetGo, l) /\ CountOK(broker, store, LetGo, l)
  <2>1. StatusOK(broker, store, l)
    BY <1>3, <1>4, <1>5 DEF StatusOK, KnownLabels, BookLabels, FreezeLabels, CopyLabels
  <2>2. LocalOK(broker, store, LetGo, l)
    BY <1>5, <2>1, ByLabel DEF BootLabels
  <2> QED BY <1>5, <2>2, Uncounted DEF Counted
<1>12. crashes = 0 => BooksOK(broker, store, LetGo, l)
  <2>1. Keeps(th[t], l)
    BY <1>2 DEF Keeps, Mid, Hand, FreezeLabels, BookLabels
  <2> QED BY <2>1, Facts, BooksKept
<1>13. CInv'
  BY <1>2, <1>7, <1>8, <1>11, <1>12 DEF CInv
<1> QED BY <1>2, <1>3, <1>7, <1>8, <1>9, <1>10, <1>11, <1>13 DEF IInv

LEMMA InitInv == Init => IInv /\ CInv
<1> SUFFICES ASSUME Init PROVE IInv /\ CInv OBVIOUS
<1> DEFINE none == [NewRoll(NoState) EXCEPT !.status = NoState]
<1>1. /\ broker = [o \in Orders |-> none] /\ store = EmptyStore
      /\ th = [t \in Threads |-> IdleThread]
      /\ up = TRUE /\ todo = {} /\ forced = {} /\ cleared = {} /\ faults = 0 /\ crashes = 0
  BY DEF Init
<1>2. /\ none \in Roll /\ none.status = NoState /\ none.close = 0 /\ none.open = 0
      /\ none.ref = NoState
  <2> DEFINE new == NewRoll(NoState)
  <2>1. 0 \in 0..Qty BY RollConstants
  <2>2. new \in Roll /\ new.close = 0 /\ new.open = 0 /\ new.ref = NoState
    BY <2>1 DEF NewRoll, Roll, RawLive
  <2>3. none = [new EXCEPT !.status = NoState]
    OBVIOUS
  <2> HIDE DEF new, none
  <2> QED BY <2>2, <2>3 DEF Roll
<1> HIDE DEF none
<1>3. NoState \notin RawLive \cup RawTerminal
  BY DEF NoState, RawLive, RawTerminal
<1>4. \A o \in Orders : /\ ~Sent(broker, o) /\ ~Live(broker, o) /\ ~Over(broker, o)
                        /\ broker[o] = none
  BY <1>1, <1>2, <1>3 DEF Sent, Live, Over
<1>5. TypeOK
  BY <1>1, <1>2, IdleOK DEF TypeOK
<1>6. BrokerOK(broker)
  BY <1>2, <1>4, RollConstants DEF BrokerOK, NoState
<1>7. Numbered
  <2>1. {o \in Orders : broker[o].status # NoState} = {}
    BY <1>2, <1>4
  <2>2. Entered = 0
    BY <2>1, FS_EmptySet DEF Entered
  <2> QED BY <1>4, <2>2 DEF Numbered, Orders
<1>8. /\ \A r \in Refs : /\ store.subs[r].status = NoState /\ store.subs[r].order = NoOrder
                         /\ store.subs[r].floor = 0 /\ ~store.subs[r].aged
      /\ \A o \in Orders : /\ ~store.pending[o].kept /\ store.closed[o] = 0
                           /\ store.opened[o] = 0 /\ store.moved[o] = 0
  BY <1>1 DEF EmptyStore, NoSubmission, NotPending
<1>9. StoreOK(broker, store, LetGo)
  <2>1. \A o, r : ~Above(broker, store, o, r)
    BY <1>4 DEF Above, Sent
  <2>2. \A r \in Refs : RefOK(broker, store, r)
    BY <1>8, <2>1 DEF RefOK, Orders
  <2>3. \A o \in Orders : OrderOK(broker, store, LetGo, o)
    BY <1>4, <1>8 DEF OrderOK
  <2> QED BY <2>2, <2>3 DEF StoreOK
<1>10. \A t \in Threads : /\ LocalOK(broker, store, LetGo, th[t])
                          /\ CountOK(broker, store, LetGo, th[t])
  BY <1>1, IdleOK
<1>11. SweepOK
  BY <1>1 DEF SweepOK
<1>12. \A t \in Threads : BooksOK(broker, store, LetGo, th[t])
  <2>1. \A o : ~Above(broker, store, o, broker[o].ref)
    BY <1>4 DEF Above, Sent
  <2> QED BY <1>2, <1>4, <1>8, <2>1 DEF BooksOK
<1> QED BY <1>5, <1>6, <1>7, <1>9, <1>10, <1>11, <1>12 DEF IInv, CInv

-----------------------------------------------------------------------------
(* Every step preserves the invariant. *)

LEMMA StepKeeps ==
  ASSUME OwnPair, IInv, CInv, NEW t, Threads = {t}, ThreadStep(t)
  PROVE  IInv' /\ CInv'
<1>1. CASE PlaceStep(t)
  <2>1. CASE ReadSub(t) BY <2>1, ReadSubKeeps
  <2>2. CASE SaveSubmitting(t) BY <2>2, SaveSubmittingKeeps
  <2>3. CASE SendAccepted(t) \/ SendUnknown(t) BY <2>3, SendsKeep
  <2>4. CASE SendRejected(t) BY <2>4, SendRejectedKeeps
  <2>5. CASE AckId(t) BY <2>5, IdKeeps
  <2>6. CASE AckRejected(t) \/ AckUnknown(t) BY <2>6, AckEndsKeep
  <2>7. CASE SavePending(t) BY <2>7, SavesKeep
  <2> QED BY <1>1, <2>1, <2>2, <2>3, <2>4, <2>5, <2>6, <2>7 DEF PlaceStep
<1>2. CASE CheckStep(t)
  <2>1. CASE Lookup(t) BY <2>1, LookupKeeps
  <2>2. CASE LookupFails(t) BY <2>2, LookupFailsKeeps
  <2>3. CASE NotPlaced(t) BY <2>3, AckEndsKeep
  <2>4. CASE Adopt(t) BY <2>4, IdKeeps
  <2>5. CASE AdoptGet(t) BY <2>5, AdoptGetKeeps
  <2>6. CASE AdoptSave(t) BY <2>6, SavesKeep
  <2>7. CASE SyncSub(t) BY <2>7, SyncSubKeeps
  <2> QED BY <1>2, <2>1, <2>2, <2>3, <2>4, <2>5, <2>6, <2>7 DEF CheckStep
<1>3. CASE StatusStep(t)
  <2>1. CASE OsGet(t) BY <2>1, OsGetKeeps
  <2>2. CASE OsRead(t) BY <2>2, OsReadKeeps
  <2>3. CASE OsReadFails(t) BY <2>3, OsReadFailsKeeps
  <2>4. CASE BookClose(t) BY <2>4, BookCloseKeeps
  <2>5. CASE BookOpen(t) BY <2>5, BookOpenKeeps
  <2>6. CASE ApplyLoad(t) BY <2>6, ApplyLoadKeeps
  <2>7. CASE ApplySave(t) BY <2>7, ApplySaveKeeps
  <2>8. CASE SavePart(t) BY <2>8, SavePartKeeps
  <2>9. CASE Pop(t) BY <2>9, PopKeeps
  <2>10. CASE FreezeLoad(t) BY <2>10, FreezeLoadKeeps
  <2>11. CASE FreezeSave(t) BY <2>11, FreezeSaveKeeps
  <2>12. CASE Sync(t) BY <2>12, SyncKeeps
  <2> QED BY <1>3, <2>1, <2>2, <2>3, <2>4, <2>5, <2>6, <2>7, <2>8, <2>9, <2>10, <2>11, <2>12
          DEF StatusStep
<1>4. CASE CancelStep(t)
  <2>1. CASE CxRead(t) \/ CxReadFails(t) \/ CxConfirm(t) \/ Finalize(t) \/ FinalizeFails(t)
    BY <2>1, CxReadsKeep
  <2>2. CASE CxDelete(t) \/ CxDeleteFails(t) BY <2>2, CxDeletesKeep
  <2>3. CASE CxPopPartial(t) \/ CxPopClean(t) BY <2>3, CxPopsKeep
  <2> QED BY <1>4, <2>1, <2>2, <2>3 DEF CancelStep
<1>5. CASE ClearStep(t)
  <2>1. CASE ClearRead(t) BY <2>1, ClearReadKeeps
  <2>2. CASE ClearUnverified(t) BY <2>2, ClearUnverifiedKeeps
  <2>3. CASE ClearPop(t) BY <2>3, ClearPopKeeps
  <2>4. CASE ClearSub(t) BY <2>4, ClearSubKeeps
  <2> QED BY <1>5, <2>1, <2>2, <2>3, <2>4 DEF ClearStep
<1> QED BY <1>1, <1>2, <1>3, <1>4, <1>5 DEF ThreadStep

LEMMA NextKeeps ==
  ASSUME OneThread, OwnPair, IInv, CInv, [Next]_vars
  PROVE  IInv' /\ CInv'
<1>1. PICK t : Threads = {t} BY DEF OneThread
<1>2. CASE BeginStep(t) BY <1>1, <1>2, BeginsKeep
<1>3. CASE ThreadStep(t) BY <1>1, <1>3, StepKeeps
<1>4. CASE BootPoll(t) BY <1>1, <1>4, BootPollKeeps
<1>5. ASSUME NEW r \in Refs, Age(r) PROVE IInv' /\ CInv' BY <1>5, AgeKeeps
<1>6. ASSUME NEW o \in Orders, BrokerStep(o) PROVE IInv' /\ CInv' BY <1>6, BrokerStepKeeps
<1>7. CASE Crash BY <1>7, CrashKeeps
<1>8. CASE Restart BY <1>8, RestartKeeps
<1>9. CASE UNCHANGED vars
  <2>1. UNCHANGED <<broker, store, th, up, todo, forced, cleared, faults, crashes>>
    BY <1>9 DEF vars
  <2>2. LetGo' = LetGo /\ (Numbered => Numbered') /\ (TypeOK => TypeOK') /\ (SweepOK => SweepOK')
    BY <2>1 DEF LetGo, Numbered, Entered, TypeOK, SweepOK
  <2> HIDE DEF LetGo
  <2> QED BY <2>1, <2>2 DEF IInv, CInv
<1> QED BY <1>1, <1>2, <1>3, <1>4, <1>5, <1>6, <1>7, <1>8, <1>9 DEF Next

LEMMA Invariance ==
  ASSUME OneThread, OwnPair
  PROVE  Spec => [](IInv /\ CInv)
<1>1. Init => IInv /\ CInv BY InitInv
<1>2. (IInv /\ CInv) /\ [Next]_vars => (IInv /\ CInv)' BY NextKeeps
<1> QED BY <1>1, <1>2, PTL DEF Spec

\* Without crashes in the bounds nothing crashes.
LEMMA NoCrash ==
  ASSUME MaxCrashes = 0
  PROVE  Spec => [](crashes = 0)
<1>1. Init => crashes = 0 BY DEF Init
<1>2. crashes = 0 /\ [Next]_vars => (crashes = 0)'
  <2> SUFFICES ASSUME crashes = 0, [Next]_vars PROVE crashes' = 0 OBVIOUS
  <2> USE DEF Reads, Writes, Begins, Fault, bounds
  <2>1. ASSUME NEW t, BeginStep(t) PROVE crashes' = crashes
    BY <2>1 DEF BeginStep, BeginRoll, BeginCheck, BeginClear, BeginPoll, BeginCancel
  <2>2. ASSUME NEW t, PlaceStep(t) PROVE crashes' = crashes
    BY <2>2 DEF PlaceStep, ReadSub, SaveSubmitting, SendAccepted, SendRejected, SendUnknown,
                AckId, AckRejected, AckUnknown, SavePending
  <2>3. ASSUME NEW t, CheckStep(t) PROVE crashes' = crashes
    BY <2>3 DEF CheckStep, Lookup, LookupFails, NotPlaced, Adopt, AdoptGet, AdoptSave, SyncSub
  <2>4. ASSUME NEW t, StatusStep(t) PROVE crashes' = crashes
    BY <2>4 DEF StatusStep, OsGet, OsRead, OsReadFails, BookClose, BookOpen, ApplyLoad,
                ApplySave, SavePart, Pop, FreezeLoad, FreezeSave, Sync
  <2>5. ASSUME NEW t, CancelStep(t) PROVE crashes' = crashes
    BY <2>5 DEF CancelStep, CxRead, CxReadFails, CxDelete, CxDeleteFails, CxConfirm, Finalize,
                FinalizeFails, CxPopPartial, CxPopClean
  <2>6. ASSUME NEW t, ClearStep(t) PROVE crashes' = crashes
    BY <2>6 DEF ClearStep, ClearRead, ClearUnverified, ClearPop, ClearSub
  <2>7. ASSUME NEW t, BootPoll(t) PROVE crashes' = crashes BY <2>7 DEF BootPoll
  <2>8. ASSUME NEW r, Age(r) PROVE crashes' = crashes BY <2>8 DEF Age
  <2>9. ASSUME NEW o, BrokerStep(o) PROVE crashes' = crashes BY <2>9 DEF BrokerStep
  <2>10. ~Crash BY DEF Crash
  <2>11. Restart => crashes' = crashes BY DEF Restart
  <2>12. UNCHANGED vars => crashes' = crashes BY DEF vars
  <2> QED BY <2>1, <2>2, <2>3, <2>4, <2>5, <2>6, <2>7, <2>8, <2>9, <2>10, <2>11, <2>12
          DEF Next, ThreadStep
<1> QED BY <1>1, <1>2, PTL DEF Spec

-----------------------------------------------------------------------------
(* What the invariant says of a state. *)

LEMMA SentIfAlive ==
  ASSUME IInv, NEW o \in Orders, Alive(o) \/ Dead(o)
  PROVE  Sent(broker, o) /\ broker[o].ref \in Refs
BY DEF IInv, BrokerOK, Alive, Dead, Sent, RawLive, RawTerminal, NoState

LEMMA TruthfulState == IInv => NeverFalselyOver
<1> SUFFICES ASSUME IInv, NEW o \in Orders \ LetGo, Alive(o)
             PROVE  store.subs[broker[o].ref].status \notin Resolved
  BY DEF NeverFalselyOver
<1>1. Sent(broker, o) /\ Live(broker, o) BY SentIfAlive DEF Alive, Live
<1>2. OrderOK(broker, store, LetGo, o) BY DEF IInv, StoreOK
<1> QED BY <1>1, <1>2 DEF OrderOK, Resolved

LEMMA OneLiveState == IInv => OneLivePerRef
<1> SUFFICES ASSUME IInv, NEW o \in Orders \ LetGo, NEW p \in Orders \ LetGo,
                    Alive(o), Alive(p), broker[o].ref = broker[p].ref
             PROVE  o = p
  BY DEF OneLivePerRef
<1> DEFINE r == broker[o].ref
<1>1. Sent(broker, o) /\ Sent(broker, p) /\ r \in Refs BY SentIfAlive
<1>2. /\ OrderOK(broker, store, LetGo, o) /\ OrderOK(broker, store, LetGo, p)
      /\ RefOK(broker, store, r) /\ store \in Store
  BY <1>1 DEF IInv, StoreOK, TypeOK
<1>3. ~Over(broker, o) /\ ~Over(broker, p) BY DEF Alive, Over, RawLive, RawTerminal
<1>4. store.subs[r].floor \in Nat BY <1>1, <1>2 DEF Store, Submission
<1>5. Above(broker, store, o, r) /\ Above(broker, store, p, r)
  BY <1>1, <1>2, <1>3, <1>4 DEF OrderOK, Above, Orders
<1> QED BY <1>2, <1>5 DEF RefOK

LEMMA RestingHand ==
  ASSUME IInv, OneThread, Resting, crashes = 0, CInv,
         NEW o \in Orders \ LetGo, Sent(broker, o), ~store.pending[o].kept
  PROVE  EndedWell(broker, store, o) \/ Unconfirmed(broker[o].ref)
<1>1. PICK t : Threads = {t} BY DEF OneThread
<1>2. th[t].pc = "idle" /\ BooksOK(broker, store, LetGo, th[t])
  BY <1>1 DEF CInv, Resting
<1>3. EndedWell(broker, store, o) \/ InHand(broker, store, th[t], o)
  BY <1>2 DEF BooksOK
<1> QED BY <1>2, <1>3 DEF InHand, FreezeLabels, Unconfirmed

LEMMA KnownState == OneThread /\ IInv /\ CInv /\ crashes = 0 => LiveRollsKnown
<1> SUFFICES ASSUME OneThread, IInv, CInv, crashes = 0, Resting,
                    NEW o \in Orders \ LetGo, Alive(o)
             PROVE  store.pending[o].kept \/ Unconfirmed(broker[o].ref)
  BY OneLiveState DEF LiveRollsKnown, LiveRollTracked
<1>1. Sent(broker, o) BY SentIfAlive
<1>2. ~EndedWell(broker, store, o) BY DEF EndedWell, Alive, Over, RawLive, RawTerminal
<1> QED BY <1>1, <1>2, RestingHand

LEMMA BooksState == OneThread /\ IInv /\ CInv /\ crashes = 0 => BooksMatchLegs
<1> SUFFICES ASSUME OneThread, IInv, CInv, crashes = 0 PROVE BooksMatchLegs OBVIOUS
<1>1. RollFillBooked
  <2> SUFFICES ASSUME Resting, ~store.review, NEW o \in Orders \ LetGo, Dead(o),
                      ~store.pending[o].kept, ~Unconfirmed(broker[o].ref)
               PROVE  /\ broker[o].close = broker[o].open
                      /\ store.closed[o] = broker[o].close /\ store.opened[o] = broker[o].open
    BY DEF RollFillBooked
  <2>1. EndedWell(broker, store, o) BY SentIfAlive, RestingHand
  <2> QED BY <2>1 DEF EndedWell, Booked
<1>2. PICK t : Threads = {t} BY DEF OneThread
<1>3. BooksOK(broker, store, LetGo, th[t]) BY <1>2 DEF CInv
<1>4. NeverOverbooked BY <1>3 DEF BooksOK, NeverOverbooked
<1>5. BookedOnlyIfBothFilled
  <2> SUFFICES ASSUME NEW o \in Orders,
                      store.closed[o] + store.opened[o] + store.moved[o] > 0
               PROVE  broker[o].close > 0 /\ broker[o].open > 0
    BY DEF BookedOnlyIfBothFilled
  <2>1. /\ store.closed[o] \in Nat /\ store.opened[o] \in Nat /\ store.moved[o] \in Nat
        /\ broker[o].close \in 0..Qty /\ broker[o].open \in 0..Qty
    BY DEF IInv, TypeOK, Store, Roll
  <2>2. /\ store.closed[o] <= broker[o].close /\ store.closed[o] <= broker[o].open
        /\ store.opened[o] <= broker[o].close /\ store.opened[o] <= broker[o].open
        /\ store.moved[o] > 0 => broker[o].close > 0 /\ broker[o].open > 0
    BY <1>3 DEF BooksOK
  <2>3. Qty \in Nat BY RollConstants
  <2> QED BY <2>1, <2>2, <2>3
<1> QED BY <1>1, <1>4, <1>5 DEF BooksMatchLegs

LEMMA FrozenState == OneThread /\ IInv /\ CInv /\ crashes = 0 => ImbalanceFrozen
<1> SUFFICES ASSUME OneThread, IInv, CInv, crashes = 0, Resting, NEW o \in Orders \ LetGo,
                    Dead(o), broker[o].close # broker[o].open
             PROVE  store.review \/ store.pending[o].kept \/ Unconfirmed(broker[o].ref)
  BY DEF ImbalanceFrozen
<1>1. Sent(broker, o) BY SentIfAlive
<1>2. EndedWell(broker, store, o) => store.review BY DEF EndedWell
<1> QED BY <1>1, <1>2, RestingHand

-----------------------------------------------------------------------------
(* The theorems. *)

\* TypeOK of RollSubmission: the thread's locals, the records and the books
\* keep their shape through every handler of the roll path.
THEOREM TypeCorrect == OneThread /\ OwnPair => (Spec => []TypeOK)
<1> SUFFICES ASSUME OneThread, OwnPair PROVE Spec => []TypeOK OBVIOUS
<1>1. IInv /\ CInv => TypeOK BY DEF IInv
<1> QED BY <1>1, Invariance, PTL

\* The answer to a roll's submission is true to the broker: with any number
\* of lost answers, retries, cancels and crashes, the record of a ticket never
\* reads REJECTED, FILLED, CANCELED, NOT_PLACED or LEG_IMBALANCE while an
\* order of the ticket can still fill (_submission_response).
THEOREM NeverFalselyOverAlways == OneThread /\ OwnPair => (Spec => []NeverFalselyOver)
<1> SUFFICES ASSUME OneThread, OwnPair PROVE Spec => []NeverFalselyOver OBVIOUS
<1>1. IInv /\ CInv => NeverFalselyOver BY TruthfulState
<1> QED BY <1>1, Invariance, PTL

\* The idempotency key holds through crashes too: a ticket never has two
\* live orders at the broker that the operator has not let go of
\* (_place_live_roll: a known record is returned, "never re-submits").
THEOREM OneLivePerRefAlways == OneThread /\ OwnPair => (Spec => []OneLivePerRef)
<1> SUFFICES ASSUME OneThread, OwnPair PROVE Spec => []OneLivePerRef OBVIOUS
<1>1. IInv /\ CInv => OneLivePerRef BY OneLiveState
<1> QED BY <1>1, Invariance, PTL

\* As long as the process does not crash, what is live at the broker is
\* known whenever no request runs: one order for a ticket, and either its
\* pending record is kept or the sweep will look for it.
THEOREM LiveRollsKnownAlways ==
  OneThread /\ OwnPair /\ MaxCrashes = 0 => (Spec => []LiveRollsKnown)
<1> SUFFICES ASSUME OneThread, OwnPair, MaxCrashes = 0 PROVE Spec => []LiveRollsKnown OBVIOUS
<1>1. IInv /\ CInv /\ crashes = 0 => LiveRollsKnown BY KnownState
<1> QED BY <1>1, Invariance, NoCrash, PTL

\* As long as the process does not crash, the books hold exactly the whole
\* units that filled on both legs, however partial fills, polls and cancels
\* interleave (_roll_leg_filled_qty: "never book a one-legged fill").
THEOREM BooksMatchLegsAlways ==
  OneThread /\ OwnPair /\ MaxCrashes = 0 => (Spec => []BooksMatchLegs)
<1> SUFFICES ASSUME OneThread, OwnPair, MaxCrashes = 0 PROVE Spec => []BooksMatchLegs OBVIOUS
<1>1. IInv /\ CInv /\ crashes = 0 => BooksMatchLegs BY BooksState
<1> QED BY <1>1, Invariance, NoCrash, PTL

\* As long as the process does not crash, an order that died with its legs
\* apart has frozen the position, or is still to be looked at (rule R3:
\* "must freeze the position").
THEOREM ImbalanceFrozenAlways ==
  OneThread /\ OwnPair /\ MaxCrashes = 0 => (Spec => []ImbalanceFrozen)
<1> SUFFICES ASSUME OneThread, OwnPair, MaxCrashes = 0 PROVE Spec => []ImbalanceFrozen OBVIOUS
<1>1. IInv /\ CInv /\ crashes = 0 => ImbalanceFrozen BY FrozenState
<1> QED BY <1>1, Invariance, NoCrash, PTL
=============================================================================
