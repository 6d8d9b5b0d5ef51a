------------------------- MODULE LiveOrders_proofs -------------------------
(***************************************************************************)
(* Proofs about LiveOrders, for every set of intents, every quantity, any  *)
(* failures and crashes.  With any threads: the type invariant, and that   *)
(* neither a booked fill nor an open resubmission lock is ever invented.   *)
(* When operations do not overlap: no live order is forgotten, no intent   *)
(* has two, every fill is counted, and once, and a closed lock opens only  *)
(* by the broker's word and never after a review.                          *)
(***************************************************************************)
EXTENDS LiveOrdersInv, TLAPS

BrokerType == [Orders -> [status : RawTerminal \cup RawLive \cup {NoState},
                          filled : 0..Qty, intent : Intents \cup {NoState}]]

-----------------------------------------------------------------------------
(* What is known of an order stays known as the broker moves on. *)

\* A file that is sound stays sound when orders only move forward and more
\* orders are force-cleared.
LEMMA StoreStable ==
  ASSUME NEW b, NEW c, NEW f, NEW g, NEW s \in Store,
         BrokerGrows(b, c), f \subseteq g, StoreOK(b, f, s)
  PROVE  StoreOK(c, g, s)
<1>1. \A o \in Orders : (b[o].status = "FILLED" => c[o].status = "FILLED")
                        /\ (b[o].status \in RawTerminal => c[o].status \in RawTerminal)
                        /\ (b[o].status # NoState => c[o].status # NoState)
  BY DEF BrokerGrows, RawTerminal
<1>2. \A o \in s.pending : Known(c, o)
  BY <1>1 DEF StoreOK, Known
<1>3. BookOK(c, s)
  BY <1>1 DEF StoreOK, BookOK
<1>4. \A i \in Intents : LockOK(c, g, s.locks[i])
  BY <1>1 DEF StoreOK, LockOK, Dead
<1> QED BY <1>2, <1>3, <1>4 DEF StoreOK

\* ... and so does everything a thread knows.
LEMMA LocalStable ==
  ASSUME NEW b, NEW c, NEW f, NEW g, NEW l \in Local,
         BrokerGrows(b, c), f \subseteq g, LocalOK(b, f, l)
  PROVE  LocalOK(c, g, l)
<1>1. \A o \in Orders : (b[o].status = "FILLED" => c[o].status = "FILLED")
                        /\ (b[o].status \in RawTerminal => c[o].status \in RawTerminal)
                        /\ (b[o].status # NoState => c[o].status # NoState)
  BY DEF BrokerGrows, RawTerminal
<1>2. StoreOK(c, g, l.copy)
  BY StoreStable DEF LocalOK, Local
<1>3. l.pc \in BookLabels => c[l.order].status = "FILLED"
  BY <1>1 DEF LocalOK, Known, BookLabels, GuardLabels
<1> QED BY <1>1, <1>2, <1>3 DEF LocalOK, Known, Dead

\* Writing a sound lock, or popping a pending record, keeps a file sound.
LEMMA LockWritten ==
  ASSUME NEW b, NEW f, NEW s \in Store, StoreOK(b, f, s),
         NEW i \in Intents, NEW k \in Lock, LockOK(b, f, k)
  PROVE  /\ [s EXCEPT !.locks[i] = k] \in Store
         /\ StoreOK(b, f, [s EXCEPT !.locks[i] = k])
<1> DEFINE m == [s.locks EXCEPT ![i] = k]
<1>1. m \in [Intents -> Lock] /\ \A j \in Intents : LockOK(b, f, m[j])
  BY DEF Store, StoreOK
<1> HIDE DEF m
<1>2. [s EXCEPT !.locks = m] \in Store /\ StoreOK(b, f, [s EXCEPT !.locks = m])
  BY <1>1 DEF Store, StoreOK, BookOK
<1> QED BY <1>2 DEF m

LEMMA PendingPopped ==
  ASSUME NEW b, NEW f, NEW s \in Store, StoreOK(b, f, s), NEW o
  PROVE  /\ [s EXCEPT !.pending = @ \ {o}] \in Store
         /\ StoreOK(b, f, [s EXCEPT !.pending = @ \ {o}])
BY DEF Store, StoreOK, BookOK

LEMMA IdleOK ==
  ASSUME NEW b, NEW f
  PROVE  /\ IdleThread \in Local
         /\ LocalOK(b, f, IdleThread)
         /\ EmptyStore \in Store
         /\ StoreOK(b, f, EmptyStore)
<1>1. NoLock \in Lock
  BY DEF NoLock, Lock
<1>2. EmptyStore \in Store
  BY <1>1 DEF EmptyStore, Store
<1>3. StoreOK(b, f, EmptyStore)
  BY DEF StoreOK, EmptyStore, BookOK, LockOK, NoLock, NoState, TERMINAL
<1>4. IdleThread \in Local
  BY <1>1, <1>2 DEF IdleThread, Local, Labels, ReturnLabels, EmptyStore
<1>5. LocalOK(b, f, IdleThread)
  BY <1>3 DEF LocalOK, IdleThread, GuardLabels, BookLabels, DeadLabels
<1> QED BY <1>2, <1>3, <1>4, <1>5

-----------------------------------------------------------------------------
(* A step of one thread preserves the invariant when what it writes and    *)
(* what the thread goes on to know are sound.                              *)

LEMMA ThreadMoves ==
  ASSUME IInv, NEW t \in Threads, NEW l \in Local, Step(t, l),
         LocalOK(broker', forced', l),
         broker' \in BrokerType, BrokerGrows(broker, broker'),
         BrokerOK(broker'),
         forced \subseteq forced', forced' \subseteq Orders,
         store' \in Store, StoreOK(broker', forced', store'),
         up' \in BOOLEAN, todo' \subseteq todo, orphaned' \subseteq Orders,
         faults' \in Nat, crashes' \in Nat
  PROVE  IInv'
<1>1. th \in [Threads -> Local] /\ todo \subseteq Orders
  BY DEF IInv, TypeOK
<1> DEFINE m == IF l.pc = "idle" THEN IdleThread ELSE l
<1>2. m \in Local /\ LocalOK(broker', forced', m)
  BY IdleOK
<1>3. th' = [th EXCEPT ![t] = m]
  BY DEF Step
<1> HIDE DEF m
<1>4. th' \in [Threads -> Local]
  BY <1>1, <1>2, <1>3
<1>5. ASSUME NEW u \in Threads PROVE LocalOK(broker', forced', th'[u])
  <2>1. CASE u = t
    BY <2>1, <1>1, <1>2, <1>3
  <2>2. CASE u # t
    <3>1. th'[u] = th[u] /\ th[u] \in Local
      BY <2>2, <1>1, <1>3
    <3>2. LocalOK(broker, forced, th[u])
      BY DEF IInv
    <3> QED BY <3>1, <3>2, LocalStable
  <2> QED BY <2>1, <2>2
<1>6. \A o \in todo' : Known(broker', o)
  BY <1>1 DEF IInv, Known, BrokerGrows
<1>7. TypeOK'
  BY <1>1, <1>4 DEF TypeOK, BrokerType
<1> QED BY <1>5, <1>6, <1>7 DEF IInv

\* The common case: only the thread and the state file change.
LEMMA StoreMoves ==
  ASSUME IInv, NEW t \in Threads, NEW l \in Local, Step(t, l),
         LocalOK(broker, forced, l),
         store' \in Store, StoreOK(broker, forced, store'),
         UNCHANGED <<broker, process, history>>, faults' \in Nat, crashes' \in Nat
  PROVE  IInv'
<1>1. BrokerGrows(broker, broker)
  BY DEF BrokerGrows
<1>2. /\ broker' = broker /\ forced' = forced /\ orphaned' = orphaned
      /\ up' = up /\ todo' = todo
  BY DEF process, history
<1>3. /\ broker \in BrokerType /\ forced \subseteq Orders /\ up \in BOOLEAN
      /\ orphaned \subseteq Orders
  BY DEF IInv, TypeOK, BrokerType
<1>4. BrokerOK(broker)
  BY DEF IInv
<1> QED BY <1>1, <1>2, <1>3, <1>4, ThreadMoves

\* The commonest: only the thread changes.
LEMMA LocalMoves ==
  ASSUME IInv, NEW t \in Threads, NEW l \in Local, Step(t, l),
         LocalOK(broker, forced, l), UNCHANGED <<broker, store, process, history>>,
         faults' \in Nat, crashes' \in Nat
  PROVE  IInv'
<1>1. store' \in Store /\ StoreOK(broker, forced, store')
  BY DEF IInv, TypeOK
<1> QED BY <1>1, StoreMoves DEF IInv

\* What the invariant says of the file and the broker, and of the thread
\* that is about to move.
LEMMA SharedFacts ==
  ASSUME IInv
  PROVE  /\ store \in Store /\ StoreOK(broker, forced, store)
         /\ broker \in BrokerType /\ forced \subseteq Orders
         /\ BrokerOK(broker)
         /\ faults \in Nat /\ crashes \in Nat
         /\ todo \subseteq Orders /\ \A o \in todo : Known(broker, o)
BY DEF IInv, TypeOK, BrokerType

LEMMA Facts ==
  ASSUME IInv, NEW t \in Threads
  PROVE  /\ th[t] \in Local /\ LocalOK(broker, forced, th[t])
         /\ store \in Store /\ StoreOK(broker, forced, store)
         /\ broker \in BrokerType /\ forced \subseteq Orders
         /\ BrokerOK(broker)
         /\ faults \in Nat /\ crashes \in Nat
BY DEF IInv, TypeOK, BrokerType

\* A failed or lost reply costs one of the bounded faults.
LEMMA FaultCounts ==
  ASSUME IInv, Fault
  PROVE  faults' \in Nat /\ crashes' \in Nat
BY DEF IInv, TypeOK, Fault

\* A thread that becomes idle may always do so.
LEMMA GoIdle ==
  ASSUME IInv, NEW t \in Threads, Step(t, IdleThread),
         UNCHANGED <<broker, store, process, history>>,
         faults' \in Nat, crashes' \in Nat
  PROVE  IInv'
BY IdleOK, LocalMoves

\* A thread that only changes its label must know what the label asks for.
LEMMA PcMoves ==
  ASSUME IInv, NEW t \in Threads, NEW p \in Labels,
         Step(t, [th[t] EXCEPT !.pc = p]), th[t].pc # "idle",
         UNCHANGED <<broker, store, process, history>>,
         faults' \in Nat, crashes' \in Nat,
         p \notin GuardLabels \cup {"idle"} => Known(broker, th[t].order),
         p \in BookLabels => broker[th[t].order].status = "FILLED",
         p \in DeadLabels => Dead(broker, th[t].order),
         p \in {"settleRead", "settleWrite"} /\ th[t].coded \in TERMINAL
           => th[t].order \in forced \/ Dead(broker, th[t].order),
         p \in GuardLabels => th[t].ret = "idle",
         p = "clearGet" => th[t].force \/ Dead(broker, th[t].order)
  PROVE  IInv'
<1> DEFINE l == [th[t] EXCEPT !.pc = p]
<1>1. l \in Local
  BY Facts DEF Local
<1>2. LocalOK(broker, forced, l)
  BY Facts DEF LocalOK, Local
<1> QED BY <1>1, <1>2, LocalMoves


\* A new order leaves every other order as it was.
LEMMA NewOrderGrows ==
  ASSUME IInv, NEW o \in Orders, Unused(o), NEW i \in Intents,
         broker' = [broker EXCEPT ![o] = NewOrder(i)]
  PROVE  /\ broker' \in BrokerType /\ BrokerGrows(broker, broker')
         /\ Known(broker', o)
         /\ BrokerOK(broker')
<1>1. broker \in BrokerType /\ broker[o].status = NoState
      /\ BrokerOK(broker)
  BY DEF IInv, TypeOK, BrokerType, Unused
<1>2. broker' \in BrokerType
  BY <1>1, ConstantsAssumption DEF BrokerType, NewOrder, RawLive
<1>3. BrokerGrows(broker, broker') /\ Known(broker', o)
  BY <1>1 DEF BrokerGrows, BrokerType, NewOrder, RawTerminal, NoState, Known
<1>4. BrokerOK(broker')
  BY <1>1, ConstantsAssumption DEF BrokerOK, Known, BrokerType, NewOrder
<1> QED BY <1>2, <1>3, <1>4

\* Placing an order.
LEMMA PlacePreserves ==
  ASSUME IInv, NEW t \in Threads, PlaceStep(t)
  PROVE  IInv'
<1>0. /\ th[t] \in Local /\ LocalOK(broker, forced, th[t])
      /\ store \in Store /\ StoreOK(broker, forced, store)
      /\ faults \in Nat /\ crashes \in Nat
  BY Facts
<1> USE <1>0
<1>1. CASE GuardLock(t)
  <2>1. PICK p \in {"guardPending", "idle"} : Step(t, [th[t] EXCEPT !.pc = p])
    BY <1>1 DEF GuardLock
  <2> QED BY <1>1, <2>1, PcMoves DEF GuardLock, At, Labels, GuardLabels,
          BookLabels, DeadLabels, bounds, LocalOK
<1>2. CASE GuardPending(t)
  <2>1. PICK p \in {"transmit", "idle"} : Step(t, [th[t] EXCEPT !.pc = p])
    BY <1>2 DEF GuardPending
  <2> QED BY <1>2, <2>1, PcMoves DEF GuardPending, At, Labels, GuardLabels,
          BookLabels, DeadLabels, bounds, LocalOK
<1>3. CASE Transmit(t)
  <2>1. PICK o \in Orders :
          /\ Unused(o)
          /\ broker' = [broker EXCEPT ![o] = NewOrder(th[t].intent)]
          /\ Step(t, [th[t] EXCEPT !.pc = "savePending", !.order = o])
    BY <1>3 DEF Transmit
  <2>2. th[t].intent \in Intents /\ th[t].ret = "idle"
    BY <1>3 DEF Transmit, At, LocalOK, GuardLabels
  <2>3. /\ broker' \in BrokerType /\ BrokerGrows(broker, broker')
        /\ Known(broker', o)
        /\ BrokerOK(broker')
    BY <2>1, <2>2, NewOrderGrows
  <2> DEFINE l == [th[t] EXCEPT !.pc = "savePending", !.order = o]
  <2>4. l \in Local
    BY DEF Local, Labels
  <2>5. StoreOK(broker', forced, store) /\ StoreOK(broker', forced, th[t].copy)
    BY <2>3, StoreStable DEF LocalOK, Local
  <2>6. LocalOK(broker', forced, l)
    BY <2>2, <2>3, <2>5 DEF LocalOK, Local, GuardLabels, BookLabels, DeadLabels
  <2> QED BY <1>3, <2>1, <2>3, <2>4, <2>5, <2>6, ThreadMoves
          DEF Transmit, process, history, bounds, IInv, TypeOK
<1>4. CASE TransmitRefused(t)
  BY <1>4, GoIdle DEF TransmitRefused, bounds
<1>5. CASE TransmitAckLost(t)
  <2>1. PICK o \in Orders :
          /\ Unused(o)
          /\ broker' = [broker EXCEPT ![o] = NewOrder(th[t].intent)]
          /\ orphaned' = orphaned \cup {o}
    BY <1>5 DEF TransmitAckLost
  <2>2. th[t].intent \in Intents
    BY <1>5 DEF TransmitAckLost, At, LocalOK, GuardLabels
  <2>3. /\ broker' \in BrokerType /\ BrokerGrows(broker, broker')
        /\ BrokerOK(broker')
    BY <2>1, <2>2, NewOrderGrows
  <2>4. StoreOK(broker', forced, store)
    BY <2>3, StoreStable
  <2>5. faults' \in Nat /\ crashes' \in Nat
    BY <1>5, FaultCounts DEF TransmitAckLost
  <2> QED BY <1>5, <2>1, <2>3, <2>4, <2>5, IdleOK, ThreadMoves
          DEF TransmitAckLost, process, IInv, TypeOK
<1>6. CASE SavePending(t)
  <2>1. Known(broker, th[t].order)
    BY <1>6 DEF SavePending, At, LocalOK, GuardLabels
  <2>2. store' \in Store
    BY <1>6, <2>1 DEF SavePending, Store, Known
  <2>3. StoreOK(broker, forced, store')
    BY <1>6, <2>1 DEF SavePending, Store, StoreOK, BookOK
  <2> DEFINE l == [th[t] EXCEPT !.pc = "readPrior"]
  <2>4. l \in Local
    BY DEF Local, Labels
  <2>5. LocalOK(broker, forced, l)
    BY <1>6 DEF SavePending, At, LocalOK, Local, GuardLabels, BookLabels, DeadLabels
  <2> QED BY <1>6, <2>2, <2>3, <2>4, <2>5, StoreMoves DEF SavePending, bounds
<1>7. CASE ReadPriorLock(t)
  <2> DEFINE l == [th[t] EXCEPT !.pc = "saveLock", !.lock = store.locks[th[t].intent]]
  <2>1. th[t].intent \in Intents
    BY <1>7 DEF ReadPriorLock, At, LocalOK
  <2>2. l \in Local
    BY <2>1 DEF Local, Labels, Store
  <2>3. LocalOK(broker, forced, l)
    BY <1>7 DEF ReadPriorLock, At, LocalOK, Local, GuardLabels, BookLabels, DeadLabels
  <2> QED BY <1>7, <2>2, <2>3, LocalMoves DEF ReadPriorLock, bounds
<1>8. CASE SaveLock(t)
  <2>1. th[t].intent \in Intents /\ Known(broker, th[t].order)
    BY <1>8 DEF SaveLock, At, LocalOK, GuardLabels
  <2> DEFINE k == [state |-> "WORKING", order |-> th[t].order, reconciled |-> FALSE,
                   attempts |-> th[t].lock.attempts + 1]
  <2>2. k \in Lock
    BY <2>1 DEF Lock, CodedStates, LIVE, Known, Local
  <2>3. LockOK(broker, forced, k)
    BY DEF LockOK, TERMINAL
  <2>4. store' = [store EXCEPT !.locks[th[t].intent] = k]
    BY <1>8 DEF SaveLock
  <2>5. store' \in Store /\ StoreOK(broker, forced, store')
    BY <2>1, <2>2, <2>3, <2>4, LockWritten
  <2> QED BY <1>8, <2>5, IdleOK, StoreMoves DEF SaveLock, bounds
<1> QED BY <1>1, <1>2, <1>3, <1>4, <1>5, <1>6, <1>7, <1>8 DEF PlaceStep

\* A thread takes up an order that is on record (or an intent with none yet).
LEMMA BeginPreserves ==
  ASSUME IInv, NEW t \in Threads, BeginStep(t)
  PROVE  IInv'
<1>1. ASSUME NEW p \in Labels, NEW o \in Orders \cup {NoOrder}, NEW i \in Intents,
             Begin(t, p, o, i),
             p \notin BookLabels \cup DeadLabels \cup {"settleRead", "settleWrite", "clearGet"},
             p \notin GuardLabels \cup {"idle"} => Known(broker, o)
      PROVE  IInv'
  <2> DEFINE l == [IdleThread EXCEPT !.pc = p, !.order = o, !.intent = i]
  <2>1. IdleThread \in Local /\ StoreOK(broker, forced, EmptyStore)
    BY IdleOK
  <2>2. l \in Local
    BY <2>1 DEF Local
  <2>3. l.copy = EmptyStore /\ l.pc = p /\ l.order = o /\ l.intent = i /\ l.ret = "idle"
    BY DEF IdleThread
  <2>4. LocalOK(broker, forced, l)
    BY <1>1, <2>1, <2>3 DEF LocalOK
  <2> QED BY <1>1, <2>2, <2>4, Facts, LocalMoves DEF Begin, bounds
<1>2. CASE \E i \in Intents : BeginPlace(t, i)
  BY <1>1, <1>2 DEF BeginPlace, Labels, GuardLabels, BookLabels, DeadLabels
<1>3. CASE \E o \in store.pending : BeginPoll(t, o) \/ BeginCancel(t, o) \/ BeginClear(t, o)
  <2>1. PICK o \in store.pending : BeginPoll(t, o) \/ BeginCancel(t, o) \/ BeginClear(t, o)
    BY <1>3
  <2>2. o \in Orders /\ Known(broker, o) /\ broker[o].intent \in Intents
    BY <2>1, SharedFacts DEF StoreOK, BrokerOK, Known
  <2> QED BY <1>1, <2>1, <2>2 DEF BeginPoll, BeginCancel, BeginClear,
          Labels, GuardLabels, BookLabels, DeadLabels
<1> QED BY <1>2, <1>3 DEF BeginStep

\* Popping the pending record and going on to settle the intent's lock.
LEMMA PopAndSettlePreserves ==
  ASSUME IInv, NEW t \in Threads, NEW p, NEW c \in CodedStates \cup {NoState},
         PopAndSettle(t, p, c), p \notin GuardLabels \cup {"idle"},
         c \in TERMINAL => th[t].order \in forced \/ Dead(broker, th[t].order)
  PROVE  IInv'
<1> DEFINE l == [th[t] EXCEPT !.pc = "settleRead", !.coded = c]
<1>1. /\ th[t] \in Local /\ LocalOK(broker, forced, th[t])
      /\ store \in Store /\ StoreOK(broker, forced, store)
      /\ faults \in Nat /\ crashes \in Nat
  BY Facts
<1>2. l \in Local
  BY <1>1 DEF Local, Labels
<1>3. LocalOK(broker, forced, l)
  BY <1>1 DEF PopAndSettle, At, LocalOK, Local, GuardLabels, BookLabels, DeadLabels
<1>4. store' \in Store /\ StoreOK(broker, forced, store')
  BY <1>1, PendingPopped DEF PopAndSettle
<1> QED BY <1>1, <1>2, <1>3, <1>4, StoreMoves DEF PopAndSettle, bounds

\* Polling an order, and booking the fill or dropping the dead order.
LEMMA StatusPreserves ==
  ASSUME IInv, NEW t \in Threads, StatusStep(t)
  PROVE  IInv'
<1>0. /\ th[t] \in Local /\ LocalOK(broker, forced, th[t])
      /\ store \in Store /\ StoreOK(broker, forced, store)
      /\ faults \in Nat /\ crashes \in Nat
  BY Facts
<1> USE <1>0
<1>a. ReturnLabels \subseteq Labels /\ th[t].ret \in ReturnLabels
      /\ ReturnLabels \cap (BookLabels \cup GuardLabels
                             \cup {"settleRead", "settleWrite", "clearGet"}) = {}
      /\ ReturnLabels \cap DeadLabels = {"duringCancel"}
  BY DEF Local, ReturnLabels, Labels, BookLabels, GuardLabels, DeadLabels
<1>1. CASE OsGetPending(t)
  <2>1. PICK p \in {"osRead", th[t].ret} : Step(t, [th[t] EXCEPT !.pc = p])
    BY <1>1 DEF OsGetPending
  <2>2. Known(broker, th[t].order)
    BY <1>1 DEF OsGetPending, At, LocalOK, GuardLabels
  <2>3. p = "osRead" => p \in Labels /\ p \notin BookLabels \cup DeadLabels \cup GuardLabels
    BY DEF Labels, BookLabels, DeadLabels, GuardLabels
  <2>4. p \in DeadLabels => Dead(broker, th[t].order)
    BY <1>a, <2>1, <2>3 DEF LocalOK
  <2> QED BY <1>1, <1>a, <2>1, <2>2, <2>3, <2>4, PcMoves DEF OsGetPending, At, bounds
<1>2. CASE OsRead(t)
  <2> DEFINE b == broker[th[t].order]
  <2>1. th[t].pc = "osRead" /\ Known(broker, th[t].order)
    BY <1>2 DEF OsRead, At, LocalOK, GuardLabels
  <2>2. CASE b.status = "FILLED"
    <3>1. Step(t, [th[t] EXCEPT !.pc = "commitAppend"])
      BY <1>2, <2>2 DEF OsRead
    <3> QED BY <1>2, <2>1, <2>2, <3>1, PcMoves DEF OsRead, bounds,
            Labels, GuardLabels, BookLabels, DeadLabels
  <2>3. CASE b.status \in RawTerminal \ {"FILLED"}
    <3> DEFINE l == [th[t] EXCEPT !.pc = "osPop", !.raw = b.status]
    <3>1. Step(t, l)
      BY <1>2, <2>3 DEF OsRead
    <3>2. l \in Local
      BY <2>3 DEF Local, Labels
    <3>3. LocalOK(broker, forced, l)
      BY <2>1, <2>3 DEF LocalOK, Local, Known, Dead, GuardLabels, BookLabels, DeadLabels
    <3> QED BY <1>2, <3>1, <3>2, <3>3, LocalMoves DEF OsRead, bounds
  <2>4. CASE b.status \notin RawTerminal
    <3>1. Step(t, [th[t] EXCEPT !.pc = th[t].ret])
      BY <1>2, <2>4 DEF OsRead, RawTerminal
    <3>2. th[t].ret \in DeadLabels => Dead(broker, th[t].order)
      BY <1>a DEF LocalOK
    <3> QED BY <1>2, <1>a, <2>1, <3>1, <3>2, PcMoves DEF OsRead, bounds
  <2> QED BY <2>2, <2>3, <2>4
<1>3. CASE OsReadFails(t)
  <2>1. faults' \in Nat /\ crashes' \in Nat
    BY <1>3, FaultCounts DEF OsReadFails
  <2>2. CASE th[t].boot
    <3> DEFINE l == [th[t] EXCEPT !.pc = "settleRead", !.coded = "LOCKED_UNKNOWN",
                                  !.ret = "idle"]
    <3>1. Step(t, l)
      BY <1>3, <2>2 DEF OsReadFails
    <3>2. l \in Local
      BY DEF Local, Labels, CodedStates, ReturnLabels
    <3>3. LocalOK(broker, forced, l)
      BY <1>3 DEF OsReadFails, At, LocalOK, Local, TERMINAL, GuardLabels, BookLabels, DeadLabels
    <3> QED BY <1>3, <2>1, <3>1, <3>2, <3>3, LocalMoves DEF OsReadFails
  <2>3. CASE ~th[t].boot
    BY <1>3, <2>1, <2>3, GoIdle DEF OsReadFails
  <2> QED BY <2>2, <2>3
<1>4. CASE CommitAppend(t)
  <2>1. th[t].order \in Orders /\ broker[th[t].order].status = "FILLED"
    BY <1>4 DEF CommitAppend, At, LocalOK, Known, GuardLabels, BookLabels
  <2> DEFINE x == [store.execs EXCEPT ![th[t].order] = @ + 1]
  <2>2. x \in [Orders -> Nat] /\ \A o \in Orders : o # th[t].order => x[o] = store.execs[o]
    <3>1. store.execs \in [Orders -> Nat]
      BY DEF Store
    <3> QED BY <2>1, <3>1
  <2>3. store' = [store EXCEPT !.execs = x]
    BY <1>4 DEF CommitAppend
  <2> HIDE DEF x
  <2>4. store' \in Store
    BY <2>2, <2>3 DEF Store
  <2>5. StoreOK(broker, forced, store')
    BY <2>1, <2>2, <2>3 DEF Store, StoreOK, BookOK
  <2> DEFINE l == [th[t] EXCEPT !.pc = "commitLoad"]
  <2>6. l \in Local
    BY DEF Local, Labels
  <2>7. LocalOK(broker, forced, l)
    BY <1>4 DEF CommitAppend, At, LocalOK, Local, GuardLabels, BookLabels, DeadLabels
  <2> QED BY <1>4, <2>4, <2>5, <2>6, <2>7, StoreMoves DEF CommitAppend, bounds
<1>5. CASE CommitLoad(t)
  <2> DEFINE l == [th[t] EXCEPT !.pc = "commitSave", !.copy = store]
  <2>1. l \in Local
    BY DEF Local, Labels
  <2>2. LocalOK(broker, forced, l)
    BY <1>5 DEF CommitLoad, At, LocalOK, Local, GuardLabels, BookLabels, DeadLabels
  <2> QED BY <1>5, <2>1, <2>2, LocalMoves DEF CommitLoad, bounds
<1>6. CASE CommitSave(t)
  <2>1. th[t].order \in Orders /\ broker[th[t].order].status = "FILLED"
    BY <1>6 DEF CommitSave, At, LocalOK, Known, GuardLabels, BookLabels
  <2>2. th[t].copy \in Store /\ StoreOK(broker, forced, th[t].copy)
    BY DEF Local, LocalOK
  <2> DEFINE x == [th[t].copy.applied EXCEPT ![th[t].order] = @ + 1]
  <2>3. x \in [Orders -> Nat]
        /\ \A o \in Orders : o # th[t].order => x[o] = th[t].copy.applied[o]
    <3>1. th[t].copy.applied \in [Orders -> Nat]
      BY <2>2 DEF Store
    <3> QED BY <2>1, <3>1
  <2>4. store' = [th[t].copy EXCEPT !.applied = x]
    BY <1>6 DEF CommitSave
  <2> HIDE DEF x
  <2>5. store' \in Store
    BY <2>2, <2>3, <2>4 DEF Store
  <2>6. StoreOK(broker, forced, store')
    BY <2>1, <2>2, <2>3, <2>4 DEF Store, StoreOK, BookOK
  <2> DEFINE l == [th[t] EXCEPT !.pc = "commitPop", !.copy = EmptyStore]
  <2>7. l \in Local
    <3>1. EmptyStore \in Store /\ "commitPop" \in Labels
      BY IdleOK DEF Labels
    <3> QED BY <3>1 DEF Local
  <2>8. LocalOK(broker, forced, l)
    BY <1>6, IdleOK
       DEF CommitSave, At, LocalOK, Local, GuardLabels, BookLabels, DeadLabels
  <2> QED BY <1>6, <2>5, <2>6, <2>7, <2>8, StoreMoves DEF CommitSave, bounds
<1>7. CASE CommitPop(t)
  <2>1. Dead(broker, th[t].order)
    BY <1>7 DEF CommitPop, PopAndSettle, At, LocalOK, Known, Dead, GuardLabels,
                BookLabels, RawTerminal
  <2> QED BY <1>7, <2>1, PopAndSettlePreserves
          DEF CommitPop, CodedStates, TERMINAL, GuardLabels
<1>8. CASE OsPop(t)
  <2>1. Dead(broker, th[t].order)
    BY <1>8 DEF OsPop, PopAndSettle, At, LocalOK, DeadLabels
  <2>2. th[t].raw \in CodedStates \cup {NoState}
    BY DEF Local, RawTerminal, CodedStates, TERMINAL
  <2> QED BY <1>8, <2>1, <2>2, PopAndSettlePreserves DEF OsPop, GuardLabels
<1>9. CASE SettleRead(t)
  <2>1. th[t].pc = "settleRead" /\ th[t].intent \in Intents /\ Known(broker, th[t].order)
    BY <1>9 DEF SettleRead, At, LocalOK, GuardLabels
  <2>2. PICK p \in {"settleWrite", th[t].ret} :
          Step(t, [th[t] EXCEPT !.lock = store.locks[th[t].intent], !.pc = p])
    BY <1>9 DEF SettleRead
  <2> DEFINE l == [th[t] EXCEPT !.lock = store.locks[th[t].intent], !.pc = p]
  <2>3. l \in Local
    <3>1. store.locks[th[t].intent] \in Lock /\ p \in Labels
      BY <1>a, <2>1, <2>2 DEF Labels, Store
    <3> QED BY <3>1 DEF Local
  <2>4. LocalOK(broker, forced, l)
    BY <1>a, <2>1, <2>2 DEF LocalOK, Local, GuardLabels, BookLabels, DeadLabels
  <2> QED BY <1>9, <2>2, <2>3, <2>4, LocalMoves DEF SettleRead, bounds
<1>10. CASE SettleWrite(t)
  <2>1. /\ th[t].pc = "settleWrite" /\ th[t].intent \in Intents
        /\ Known(broker, th[t].order)
        /\ th[t].coded \in TERMINAL => th[t].order \in forced \/ Dead(broker, th[t].order)
    BY <1>10 DEF SettleWrite, At, LocalOK, GuardLabels
  <2> DEFINE r == th[t].coded \in RESUBMIT_OK_STATES
             k == [th[t].lock EXCEPT !.state = th[t].coded, !.order = th[t].order,
                                     !.reconciled = r]
  <2>2. k \in Lock /\ k.state = th[t].coded /\ k.order = th[t].order
    <3>1. th[t].lock \in Lock /\ th[t].coded \in CodedStates \cup {NoState}
          /\ th[t].order \in Orders \cup {NoOrder}
      BY DEF Local
    <3>2. r \in BOOLEAN
      OBVIOUS
    <3> HIDE DEF r
    <3> QED BY <3>1, <3>2 DEF Lock
  <2>3. LockOK(broker, forced, k)
    BY <2>1, <2>2 DEF LockOK
  <2>4. store' \in Store /\ StoreOK(broker, forced, store')
    BY <1>10, <2>1, <2>2, <2>3, LockWritten DEF SettleWrite
  <2> DEFINE l == [th[t] EXCEPT !.pc = th[t].ret, !.lock = NoLock]
  <2>5. l \in Local
    BY <1>a, IdleOK DEF Local, IdleThread
  <2>6. LocalOK(broker, forced, l)
    BY <1>a, <2>1 DEF LocalOK, Local
  <2> QED BY <1>10, <2>4, <2>5, <2>6, StoreMoves DEF SettleWrite, bounds
<1> QED BY <1>1, <1>2, <1>3, <1>4, <1>5, <1>6, <1>7, <1>8, <1>9, <1>10 DEF StatusStep

\* Asking for a cancel moves the broker forward too.
LEMMA AskGrows ==
  ASSUME IInv, NEW o \in Orders, AskToCancel(o) \/ UNCHANGED broker
  PROVE  /\ broker' \in BrokerType /\ BrokerGrows(broker, broker')
         /\ BrokerOK(broker')
<1>1. broker \in BrokerType
      /\ BrokerOK(broker)
  BY DEF IInv, TypeOK, BrokerType
<1>2. broker' \in BrokerType
  BY <1>1 DEF AskToCancel, BrokerType, RawLive
<1>3. BrokerGrows(broker, broker')
  BY <1>1 DEF AskToCancel, BrokerType, BrokerGrows, RawTerminal, NoState
<1>4. BrokerOK(broker')
  BY <1>1 DEF AskToCancel, BrokerOK, Known, BrokerType, RawLive, NoState
<1> QED BY <1>2, <1>3, <1>4

\* A DELETE, accepted, refused or failed, leaves the thread with a live label.
LEMMA DeletePreserves ==
  ASSUME IInv, NEW t \in Threads, NEW p \in {"confirm", "checkDelete"},
         th[t].pc = "delete", Step(t, [th[t] EXCEPT !.pc = p]),
         AskToCancel(th[t].order) \/ UNCHANGED broker,
         UNCHANGED <<store, process, history>>, faults' \in Nat, crashes' \in Nat
  PROVE  IInv'
<1>1. /\ th[t] \in Local /\ LocalOK(broker, forced, th[t])
      /\ store \in Store /\ StoreOK(broker, forced, store)
      /\ th[t].order \in Orders
  BY Facts DEF LocalOK, Known, GuardLabels
<1>2. /\ broker' \in BrokerType /\ BrokerGrows(broker, broker')
      /\ BrokerOK(broker')
  BY <1>1, AskGrows
<1> DEFINE l == [th[t] EXCEPT !.pc = p]
<1>3. l \in Local
  BY <1>1 DEF Local, Labels
<1>4. LocalOK(broker, forced, l)
  BY <1>1 DEF LocalOK, Local, GuardLabels, BookLabels, DeadLabels
<1>5. LocalOK(broker', forced, l) /\ StoreOK(broker', forced, store)
  BY <1>1, <1>2, <1>3, <1>4, LocalStable, StoreStable
<1> QED BY <1>1, <1>2, <1>3, <1>5, ThreadMoves DEF process, history, IInv, TypeOK

\* Whatever the canceller saw, it goes on knowing enough.
LEMMA OnStatusOK ==
  ASSUME NEW b, NEW f, NEW t \in Threads, NEW raw, th[t] \in Local,
         LocalOK(b, f, th[t]), th[t].pc \in {"cancelStatus", "checkDelete"},
         raw \in RawTerminal => Dead(b, th[t].order)
  PROVE  OnStatus(t, raw) \in Local /\ LocalOK(b, f, OnStatus(t, raw))
<1> DEFINE l == OnStatus(t, raw)
<1>1. Known(b, th[t].order)
  BY DEF LocalOK, GuardLabels
<1>2. CASE raw = "FILLED"
  <2> DEFINE m == [th[t] EXCEPT !.pc = "osGet", !.ret = "idle"]
  <2>1. OnStatus(t, raw) = m
    BY <1>2 DEF OnStatus
  <2>2. m \in Local
    BY DEF Local, Labels, ReturnLabels
  <2>3. LocalOK(b, f, m)
    BY <1>1 DEF Local, LocalOK, GuardLabels, BookLabels, DeadLabels
  <2> QED BY <2>1, <2>2, <2>3
<1>3. CASE raw \in RawTerminal \ {"FILLED"}
  <2>1. l = [th[t] EXCEPT !.pc = "finalize"]
    BY <1>3 DEF OnStatus
  <2> QED BY <1>1, <1>3, <2>1 DEF Local, Labels, LocalOK, GuardLabels, BookLabels, DeadLabels
<1>4. CASE raw \notin RawTerminal
  <2>1. l = OnLive(t, raw)
    BY <1>4 DEF OnStatus, RawTerminal
  <2>2. CASE th[t].cancelling
    <3>1. PICK p \in {"confirm", "retryDelete"} : l = [th[t] EXCEPT !.pc = p]
      BY <2>1, <2>2 DEF OnLive
    <3> QED BY <1>1, <2>2, <3>1 DEF Local, Labels, LocalOK, GuardLabels,
            BookLabels, DeadLabels
  <2>3. CASE ~th[t].cancelling
    <3>1. PICK r \in {"confirm", "delete"} :
            l = [th[t] EXCEPT !.pc = "settleRead", !.coded = "CANCEL_REQUESTED",
                              !.ret = r, !.cancelling = TRUE]
      BY <2>1, <2>3 DEF OnLive
    <3> DEFINE m == [th[t] EXCEPT !.pc = "settleRead", !.coded = "CANCEL_REQUESTED",
                                  !.ret = r, !.cancelling = TRUE]
    <3>2. m \in Local
      <4>1. "settleRead" \in Labels /\ r \in ReturnLabels
            /\ "CANCEL_REQUESTED" \in CodedStates
        BY DEF Labels, ReturnLabels, CodedStates, LIVE
      <4> QED BY <4>1 DEF Local
    <3>3. LocalOK(b, f, m)
      BY <1>1 DEF Local, LocalOK, TERMINAL, GuardLabels, BookLabels, DeadLabels
    <3> QED BY <3>1, <3>2, <3>3
  <2> QED BY <2>2, <2>3
<1> QED BY <1>2, <1>3, <1>4

\* Cancelling an order.
LEMMA CancelPreserves ==
  ASSUME IInv, NEW t \in Threads, CancelStep(t)
  PROVE  IInv'
<1>0. /\ th[t] \in Local /\ LocalOK(broker, forced, th[t])
      /\ store \in Store /\ StoreOK(broker, forced, store)
      /\ faults \in Nat /\ crashes \in Nat
  BY Facts
<1> USE <1>0
<1>1. CASE CancelStatus(t)
  <2>1. Known(broker, th[t].order)
    BY <1>1 DEF CancelStatus, LocalOK, GuardLabels
  <2>2. /\ OnStatus(t, broker[th[t].order].status) \in Local
        /\ LocalOK(broker, forced, OnStatus(t, broker[th[t].order].status))
    BY <1>1, <2>1, OnStatusOK DEF CancelStatus, Known, Dead
  <2> QED BY <1>1, <2>2, LocalMoves DEF CancelStatus, bounds
<1>2. CASE CancelStatusFails(t)
  <2>1. OnStatus(t, "") \in Local /\ LocalOK(broker, forced, OnStatus(t, ""))
    BY <1>2, OnStatusOK DEF CancelStatusFails, RawTerminal
  <2> QED BY <1>2, <2>1, FaultCounts, LocalMoves DEF CancelStatusFails
<1>3. CASE DeleteAccepted(t)
  BY <1>3, DeletePreserves DEF DeleteAccepted, At, bounds
<1>4. CASE DeleteRefused(t)
  BY <1>4, DeletePreserves DEF DeleteRefused, At, bounds
<1>5. CASE DeleteFails(t)
  BY <1>5, FaultCounts, DeletePreserves DEF DeleteFails, At
<1>6. CASE RetryDelete(t)
  <2>1. CASE Step(t, [th[t] EXCEPT !.pc = "delete", !.tries = @ + 1])
    <3> DEFINE n == th[t].tries + 1
               l == [th[t] EXCEPT !.pc = "delete", !.tries = n]
    <3>1. l \in Local
      <4>1. n \in Nat
        BY DEF Local
      <4> HIDE DEF n
      <4> QED BY <4>1 DEF Local, Labels
    <3>2. LocalOK(broker, forced, l)
      BY <1>6 DEF RetryDelete, At, LocalOK, Local, GuardLabels, BookLabels, DeadLabels
    <3> QED BY <1>6, <2>1, <3>1, <3>2, LocalMoves DEF RetryDelete, bounds
  <2>2. CASE Step(t, [th[t] EXCEPT !.pc = "settleRead", !.coded = "LOCKED_UNKNOWN",
                                   !.ret = "idle"])
    <3> DEFINE l == [th[t] EXCEPT !.pc = "settleRead", !.coded = "LOCKED_UNKNOWN",
                                  !.ret = "idle"]
    <3>1. l \in Local
      BY DEF Local, Labels, CodedStates, ReturnLabels
    <3>2. LocalOK(broker, forced, l)
      BY <1>6 DEF RetryDelete, At, LocalOK, Local, TERMINAL, GuardLabels,
                  BookLabels, DeadLabels
    <3> QED BY <1>6, <2>2, <3>1, <3>2, LocalMoves DEF RetryDelete, bounds
  <2> QED BY <1>6, <2>1, <2>2 DEF RetryDelete
<1>7. CASE Confirm(t)
  <2>1. CASE TerminalAtBroker(th[t].order) /\ Step(t, [th[t] EXCEPT !.pc = "finalize"])
    <3>1. Dead(broker, th[t].order) /\ Known(broker, th[t].order)
      BY <1>7, <2>1 DEF Confirm, At, LocalOK, Known, Dead, GuardLabels, TerminalAtBroker
    <3> QED BY <1>7, <2>1, <3>1, PcMoves DEF Confirm, At, bounds, Labels, GuardLabels,
            BookLabels, DeadLabels
  <2>2. CASE Step(t, IdleThread)
    BY <1>7, <2>2, GoIdle DEF Confirm, bounds
  <2> QED BY <1>7, <2>1, <2>2 DEF Confirm
<1>8. CASE Finalize(t)
  <2> DEFINE b == broker[th[t].order]
  <2>1. /\ th[t].pc = "finalize" /\ Dead(broker, th[t].order)
        /\ Known(broker, th[t].order)
    BY <1>8 DEF Finalize, At, LocalOK, GuardLabels, DeadLabels
  <2>2. CASE b.status = "FILLED"
    <3>1. PICK r \in {"duringCancel", "idle"} :
            Step(t, [th[t] EXCEPT !.pc = "osGet", !.ret = r])
      BY <1>8, <2>2 DEF Finalize
    <3> DEFINE l == [th[t] EXCEPT !.pc = "osGet", !.ret = r]
    <3>2. l \in Local
      BY DEF Local, Labels, ReturnLabels
    <3>3. LocalOK(broker, forced, l)
      BY <2>1 DEF LocalOK, Local, GuardLabels, BookLabels, DeadLabels
    <3> QED BY <1>8, <3>1, <3>2, <3>3, LocalMoves DEF Finalize, bounds
  <2>3. CASE b.status # "FILLED" /\ b.filled > 0
    <3> DEFINE l == [th[t] EXCEPT !.pc = "popPartial", !.ret = "freezeLoad"]
    <3>1. Step(t, l)
      BY <1>8, <2>3 DEF Finalize
    <3>2. l \in Local
      BY DEF Local, Labels, ReturnLabels
    <3>3. LocalOK(broker, forced, l)
      BY <2>1 DEF LocalOK, Local, GuardLabels, BookLabels, DeadLabels
    <3> QED BY <1>8, <3>1, <3>2, <3>3, LocalMoves DEF Finalize, bounds
  <2>4. CASE b.status # "FILLED" /\ ~(b.filled > 0)
    <3> DEFINE raw == map_broker_status(b.status, 0, 0, th[t].cancelling)
               l == [th[t] EXCEPT !.pc = "popClean", !.ret = "idle", !.raw = raw]
    <3>1. Step(t, l)
      BY <1>8, <2>4 DEF Finalize
    <3>2. raw \in RawTerminal
      <4>1. ~FullyFilled(0, 0) /\ ~PartlyFilled(0, 0)
        BY DEF FullyFilled, PartlyFilled
      <4>2. b.status \in {"CANCELED", "REJECTED", "EXPIRED"}
        BY <2>1, <2>4 DEF Dead, RawTerminal
      <4>3. map_broker_status(b.status, 0, 0, th[t].cancelling) = b.status
        BY <4>1, <4>2 DEF map_broker_status, DeadCode, RawTerminal
      <4> QED BY <4>2, <4>3 DEF RawTerminal
    <3> HIDE DEF raw
    <3>3. l \in Local
      BY <3>2 DEF Local, Labels, ReturnLabels
    <3>4. LocalOK(broker, forced, l)
      BY <2>1 DEF LocalOK, Local, GuardLabels, BookLabels, DeadLabels
    <3> QED BY <1>8, <3>1, <3>3, <3>4, LocalMoves DEF Finalize, bounds
  <2> QED BY <2>2, <2>3, <2>4
<1>9. CASE FinalizeFails(t)
  BY <1>9, FaultCounts, GoIdle DEF FinalizeFails
<1>10. CASE DuringCancel(t)
  <2> DEFINE l == [th[t] EXCEPT !.pc = "settleRead", !.ret = "idle",
                                !.coded = "FILLED_DURING_CANCEL"]
  <2>1. l \in Local
    BY DEF Local, Labels, ReturnLabels, CodedStates, TERMINAL
  <2>2. LocalOK(broker, forced, l)
    BY <1>10 DEF DuringCancel, At, LocalOK, Local, GuardLabels, BookLabels, DeadLabels
  <2> QED BY <1>10, <2>1, <2>2, LocalMoves DEF DuringCancel, bounds
<1>11. CASE PopPartial(t)
  <2>1. Dead(broker, th[t].order)
    BY <1>11 DEF PopPartial, PopAndSettle, At, LocalOK, DeadLabels
  <2> QED BY <1>11, <2>1, PopAndSettlePreserves
          DEF PopPartial, CodedStates, TERMINAL, GuardLabels
<1>12. CASE PopClean(t)
  <2>1. Dead(broker, th[t].order)
    BY <1>12 DEF PopClean, PopAndSettle, At, LocalOK, DeadLabels
  <2>2. th[t].raw \in CodedStates \cup {NoState}
    BY DEF Local, RawTerminal, CodedStates, TERMINAL
  <2> QED BY <1>12, <2>1, <2>2, PopAndSettlePreserves DEF PopClean, GuardLabels
<1>13. CASE FreezeLoad(t)
  <2> DEFINE l == [th[t] EXCEPT !.pc = "freezeSave", !.copy = store]
  <2>1. l \in Local
    BY DEF Local, Labels
  <2>2. LocalOK(broker, forced, l)
    BY <1>13 DEF FreezeLoad, At, LocalOK, Local, GuardLabels, BookLabels, DeadLabels
  <2> QED BY <1>13, <2>1, <2>2, LocalMoves DEF FreezeLoad, bounds
<1>14. CASE FreezeSave(t)
  <2>1. store' \in Store /\ StoreOK(broker, forced, store')
    BY <1>14 DEF FreezeSave, Local, Store, LocalOK, StoreOK, BookOK
  <2> QED BY <1>14, <2>1, IdleOK, StoreMoves DEF FreezeSave, bounds
<1> QED BY <1>1, <1>2, <1>3, <1>4, <1>5, <1>6, <1>7, <1>8, <1>9, <1>10, <1>11,
           <1>12, <1>13, <1>14 DEF CancelStep

\* Clearing a dead record.
LEMMA ClearPreserves ==
  ASSUME IInv, NEW t \in Threads, ClearStep(t)
  PROVE  IInv'
<1>0. /\ th[t] \in Local /\ LocalOK(broker, forced, th[t])
      /\ store \in Store /\ StoreOK(broker, forced, store)
      /\ faults \in Nat /\ crashes \in Nat
  BY Facts
<1> USE <1>0
<1>1. CASE ClearRead(t)
  <2>1. Known(broker, th[t].order)
    BY <1>1 DEF ClearRead, At, LocalOK, GuardLabels
  <2>2. PICK p \in {"clearGet", "idle"} :
          /\ Step(t, [th[t] EXCEPT !.pc = p])
          /\ p = "clearGet" => Dead(broker, th[t].order)
    BY <1>1, <2>1 DEF ClearRead, Dead, Known
  <2> QED BY <1>1, <2>1, <2>2, PcMoves DEF ClearRead, At, bounds, Labels,
          GuardLabels, BookLabels, DeadLabels
<1>2. CASE ClearUnverified(t)
  <2> DEFINE l == [th[t] EXCEPT !.pc = "clearGet", !.force = TRUE]
  <2>1. l \in Local
    BY DEF Local, Labels
  <2>2. LocalOK(broker, forced, l)
    BY <1>2 DEF ClearUnverified, At, LocalOK, Local, GuardLabels, BookLabels, DeadLabels
  <2> QED BY <1>2, <2>1, <2>2, FaultCounts, LocalMoves DEF ClearUnverified
<1>3. CASE ClearGet(t)
  <2> DEFINE o == th[t].order
             l == [th[t] EXCEPT !.pc = "settleRead", !.coded = "CANCELED",
                                !.ret = "clearPop"]
  <2>1. Known(broker, o) /\ (th[t].force \/ Dead(broker, o)) /\ th[t].pc = "clearGet"
    BY <1>3 DEF ClearGet, At, LocalOK, GuardLabels
  <2>2. CASE o \in store.pending
    <3>1. Step(t, l) /\ forced' = IF th[t].force THEN forced \cup {o} ELSE forced
      BY <1>3, <2>2 DEF ClearGet
    <3>2. l \in Local
      BY DEF Local, Labels, ReturnLabels, CodedStates, TERMINAL
    <3>3. forced \subseteq forced' /\ forced' \subseteq Orders
      BY <2>1, <3>1, Facts DEF Known
    <3>4. BrokerGrows(broker, broker)
      BY DEF BrokerGrows
    <3>5. StoreOK(broker, forced', store) /\ StoreOK(broker, forced', th[t].copy)
      BY <3>3, <3>4, StoreStable DEF LocalOK, Local
    <3>6. o \in forced' \/ Dead(broker, o)
      BY <2>1, <3>1
    <3>7. LocalOK(broker, forced', l)
      BY <2>1, <3>5, <3>6 DEF LocalOK, Local, GuardLabels, BookLabels, DeadLabels
    <3>8. /\ broker \in BrokerType
          /\ BrokerOK(broker)
      BY Facts
    <3> QED BY <1>3, <3>1, <3>2, <3>3, <3>4, <3>5, <3>7, <3>8, ThreadMoves
            DEF ClearGet, process, bounds, IInv, TypeOK
  <2>3. CASE o \notin store.pending
    BY <1>3, <2>3, GoIdle DEF ClearGet, history, bounds
  <2> QED BY <2>2, <2>3
<1>4. CASE ClearPop(t)
  <2>1. store' \in Store /\ StoreOK(broker, forced, store')
    BY <1>4, PendingPopped DEF ClearPop
  <2> QED BY <1>4, <2>1, IdleOK, StoreMoves DEF ClearPop, bounds
<1> QED BY <1>1, <1>2, <1>3, <1>4 DEF ClearStep

-----------------------------------------------------------------------------
(* The steps of the process and of the broker. *)

\* A restart's sweep takes up the orders it found pending.
LEMMA BootPreserves ==
  ASSUME IInv, NEW t \in Threads, BootPoll(t)
  PROVE  IInv'
<1>1. PICK o \in todo :
        /\ todo' = todo \ {o}
        /\ Step(t, [IdleThread EXCEPT !.pc = "osGet", !.order = o,
                      !.intent = broker[o].intent, !.boot = TRUE])
  BY DEF BootPoll
<1>2. Known(broker, o) /\ broker[o].intent \in Intents
  BY SharedFacts DEF BrokerOK, Known
<1> DEFINE l == [IdleThread EXCEPT !.pc = "osGet", !.order = o,
                   !.intent = broker[o].intent, !.boot = TRUE]
<1>3. l \in Local
  BY <1>2, IdleOK DEF Local, Labels, Known
<1>4. LocalOK(broker, forced, l)
  <2>1. l.pc = "osGet" /\ l.order = o /\ l.intent = broker[o].intent
        /\ l.copy = EmptyStore /\ l.ret = "idle"
    BY DEF IdleThread
  <2> QED BY <1>2, <2>1, IdleOK DEF LocalOK, GuardLabels, BookLabels, DeadLabels
<1>5. BrokerGrows(broker, broker)
  BY DEF BrokerGrows
<1>6. /\ broker \in BrokerType /\ store \in Store /\ StoreOK(broker, forced, store)
      /\ BrokerOK(broker)
  BY Facts
<1> QED BY <1>1, <1>3, <1>4, <1>5, <1>6, ThreadMoves
        DEF BootPoll, history, bounds, IInv, TypeOK

LEMMA CrashPreserves ==
  ASSUME IInv, Crash
  PROVE  IInv'
<1>1. th' = [t \in Threads |-> IdleThread]
      /\ \A t \in Threads : th[t].pc = "savePending" => th[t].order \in Orders
  BY Facts DEF Crash, LocalOK, Known, GuardLabels
<1>2. th' \in [Threads -> Local] /\ \A t \in Threads : LocalOK(broker, forced, th'[t])
  BY <1>1, IdleOK
<1>3. orphaned' \subseteq Orders
  BY <1>1 DEF Crash, IInv, TypeOK
<1>4. /\ up' = FALSE /\ todo' = {} /\ crashes' = crashes + 1
      /\ UNCHANGED <<broker, store, forced, faults>>
  BY DEF Crash
<1>5. TypeOK'
  <2>1. crashes' \in Nat
    BY <1>4, SharedFacts
  <2> QED BY <1>2, <1>3, <1>4, <2>1 DEF IInv, TypeOK
<1> QED BY <1>2, <1>4, <1>5 DEF IInv

LEMMA RestartPreserves ==
  ASSUME IInv, Restart
  PROVE  IInv'
<1>1. store.pending \subseteq Orders /\ \A o \in store.pending : Known(broker, o)
  BY SharedFacts DEF StoreOK, Known
<1>2. TypeOK'
  BY <1>1 DEF Restart, IInv, TypeOK, history, bounds
<1> QED BY <1>1, <1>2 DEF Restart, IInv, history, bounds

\* Whatever the broker does to a live order, every dead order stays dead.
LEMMA BrokerPreserves ==
  ASSUME IInv, NEW o \in Orders, BrokerStep(o)
  PROVE  IInv'
<1>1. broker \in BrokerType /\ BrokerOK(broker)
  BY SharedFacts
<1>2. broker[o].status \in RawLive
  BY DEF BrokerStep, BrokerFills, BrokerCancels, BrokerRejects, BrokerExpires,
         AliveAtBroker, RawLive
<1>3. broker' \in BrokerType /\ BrokerOK(broker') /\ BrokerGrows(broker, broker')
  <2>1. CASE BrokerFills(o)
    <3> DEFINE n == broker[o].filled + 1
               r == IF n = Qty THEN "FILLED" ELSE broker[o].status
    <3>1. n \in 0..Qty /\ n # broker[o].filled
      BY <1>1, <1>2, ConstantsAssumption DEF BrokerType, BrokerOK
    <3>2. /\ r \in {"FILLED", broker[o].status} /\ (r # "FILLED" => n # Qty)
          /\ broker' = [broker EXCEPT ![o] = [status |-> r, filled |-> n,
                                              intent |-> broker[o].intent]]
      BY <2>1 DEF BrokerFills
    <3> HIDE DEF n, r
    <3>3. broker' \in BrokerType
      BY <1>1, <1>2, <3>1, <3>2 DEF BrokerType, RawTerminal
    <3>4. BrokerGrows(broker, broker')
      BY <1>1, <1>2, <3>2 DEF BrokerType, BrokerGrows, RawTerminal, RawLive, NoState
    <3>5. BrokerOK(broker')
      BY <1>1, <1>2, <3>1, <3>2, ConstantsAssumption
         DEF BrokerType, BrokerOK, Known, RawLive, NoState
    <3> QED BY <3>3, <3>4, <3>5
  <2>2. CASE BrokerCancels(o) \/ BrokerRejects(o) \/ BrokerExpires(o)
    <3>1. PICK r \in RawTerminal : broker' = [broker EXCEPT ![o].status = r]
      BY <2>2 DEF BrokerCancels, BrokerRejects, BrokerExpires, RawTerminal
    <3>2. broker' \in BrokerType
      BY <1>1, <3>1 DEF BrokerType
    <3>3. BrokerGrows(broker, broker')
      BY <1>1, <1>2, <3>1 DEF BrokerType, BrokerGrows, RawTerminal, RawLive, NoState
    <3>4. BrokerOK(broker')
      BY <1>1, <1>2, <3>1 DEF BrokerType, BrokerOK, Known, RawTerminal, RawLive, NoState
    <3> QED BY <3>2, <3>3, <3>4
  <2> QED BY <2>1, <2>2 DEF BrokerStep
<1>4. StoreOK(broker', forced, store)
  BY <1>3, SharedFacts, StoreStable
<1>5. \A t \in Threads : LocalOK(broker', forced, th[t])
  BY <1>3, Facts, LocalStable
<1>6. \A q \in todo : Known(broker', q)
  BY <1>3 DEF IInv, Known, BrokerGrows
<1>7. TypeOK'
  BY <1>3 DEF BrokerStep, BrokerType, process, history, bounds, IInv, TypeOK
<1> QED BY <1>3, <1>4, <1>5, <1>6, <1>7 DEF BrokerStep, process, history, IInv

-----------------------------------------------------------------------------
(* The theorems. *)

LEMMA InitIInv == Init => IInv
<1> SUFFICES ASSUME Init PROVE IInv
  OBVIOUS
<1>1. /\ IdleThread \in Local /\ EmptyStore \in Store
      /\ \A t \in Threads : LocalOK(broker, forced, th[t])
      /\ StoreOK(broker, forced, store)
  BY IdleOK DEF Init
<1>2. TypeOK
  BY <1>1, ConstantsAssumption DEF Init, TypeOK
<1>3. BrokerOK(broker)
  BY DEF Init, BrokerOK, Known, RawLive, NoState
<1>4. \A o \in todo : Known(broker, o)
  BY DEF Init
<1> QED BY <1>1, <1>2, <1>3, <1>4 DEF IInv

LEMMA NextIInv == IInv /\ [Next]_vars => IInv'
<1> SUFFICES ASSUME IInv, [Next]_vars PROVE IInv'
  OBVIOUS
<1>1. CASE \E t \in Threads : BeginStep(t) \/ ThreadStep(t) \/ BootPoll(t)
  BY <1>1, BeginPreserves, PlacePreserves, StatusPreserves, CancelPreserves,
     ClearPreserves, BootPreserves DEF ThreadStep
<1>2. CASE \E o \in Orders : BrokerStep(o)
  BY <1>2, BrokerPreserves
<1>3. CASE Crash
  BY <1>3, CrashPreserves
<1>4. CASE Restart
  BY <1>4, RestartPreserves
<1>5. CASE UNCHANGED vars
  BY <1>5 DEF vars, IInv, TypeOK
<1> QED BY <1>1, <1>2, <1>3, <1>4, <1>5 DEF Next

\* The inductive invariant holds of every behaviour: every thread knows what
\* its label says it knows, and every copy of the state file is sound.
THEOREM Inductive == Spec => []IInv
  BY InitIInv, NextIInv, PTL DEF Spec

\* Type correctness of the order path: the coded states, the lock fields and
\* the pending ids executor.py writes are always ones it can read back.
THEOREM TypeCorrect == Spec => []TypeOK
<1>1. IInv => TypeOK
  BY DEF IInv
<1> QED BY <1>1, Inductive, PTL

\* No interleaving of pollers, cancellers and crashes, and no lost update of
\* the state file, books a fill the broker did not report (order_status).
THEOREM NoInventedFill == Spec => []BookedOnlyIfFilled
<1>1. IInv => BookedOnlyIfFilled
  BY DEF IInv, StoreOK, BookOK, BookedOnlyIfFilled
<1> QED BY <1>1, Inductive, PTL

\* ... and none lets a lock reach a terminal state while its order is still
\* live at Schwab, unless the operator forced it (_settle_order).
THEOREM LockReleasedByBroker == Spec => []LockNeverFreesLive
<1>1. IInv => LockNeverFreesLive
  BY DEF IInv, StoreOK, LockOK, Dead, LockNeverFreesLive, TerminalAtBroker
<1> QED BY <1>1, Inductive, PTL

-----------------------------------------------------------------------------
(* One thread.  Its private copies are the file.  What makes the rest       *)
(* inductive is where the pending record and the lock are at each label:    *)
(* which steps run with the record still there, which after its removal,    *)
(* and what the lock may then say.                                          *)
OneThread == \E t \in Threads : Threads = {t}

-----------------------------------------------------------------------------
(* The invariant, of the broker b, the file s, the orders g the app could  *)
(* not know of or was told to drop, the sweep's list d, and the thread's   *)
(* locals l.                                                               *)

NotFilled(b, o) == b[o].status \in RawTerminal \ {"FILLED"}
DeadCodes == TERMINAL \ {"FILLED", "FILLED_DURING_CANCEL"}
Review == {"FILLED_DURING_CANCEL", "PARTIAL_FILL_CANCELED"}
Settling == {"settleRead", "settleWrite"}

\* A settle leaves the pending record alone, runs after it was popped, or
\* (clear) before it is.
KeepsRecord(l) == \/ l.coded = "CANCEL_REQUESTED" /\ l.ret \in {"confirm", "delete"}
                  \/ l.coded = "LOCKED_UNKNOWN" /\ l.ret = "idle"
Ends(l)        == /\ l.coded \in TERMINAL
                  /\ \/ l.ret \in {"idle", "freezeLoad"}
                     \/ l.ret = "duringCancel" /\ l.coded = "FILLED"
Clears(l)      == l.coded = "CANCELED" /\ l.ret = "clearPop"

\* Labels at which the thread's order has its pending record ...
RecordLabels == {"readPrior", "saveLock", "osGet", "osRead", "commitAppend", "commitLoad",
                 "commitSave", "commitPop", "osPop", "cancelStatus", "checkDelete", "delete",
                 "retryDelete", "confirm", "finalize", "popPartial", "popClean", "clearGet",
                 "clearRead", "clearPop"}
HasRecord(l) == l.pc \in RecordLabels \/ (l.pc \in Settling /\ (KeepsRecord(l) \/ Clears(l)))

\* ... and at which its intent has none.
NoRecordLabels == {"transmit", "savePending", "duringCancel", "freezeLoad", "freezeSave"}
NoRecord(l) == l.pc \in NoRecordLabels \/ (l.pc \in Settling /\ Ends(l))

\* The orders the app holds, or is excused from holding.
Kept(s, g, l) == s.pending \cup g \cup {o \in {l.order} : l.pc = "savePending"}

Orderly(b, s, g, l) ==
  /\ \A o \in Orders : b[o].status \in RawLive => o \in Kept(s, g, l)
  /\ \A o, p \in Orders :
       o # p /\ b[o].status \in RawLive /\ b[p].status \in RawLive
             /\ b[o].intent = b[p].intent => o \in g \/ p \in g
  /\ \A o \in Orders : b[o].status = "FILLED" /\ o \notin Kept(s, g, l)
       => s.execs[o] > 0 /\ s.applied[o] > 0
  /\ \A o, p \in s.pending : b[o].intent = b[p].intent => o = p

\* Where the thread and its order are.
Placed(b, s, d, l) ==
  /\ l.pc # "idle" => l.order \notin d
  /\ l.pc \in {"commitSave", "freezeSave"} => l.copy = s
  /\ l.pc = "settleWrite" => l.lock = s.locks[l.intent]
  /\ l.pc \notin GuardLabels \cup {"idle"} => b[l.order].intent = l.intent
  /\ HasRecord(l) => l.order \in s.pending
  /\ NoRecord(l) => \A p \in s.pending : b[p].intent # l.intent

\* Where its helpers return to.
Returns(b, l) ==
  /\ l.pc \in {"osGet", "osRead"} =>
       l.ret = "idle" \/ (l.ret = "duringCancel" /\ b[l.order].status = "FILLED")
  /\ l.pc \in BookLabels => l.ret \in {"idle", "duringCancel"}
  /\ l.pc \in {"osPop", "popClean"} => l.ret = "idle"
  /\ l.pc = "popPartial" => l.ret = "freezeLoad"
  /\ l.pc \in Settling => KeepsRecord(l) \/ Ends(l) \/ Clears(l)

\* What it has read of its order and booked of it.
Booked(b, s, g, l) ==
  /\ l.pc \in {"osPop", "popPartial", "popClean"} => NotFilled(b, l.order)
  /\ l.pc \in {"osPop", "popClean"} => l.raw \in DeadCodes
  /\ l.pc = "clearGet" => l.force \/ NotFilled(b, l.order)
  /\ l.pc = "clearPop" \/ (l.pc \in Settling /\ Clears(l)) =>
       l.order \in g \/ NotFilled(b, l.order)
  /\ l.pc \in {"commitLoad", "commitSave", "commitPop"} => s.execs[l.order] > 0
  /\ l.pc = "commitPop" => s.applied[l.order] > 0

\* An intent under review has no record, and nobody is placing or settling it.
Reviewed(b, s, l) ==
  \A i \in Intents : s.locks[i].state \in Review =>
    /\ \A p \in s.pending : b[p].intent # i
    /\ l.intent = i => l.pc \in {"idle", "guardLock", "freezeLoad", "freezeSave"}

Tracked(b, s, g, d, l) ==
  /\ d \subseteq s.pending
  /\ Orderly(b, s, g, l)
  /\ Placed(b, s, d, l)
  /\ Returns(b, l)
  /\ Booked(b, s, g, l)
  /\ Reviewed(b, s, l)

\* As long as nothing has crashed: a fill is booked when its record goes ...
Held == {"WORKING", "CANCEL_REQUESTED", "LOCKED_UNKNOWN"}
Booking(l, o) == l.order = o /\ l.pc \in {"commitLoad", "commitSave", "commitPop"}

CountedOnce(s, l) ==
  /\ \A o \in Orders : s.execs[o] <= 1 /\ s.applied[o] <= 1
  /\ \A o \in s.pending : ~Booking(l, o) => s.execs[o] = 0 /\ s.applied[o] = 0
  /\ l.pc = "savePending" => s.execs[l.order] = 0 /\ s.applied[l.order] = 0
  /\ l.pc \in {"commitLoad", "commitSave"} => s.applied[l.order] = 0

\* ... and the lock of an intent that has a record names it and stays open
\* until it is settled.
LockOfRecord(b, s, l) ==
  /\ \A o \in s.pending :
       ~(l.order = o /\ l.pc \in {"readPrior", "saveLock", "clearPop"}) =>
         LET k == s.locks[b[o].intent] IN k.state \in Held /\ k.order = o
  /\ l.pc \in Settling /\ l.coded \in DeadCodes => s.locks[l.intent].state \in Held
  /\ l.pc = "clearPop" => s.locks[l.intent].state \in TERMINAL
  /\ \A i \in Intents : s.locks[i].state \notin TERMINAL \cup {NoState} =>
       \/ s.locks[i].order \in s.pending /\ b[s.locks[i].order].intent = i
       \/ l.pc \in Settling /\ l.intent = i /\ l.coded \in TERMINAL

SerialInv ==
  \A t \in Threads :
    /\ Tracked(broker, store, orphaned \cup forced, todo, th[t])
    /\ crashes = 0 => CountedOnce(store, th[t]) /\ LockOfRecord(broker, store, th[t])

-----------------------------------------------------------------------------
(* One lemma per kind of move. *)

\* The invariant of the thread's next locals, file and broker is the invariant
\* of the next state.
LEMMA Closes ==
  ASSUME NEW t \in Threads, Threads = {t}, NEW m, th'[t] = m,
         Tracked(broker', store', orphaned' \cup forced', todo', m),
         crashes' = 0 => CountedOnce(store', m) /\ LockOfRecord(broker', store', m)
  PROVE  SerialInv'
BY DEF SerialInv

\* Labels that ask nothing of the books and the lock.
Quiet(l) == l.pc \notin {"savePending", "commitLoad", "commitSave", "commitPop",
                         "readPrior", "saveLock", "clearPop"} \cup Settling

\* Moves between them leave the orders, the counts and the locks as they were.
LEMMA QuietMoves ==
  ASSUME NEW b, NEW s \in Store, NEW g, NEW d, NEW l \in Local, NEW m \in Local,
         Tracked(b, s, g, d, l), Quiet(l), Quiet(m),
         Placed(b, s, d, m), Returns(b, m), Booked(b, s, g, m), Reviewed(b, s, m)
  PROVE  /\ Tracked(b, s, g, d, m)
         /\ CountedOnce(s, l) => CountedOnce(s, m)
         /\ LockOfRecord(b, s, l) => LockOfRecord(b, s, m)
<1>1. Orderly(b, s, g, m)
  BY DEF Tracked, Orderly, Kept, Quiet
<1>2. CountedOnce(s, l) => CountedOnce(s, m)
  BY DEF CountedOnce, Quiet, Booking
<1>3. LockOfRecord(b, s, l) => LockOfRecord(b, s, m)
  BY DEF LockOfRecord, Quiet
<1> QED BY <1>1, <1>2, <1>3 DEF Tracked

LEMMA IdleTracked ==
  ASSUME NEW b, NEW s, NEW g, NEW d
  PROVE  /\ Placed(b, s, d, IdleThread) /\ Returns(b, IdleThread)
         /\ Booked(b, s, g, IdleThread) /\ Quiet(IdleThread)
         /\ \A l : Reviewed(b, s, l) => Reviewed(b, s, IdleThread)
<1>1. IdleThread.pc = "idle"
  BY DEF IdleThread
<1> QED BY <1>1 DEF Placed, Returns, Booked, Reviewed, Quiet, HasRecord, NoRecord,
         RecordLabels, NoRecordLabels, Settling, BookLabels, GuardLabels

\* What the invariants say of the thread that is about to move.
LEMMA Here ==
  ASSUME IInv, SerialInv, NEW t \in Threads
  PROVE  /\ th[t] \in Local /\ LocalOK(broker, forced, th[t])
         /\ store \in Store /\ StoreOK(broker, forced, store)
         /\ broker \in BrokerType /\ BrokerOK(broker)
         /\ Tracked(broker, store, orphaned \cup forced, todo, th[t])
         /\ crashes = 0 => CountedOnce(store, th[t]) /\ LockOfRecord(broker, store, th[t])
BY Facts DEF SerialInv

\* A step that only moves the thread, between quiet labels.
LEMMA QuietStep ==
  ASSUME IInv, SerialInv, NEW t \in Threads, Threads = {t}, NEW m \in Local, Step(t, m),
         UNCHANGED <<broker, store, process, history>>, crashes' = crashes,
         Quiet(th[t]), Quiet(m),
         Placed(broker, store, todo, m), Returns(broker, m),
         Booked(broker, store, orphaned \cup forced, m), Reviewed(broker, store, m)
  PROVE  SerialInv'
<1> DEFINE g == orphaned \cup forced
           n == IF m.pc = "idle" THEN IdleThread ELSE m
<1>1. /\ th[t] \in Local /\ store \in Store /\ Tracked(broker, store, g, todo, th[t])
      /\ crashes = 0 => CountedOnce(store, th[t]) /\ LockOfRecord(broker, store, th[t])
  BY Here
<1>2. th'[t] = n
  BY DEF Step, IInv, TypeOK
<1>3. /\ n \in Local /\ Quiet(n) /\ Placed(broker, store, todo, n) /\ Returns(broker, n)
      /\ Booked(broker, store, g, n) /\ Reviewed(broker, store, n)
  BY IdleTracked, IdleOK
<1> HIDE DEF n
<1>4. /\ Tracked(broker, store, g, todo, n)
      /\ crashes = 0 => CountedOnce(store, n) /\ LockOfRecord(broker, store, n)
  BY <1>1, <1>3, QuietMoves
<1>5. /\ broker' = broker /\ store' = store /\ todo' = todo
      /\ orphaned' \cup forced' = g
  BY DEF process, history
<1> QED BY <1>2, <1>4, <1>5, Closes

\* ... in particular one that ends the operation.
LEMMA QuietEnd ==
  ASSUME IInv, SerialInv, NEW t \in Threads, Threads = {t}, Step(t, IdleThread),
         UNCHANGED <<broker, store, process, history>>, crashes' = crashes, Quiet(th[t])
  PROVE  SerialInv'
<1>1. Reviewed(broker, store, IdleThread)
  BY Here, IdleTracked DEF Tracked
<1> QED BY <1>1, IdleOK, IdleTracked, QuietStep

LEMMA StepIdle ==
  ASSUME NEW t \in Threads, NEW m, m.pc = "idle", Step(t, m)
  PROVE  Step(t, IdleThread)
BY DEF Step, IdleThread

-----------------------------------------------------------------------------
(* Placing an order. *)

LEMMA GuardSteps ==
  ASSUME IInv, SerialInv, NEW t \in Threads, Threads = {t},
         GuardLock(t) \/ GuardPending(t) \/ TransmitRefused(t)
  PROVE  SerialInv'
<1> DEFINE g == orphaned \cup forced
<1>0. /\ th[t] \in Local /\ store \in Store /\ Tracked(broker, store, g, todo, th[t])
      /\ LocalOK(broker, forced, th[t])
  BY Here
<1> HIDE DEF g
<1>1. CASE GuardLock(t)
  <2> DEFINE m == [th[t] EXCEPT !.pc = "guardPending"]
  <2>1. Quiet(th[t]) /\ th[t].pc = "guardLock" /\ th[t].intent \in Intents
    BY <1>0, <1>1 DEF GuardLock, At, Quiet, Settling, LocalOK
  <2>2. CASE check_resubmit(store.locks[th[t].intent], MAX_RESUBMIT_ATTEMPTS)
    <3>1. Step(t, m)
      BY <1>1, <2>2 DEF GuardLock
    <3>2. m \in Local /\ m.pc = "guardPending" /\ Quiet(m) /\ m.intent = th[t].intent
          /\ m.order = th[t].order
      BY <1>0 DEF Local, Labels, Quiet, Settling
    <3>3. store.locks[m.intent].state \notin Review
      BY <2>2, <3>2 DEF check_resubmit, Review, RESUBMIT_OK_STATES, NoState
    <3>4. Reviewed(broker, store, m)
      BY <1>0, <3>2, <3>3 DEF Tracked, Reviewed
    <3>5. Placed(broker, store, todo, m) /\ Returns(broker, m) /\ Booked(broker, store, g, m)
      BY <1>0, <2>1, <3>2 DEF Tracked, Placed, Returns, Booked, HasRecord, NoRecord,
         RecordLabels, NoRecordLabels, Settling, BookLabels, GuardLabels
    <3> QED BY <1>1, <2>1, <3>1, <3>2, <3>4, <3>5, QuietStep DEF GuardLock, bounds, g
  <2>3. CASE ~check_resubmit(store.locks[th[t].intent], MAX_RESUBMIT_ATTEMPTS)
    <3>1. Step(t, IdleThread)
      <4> DEFINE k == [th[t] EXCEPT !.pc = "idle"]
      <4>1. Step(t, k) /\ k.pc = "idle"
        BY <1>0, <1>1, <2>3 DEF GuardLock, Local
      <4> QED BY <4>1, StepIdle
    <3> QED BY <1>1, <2>1, <3>1, QuietEnd DEF GuardLock, bounds
  <2> QED BY <2>2, <2>3
<1>2. CASE GuardPending(t)
  <2> DEFINE m == [th[t] EXCEPT !.pc = "transmit"]
  <2>1. Quiet(th[t]) /\ th[t].pc = "guardPending" /\ th[t].intent \in Intents
    BY <1>0, <1>2 DEF GuardPending, At, Quiet, Settling, LocalOK
  <2>2. CASE \A o \in store.pending : broker[o].intent # th[t].intent
    <3>1. Step(t, m)
      BY <1>2, <2>2 DEF GuardPending
    <3>2. m \in Local /\ m.pc = "transmit" /\ Quiet(m) /\ m.intent = th[t].intent
          /\ m.order = th[t].order
      BY <1>0 DEF Local, Labels, Quiet, Settling
    <3>3. Reviewed(broker, store, m)
      BY <1>0, <2>1, <3>2 DEF Tracked, Reviewed
    <3>4. Placed(broker, store, todo, m) /\ Returns(broker, m) /\ Booked(broker, store, g, m)
      BY <1>0, <2>1, <2>2, <3>2 DEF Tracked, Placed, Returns, Booked, HasRecord, NoRecord,
         RecordLabels, NoRecordLabels, Settling, BookLabels, GuardLabels
    <3> QED BY <1>2, <2>1, <3>1, <3>2, <3>3, <3>4, QuietStep DEF GuardPending, bounds, g
  <2>3. CASE \E o \in store.pending : broker[o].intent = th[t].intent
    <3>1. Step(t, IdleThread)
      <4> DEFINE k == [th[t] EXCEPT !.pc = "idle"]
      <4>1. Step(t, k) /\ k.pc = "idle"
        BY <1>0, <1>2, <2>3 DEF GuardPending, Local
      <4> QED BY <4>1, StepIdle
    <3> QED BY <1>2, <2>1, <3>1, QuietEnd DEF GuardPending, bounds
  <2> QED BY <2>2, <2>3
<1>3. CASE TransmitRefused(t)
  <2>1. Quiet(th[t])
    BY <1>3 DEF TransmitRefused, At, Quiet, Settling
  <2> QED BY <1>3, <2>1, QuietEnd DEF TransmitRefused, bounds
<1> QED BY <1>1, <1>2, <1>3

-----------------------------------------------------------------------------
(* Moves of a thread whose order has its record. *)

RecordQuiet == RecordLabels \ {"commitLoad", "commitSave", "commitPop",
                               "readPrior", "saveLock", "clearPop"}

\* From one such label to another only the return label and what was read of
\* the order need to be looked at.
LEMMA RecordMoves ==
  ASSUME IInv, SerialInv, NEW t \in Threads, Threads = {t}, NEW m \in Local, Step(t, m),
         UNCHANGED <<broker, store, process, history>>, crashes' = crashes,
         th[t].pc \in RecordQuiet, m.pc \in RecordQuiet,
         m.order = th[t].order, m.intent = th[t].intent,
         Returns(broker, m), Booked(broker, store, orphaned \cup forced, m)
  PROVE  SerialInv'
<1> DEFINE l == th[t]
<1>0. /\ l \in Local /\ LocalOK(broker, forced, l)
      /\ Placed(broker, store, todo, l) /\ Reviewed(broker, store, l)
  BY Here DEF Tracked
<1>1. Quiet(l) /\ Quiet(m)
  BY DEF RecordQuiet, RecordLabels, Quiet, Settling
<1>2. Placed(broker, store, todo, m)
  <2>1. /\ l.pc \notin GuardLabels \cup {"idle"} /\ HasRecord(l)
        /\ m.pc \notin {"idle", "commitSave", "freezeSave"} \cup Settling /\ ~NoRecord(m)
    BY DEF HasRecord, NoRecord, NoRecordLabels, Settling, GuardLabels, RecordLabels, RecordQuiet
  <2> QED BY <1>0, <2>1 DEF Placed, GuardLabels, Settling
<1>3. Reviewed(broker, store, m)
  BY <1>0 DEF Reviewed, RecordQuiet, RecordLabels
<1> QED BY <1>1, <1>2, <1>3, QuietStep

\* The same, where only the label changes, to one that asks nothing more.
PlainLabels == {"cancelStatus", "checkDelete", "delete", "retryDelete", "confirm",
                "finalize", "clearRead"}

LEMMA PlainMoves ==
  ASSUME IInv, SerialInv, NEW t \in Threads, Threads = {t}, NEW m \in Local, Step(t, m),
         UNCHANGED <<broker, store, process, history>>, crashes' = crashes,
         th[t].pc \in RecordQuiet, m.pc \in PlainLabels,
         m.order = th[t].order, m.intent = th[t].intent
  PROVE  SerialInv'
<1>1. Returns(broker, m) /\ Booked(broker, store, orphaned \cup forced, m)
      /\ m.pc \in RecordQuiet
  BY DEF PlainLabels, Returns, Booked, Settling, BookLabels, RecordQuiet, RecordLabels
<1> QED BY <1>1, RecordMoves

LEMMA RecordQuietIsQuiet ==
  ASSUME NEW l, l.pc \in RecordQuiet
  PROVE  Quiet(l)
BY DEF RecordQuiet, RecordLabels, Quiet, Settling

\* Reading the order.
LEMMA OsGetPendingStep ==
  ASSUME IInv, SerialInv, NEW t \in Threads, Threads = {t}, OsGetPending(t)
  PROVE  SerialInv'
<1> DEFINE m == [th[t] EXCEPT !.pc = "osRead"]
<1>0. /\ th[t] \in Local /\ Placed(broker, store, todo, th[t]) /\ Returns(broker, th[t])
      /\ th[t].pc = "osGet"
  BY Here DEF Tracked, OsGetPending, At
<1>1. th[t].order \in store.pending
  BY <1>0 DEF Placed, HasRecord, RecordLabels
<1>2. Step(t, m)
  BY <1>1 DEF OsGetPending
<1>3. /\ m \in Local /\ m.pc = "osRead" /\ m.order = th[t].order /\ m.intent = th[t].intent
      /\ m.ret = th[t].ret
  BY <1>0 DEF Local, Labels
<1>4. Returns(broker, m)
  BY <1>0, <1>3 DEF Returns, Settling, BookLabels
<1>5. Booked(broker, store, orphaned \cup forced, m)
  BY <1>3 DEF Booked, Settling
<1>6. th[t].pc \in RecordQuiet /\ m.pc \in RecordQuiet
  BY <1>0, <1>3 DEF RecordQuiet, RecordLabels
<1> HIDE DEF m
<1> QED BY <1>2, <1>3, <1>4, <1>5, <1>6, RecordMoves DEF OsGetPending, bounds

LEMMA OsReadStep ==
  ASSUME IInv, SerialInv, NEW t \in Threads, Threads = {t}, OsRead(t)
  PROVE  SerialInv'
<1> DEFINE b == broker[th[t].order]
<1>0. /\ th[t] \in Local /\ Placed(broker, store, todo, th[t]) /\ Returns(broker, th[t])
      /\ th[t].pc = "osRead"
  BY Here DEF Tracked, OsRead, At
<1>1. th[t].pc \in RecordQuiet
  BY <1>0 DEF RecordQuiet, RecordLabels
<1>2. CASE b.status = "FILLED"
  <2> DEFINE m == [th[t] EXCEPT !.pc = "commitAppend"]
  <2>1. Step(t, m)
    BY <1>2 DEF OsRead
  <2>2. /\ m \in Local /\ m.pc = "commitAppend" /\ m.order = th[t].order
        /\ m.intent = th[t].intent /\ m.ret = th[t].ret
    BY <1>0 DEF Local, Labels
  <2>3. Returns(broker, m) /\ Booked(broker, store, orphaned \cup forced, m)
        /\ m.pc \in RecordQuiet
    BY <1>0, <2>2 DEF Returns, Booked, Settling, BookLabels, RecordQuiet, RecordLabels
  <2> HIDE DEF m
  <2> QED BY <1>1, <2>1, <2>2, <2>3, RecordMoves DEF OsRead, bounds
<1>3. CASE b.status \in RawTerminal \ {"FILLED"}
  <2> DEFINE m == [th[t] EXCEPT !.pc = "osPop", !.raw = b.status]
  <2>1. Step(t, m)
    BY <1>3 DEF OsRead
  <2>2. /\ m \in Local /\ m.pc = "osPop" /\ m.order = th[t].order
        /\ m.intent = th[t].intent /\ m.ret = th[t].ret /\ m.raw = b.status
    BY <1>0, <1>3 DEF Local, Labels
  <2>3. /\ m.pc \in RecordQuiet /\ m.ret = "idle" /\ m.raw \in DeadCodes
        /\ NotFilled(broker, m.order)
    BY <1>0, <1>3, <2>2 DEF Returns, RecordQuiet, RecordLabels, RawTerminal, DeadCodes,
       TERMINAL, NotFilled
  <2>4. Returns(broker, m) /\ Booked(broker, store, orphaned \cup forced, m)
    BY <2>2, <2>3 DEF Returns, Booked, Settling, BookLabels
  <2> HIDE DEF m
  <2> QED BY <1>1, <2>1, <2>2, <2>3, <2>4, RecordMoves DEF OsRead, bounds
<1>4. CASE b.status \notin RawTerminal
  <2> DEFINE m == [th[t] EXCEPT !.pc = th[t].ret]
  <2>1. Step(t, m)
    BY <1>4 DEF OsRead, RawTerminal
  <2>2. m.pc = "idle"
    BY <1>0, <1>4 DEF Returns, Local, RawTerminal
  <2>3. Step(t, IdleThread)
    BY <2>1, <2>2, StepIdle
  <2> QED BY <1>1, <2>3, RecordQuietIsQuiet, QuietEnd DEF OsRead, bounds
<1> QED BY <1>2, <1>3, <1>4

\* The cancel's reads and DELETEs, up to the settle.
LEMMA ToSettle ==
  ASSUME IInv, SerialInv, NEW t \in Threads, Threads = {t}, NEW m \in Local, Step(t, m),
         UNCHANGED <<broker, store, process, history>>, crashes' = crashes,
         th[t].pc \in RecordQuiet, m.pc = "settleRead", KeepsRecord(m),
         m.order = th[t].order, m.intent = th[t].intent
  PROVE  SerialInv'
<1> DEFINE l == th[t]
           g == orphaned \cup forced
<1>0. /\ l \in Local /\ store \in Store /\ Tracked(broker, store, g, todo, l)
      /\ crashes = 0 => CountedOnce(store, l) /\ LockOfRecord(broker, store, l)
  BY Here
<1> HIDE DEF g
<1>1. /\ l.pc \notin GuardLabels \cup {"idle", "savePending"} /\ HasRecord(l) /\ Quiet(l)
      /\ HasRecord(m) /\ ~NoRecord(m) /\ ~Ends(m) /\ ~Clears(m) /\ m.coded \notin TERMINAL
  BY DEF HasRecord, NoRecord, KeepsRecord, Ends, Clears, NoRecordLabels, Settling, GuardLabels,
         RecordLabels, RecordQuiet, TERMINAL, Quiet
<1>2. Placed(broker, store, todo, m)
  BY <1>0, <1>1 DEF Tracked, Placed, GuardLabels
<1>3. Returns(broker, m) /\ Booked(broker, store, g, m)
  BY <1>1 DEF Returns, Booked, Settling, BookLabels
<1>4. Reviewed(broker, store, m)
  BY <1>0 DEF Tracked, Reviewed, RecordQuiet, RecordLabels
<1>5. Orderly(broker, store, g, m)
  BY <1>0, <1>1 DEF Tracked, Orderly, Kept
<1>6. Tracked(broker, store, g, todo, m)
  BY <1>0, <1>2, <1>3, <1>4, <1>5 DEF Tracked
<1>7. crashes = 0 => CountedOnce(store, m)
  BY <1>0, <1>1 DEF CountedOnce, Quiet, Booking
<1>8. crashes = 0 => LockOfRecord(broker, store, m)
  BY <1>0, <1>1 DEF LockOfRecord, Quiet, Settling, DeadCodes
<1>9. th'[t] = m
  BY DEF Step, IInv, TypeOK
<1>10. broker' = broker /\ store' = store /\ todo' = todo /\ orphaned' \cup forced' = g
  BY DEF process, history, g
<1> QED BY <1>6, <1>7, <1>8, <1>9, <1>10, Closes

LEMMA StatusReadSteps ==
  ASSUME IInv, SerialInv, NEW t \in Threads, Threads = {t},
         CancelStatus(t) \/ CancelStatusFails(t)
  PROVE  SerialInv'
<1>0. /\ th[t] \in Local /\ broker \in BrokerType /\ LocalOK(broker, forced, th[t])
      /\ th[t].pc \in {"cancelStatus", "checkDelete"}
      /\ UNCHANGED <<broker, store, process, history>> /\ crashes' = crashes
  BY Here DEF CancelStatus, CancelStatusFails, Fault, bounds
<1>1. th[t].pc \in RecordQuiet /\ th[t].order \in Orders
  BY <1>0 DEF RecordQuiet, RecordLabels, LocalOK, GuardLabels, Known
<1>2. PICK raw : /\ Step(t, OnStatus(t, raw))
                 /\ raw = "FILLED" => broker[th[t].order].status = "FILLED"
  <2>1. CASE CancelStatus(t)
    <3>1. Step(t, OnStatus(t, broker[th[t].order].status))
      BY <2>1 DEF CancelStatus
    <3> QED BY <3>1
  <2>2. CASE CancelStatusFails(t)
    <3> DEFINE raw == ""
    <3>1. Step(t, OnStatus(t, raw)) /\ raw # "FILLED"
      BY <2>2 DEF CancelStatusFails
    <3> HIDE DEF raw
    <3> QED BY <3>1
  <2> QED BY <2>1, <2>2
<1>3. CASE raw = "FILLED"
  <2> DEFINE m == [th[t] EXCEPT !.pc = "osGet", !.ret = "idle"]
  <2>1. Step(t, m)
    BY <1>2, <1>3 DEF OnStatus
  <2>2. /\ m \in Local /\ m.pc = "osGet" /\ m.order = th[t].order
        /\ m.intent = th[t].intent /\ m.ret = "idle"
    BY <1>0 DEF Local, Labels, ReturnLabels
  <2>3. /\ Returns(broker, m) /\ Booked(broker, store, orphaned \cup forced, m)
        /\ m.pc \in RecordQuiet
    BY <2>2 DEF Returns, Booked, Settling, BookLabels, RecordQuiet, RecordLabels
  <2> HIDE DEF m
  <2> QED BY <1>0, <1>1, <2>1, <2>2, <2>3, RecordMoves
<1>4. CASE raw \in RawTerminal \ {"FILLED"}
  <2> DEFINE m == [th[t] EXCEPT !.pc = "finalize"]
  <2>1. Step(t, m)
    BY <1>2, <1>4 DEF OnStatus
  <2>2. m \in Local /\ m.pc \in PlainLabels /\ m.order = th[t].order /\ m.intent = th[t].intent
    BY <1>0 DEF Local, Labels, PlainLabels
  <2> HIDE DEF m
  <2> QED BY <1>0, <1>1, <2>1, <2>2, PlainMoves
<1>5. CASE raw \notin RawTerminal
  <2>0. Step(t, OnLive(t, raw))
    BY <1>2, <1>5 DEF OnStatus, RawTerminal
  <2>1. CASE th[t].cancelling
    <3>1. PICK p \in {"confirm", "retryDelete"} : Step(t, [th[t] EXCEPT !.pc = p])
      BY <2>0, <2>1 DEF OnLive
    <3> DEFINE m == [th[t] EXCEPT !.pc = p]
    <3>2. m \in Local /\ m.pc \in PlainLabels /\ m.order = th[t].order /\ m.intent = th[t].intent
      BY <1>0 DEF Local, Labels, PlainLabels
    <3>3. Step(t, m)
      BY <3>1
    <3> HIDE DEF m
    <3> QED BY <1>0, <1>1, <3>2, <3>3, PlainMoves
  <2>2. CASE ~th[t].cancelling
    <3>1. PICK p \in {"confirm", "delete"} :
            Step(t, [th[t] EXCEPT !.pc = "settleRead", !.coded = "CANCEL_REQUESTED",
                                  !.ret = p, !.cancelling = TRUE])
      BY <2>0, <2>2 DEF OnLive
    <3> DEFINE m == [th[t] EXCEPT !.pc = "settleRead", !.coded = "CANCEL_REQUESTED",
                                  !.ret = p, !.cancelling = TRUE]
    <3>2. /\ m \in Local /\ m.pc = "settleRead" /\ KeepsRecord(m)
          /\ m.order = th[t].order /\ m.intent = th[t].intent
      BY <1>0 DEF Local, Labels, ReturnLabels, CodedStates, LIVE, KeepsRecord
    <3>3. Step(t, m)
      BY <3>1
    <3> HIDE DEF m
    <3> QED BY <1>0, <1>1, <3>2, <3>3, ToSettle
  <2> QED BY <2>1, <2>2
<1> QED BY <1>3, <1>4, <1>5

\* The DELETE touches the broker as well, but kills nothing: see BrokerMoves.
LEMMA DeleteRefusedStep ==
  ASSUME IInv, SerialInv, NEW t \in Threads, Threads = {t}, DeleteRefused(t)
  PROVE  SerialInv'
<1> DEFINE m == [th[t] EXCEPT !.pc = "checkDelete"]
<1>0. th[t] \in Local /\ th[t].pc = "delete" /\ th[t].pc \in RecordQuiet
  BY Here DEF DeleteRefused, At, RecordQuiet, RecordLabels
<1>1. m \in Local /\ m.pc \in PlainLabels /\ m.order = th[t].order /\ m.intent = th[t].intent
  BY <1>0 DEF Local, Labels, PlainLabels
<1>2. Step(t, m)
  BY DEF DeleteRefused
<1> HIDE DEF m
<1> QED BY <1>0, <1>1, <1>2, PlainMoves DEF DeleteRefused, bounds

LEMMA RetryDeleteStep ==
  ASSUME IInv, SerialInv, NEW t \in Threads, Threads = {t}, RetryDelete(t)
  PROVE  SerialInv'
<1>0. th[t] \in Local /\ th[t].pc = "retryDelete" /\ th[t].pc \in RecordQuiet
  BY Here DEF RetryDelete, At, RecordQuiet, RecordLabels
<1>1. CASE th[t].tries + 1 < CANCEL_POLL_MAX_ATTEMPTS
  <2> DEFINE m == [th[t] EXCEPT !.pc = "delete", !.tries = @ + 1]
  <2>0. th[t].tries + 1 \in Nat
    BY <1>0 DEF Local
  <2>1. m \in Local /\ m.pc \in PlainLabels /\ m.order = th[t].order /\ m.intent = th[t].intent
    BY <1>0, <2>0 DEF Local, Labels, PlainLabels
  <2>2. Step(t, m)
    BY <1>1 DEF RetryDelete
  <2> HIDE DEF m
  <2> QED BY <1>0, <2>1, <2>2, PlainMoves DEF RetryDelete, bounds
<1>2. CASE ~(th[t].tries + 1 < CANCEL_POLL_MAX_ATTEMPTS)
  <2> DEFINE m == [th[t] EXCEPT !.pc = "settleRead", !.coded = "LOCKED_UNKNOWN",
                                !.ret = "idle"]
  <2>1. /\ m \in Local /\ m.pc = "settleRead" /\ KeepsRecord(m)
        /\ m.order = th[t].order /\ m.intent = th[t].intent
    BY <1>0 DEF Local, Labels, ReturnLabels, CodedStates, KeepsRecord
  <2>2. Step(t, m)
    BY <1>2 DEF RetryDelete
  <2> HIDE DEF m
  <2> QED BY <1>0, <2>1, <2>2, ToSettle DEF RetryDelete, bounds
<1> QED BY <1>1, <1>2

LEMMA OsReadFailsStep ==
  ASSUME IInv, SerialInv, NEW t \in Threads, Threads = {t}, OsReadFails(t)
  PROVE  SerialInv'
<1>0. /\ th[t] \in Local /\ th[t].pc \in RecordQuiet
      /\ UNCHANGED <<broker, store, process, history>> /\ crashes' = crashes
  BY Here DEF OsReadFails, At, Fault, RecordQuiet, RecordLabels
<1>1. CASE th[t].boot
  <2> DEFINE m == [th[t] EXCEPT !.pc = "settleRead", !.coded = "LOCKED_UNKNOWN",
                                !.ret = "idle"]
  <2>1. /\ m \in Local /\ m.pc = "settleRead" /\ KeepsRecord(m)
        /\ m.order = th[t].order /\ m.intent = th[t].intent
    BY <1>0 DEF Local, Labels, ReturnLabels, CodedStates, KeepsRecord
  <2>2. Step(t, m)
    BY <1>1 DEF OsReadFails
  <2> HIDE DEF m
  <2> QED BY <1>0, <2>1, <2>2, ToSettle
<1>2. CASE ~th[t].boot
  <2>1. Step(t, IdleThread)
    BY <1>2 DEF OsReadFails
  <2> QED BY <1>0, <2>1, RecordQuietIsQuiet, QuietEnd
<1> QED BY <1>1, <1>2

LEMMA ConfirmStep ==
  ASSUME IInv, SerialInv, NEW t \in Threads, Threads = {t}, Confirm(t)
  PROVE  SerialInv'
<1> DEFINE m == [th[t] EXCEPT !.pc = "finalize"]
<1>0. th[t] \in Local /\ th[t].pc \in RecordQuiet
  BY Here DEF Confirm, At, RecordQuiet, RecordLabels
<1>1. m \in Local /\ m.pc \in PlainLabels /\ m.order = th[t].order /\ m.intent = th[t].intent
  BY <1>0 DEF Local, Labels, PlainLabels
<1>2. Step(t, m) \/ Step(t, IdleThread)
  BY DEF Confirm
<1> HIDE DEF m
<1> QED BY <1>0, <1>1, <1>2, RecordQuietIsQuiet, PlainMoves, QuietEnd DEF Confirm, bounds

LEMMA FinalizeSteps ==
  ASSUME IInv, SerialInv, NEW t \in Threads, Threads = {t}, Finalize(t) \/ FinalizeFails(t)
  PROVE  SerialInv'
<1> DEFINE b == broker[th[t].order]
<1>0. /\ th[t] \in Local /\ broker \in BrokerType /\ th[t].pc = "finalize"
      /\ th[t].pc \in RecordQuiet /\ Dead(broker, th[t].order)
      /\ UNCHANGED <<broker, store, process, history>> /\ crashes' = crashes
  BY Here DEF Finalize, FinalizeFails, At, Fault, bounds, RecordQuiet, RecordLabels,
     LocalOK, DeadLabels
<1>1. CASE FinalizeFails(t)
  BY <1>0, <1>1, RecordQuietIsQuiet, QuietEnd DEF FinalizeFails
<1>2. CASE Finalize(t) /\ b.status = "FILLED"
  <2>1. PICK r \in {"duringCancel", "idle"} : Step(t, [th[t] EXCEPT !.pc = "osGet", !.ret = r])
    BY <1>2 DEF Finalize
  <2> DEFINE m == [th[t] EXCEPT !.pc = "osGet", !.ret = r]
  <2>2. /\ m \in Local /\ m.pc = "osGet" /\ m.order = th[t].order
        /\ m.intent = th[t].intent /\ m.ret = r
    BY <1>0 DEF Local, Labels, ReturnLabels
  <2>3. /\ Returns(broker, m) /\ Booked(broker, store, orphaned \cup forced, m)
        /\ m.pc \in RecordQuiet
    BY <1>2, <2>2 DEF Returns, Booked, Settling, BookLabels, RecordQuiet, RecordLabels
  <2>4. Step(t, m)
    BY <2>1
  <2> HIDE DEF m
  <2> QED BY <1>0, <2>2, <2>3, <2>4, RecordMoves
<1>3. CASE Finalize(t) /\ b.status # "FILLED" /\ b.filled > 0
  <2> DEFINE m == [th[t] EXCEPT !.pc = "popPartial", !.ret = "freezeLoad"]
  <2>1. Step(t, m)
    BY <1>3 DEF Finalize
  <2>2. /\ m \in Local /\ m.pc = "popPartial" /\ m.order = th[t].order
        /\ m.intent = th[t].intent /\ m.ret = "freezeLoad"
    BY <1>0 DEF Local, Labels, ReturnLabels
  <2>3. /\ Returns(broker, m) /\ Booked(broker, store, orphaned \cup forced, m)
        /\ m.pc \in RecordQuiet
    BY <1>0, <1>3, <2>2 DEF Returns, Booked, Settling, BookLabels, RecordQuiet, RecordLabels,
       NotFilled, Dead
  <2> HIDE DEF m
  <2> QED BY <1>0, <2>1, <2>2, <2>3, RecordMoves
<1>4. CASE Finalize(t) /\ b.status # "FILLED" /\ ~(b.filled > 0)
  <2> DEFINE c == map_broker_status(b.status, 0, 0, th[t].cancelling)
             m == [th[t] EXCEPT !.pc = "popClean", !.ret = "idle", !.raw = c]
  <2>1. Step(t, m)
    BY <1>4 DEF Finalize
  <2>2. c = b.status /\ c \in DeadCodes
    BY <1>0, <1>4 DEF Dead, RawTerminal, map_broker_status, DeadCode, FullyFilled,
       PartlyFilled, DeadCodes, TERMINAL
  <2> HIDE DEF c
  <2>3. /\ m \in Local /\ m.pc = "popClean" /\ m.order = th[t].order
        /\ m.intent = th[t].intent /\ m.ret = "idle" /\ m.raw = c
    BY <1>0, <2>2 DEF Local, Labels, ReturnLabels, Dead
  <2>4. /\ Returns(broker, m) /\ Booked(broker, store, orphaned \cup forced, m)
        /\ m.pc \in RecordQuiet
    BY <1>0, <1>4, <2>2, <2>3 DEF Returns, Booked, Settling, BookLabels, RecordQuiet,
       RecordLabels, NotFilled, Dead
  <2> HIDE DEF m
  <2> QED BY <1>0, <2>1, <2>3, <2>4, RecordMoves
<1> QED BY <1>1, <1>2, <1>3, <1>4

LEMMA ClearReadSteps ==
  ASSUME IInv, SerialInv, NEW t \in Threads, Threads = {t}, ClearRead(t) \/ ClearUnverified(t)
  PROVE  SerialInv'
<1> DEFINE b == broker[th[t].order]
<1>0. /\ th[t] \in Local /\ th[t].pc = "clearRead" /\ th[t].pc \in RecordQuiet
      /\ UNCHANGED <<broker, store, process, history>> /\ crashes' = crashes
  BY Here DEF ClearRead, ClearUnverified, At, Fault, bounds, RecordQuiet, RecordLabels
<1>1. CASE ClearUnverified(t)
  <2> DEFINE m == [th[t] EXCEPT !.pc = "clearGet", !.force = TRUE]
  <2>1. Step(t, m)
    BY <1>1 DEF ClearUnverified
  <2>2. /\ m \in Local /\ m.pc = "clearGet" /\ m.order = th[t].order
        /\ m.intent = th[t].intent /\ m.force
    BY <1>0 DEF Local, Labels
  <2>3. /\ Returns(broker, m) /\ Booked(broker, store, orphaned \cup forced, m)
        /\ m.pc \in RecordQuiet
    BY <2>2 DEF Returns, Booked, Settling, BookLabels, RecordQuiet, RecordLabels
  <2> HIDE DEF m
  <2> QED BY <1>0, <2>1, <2>2, <2>3, RecordMoves
<1>2. CASE ClearRead(t) /\ b.status \in RawTerminal \ {"FILLED"} /\ b.filled = 0
  <2> DEFINE m == [th[t] EXCEPT !.pc = "clearGet"]
  <2>1. Step(t, m)
    BY <1>2 DEF ClearRead
  <2>2. /\ m \in Local /\ m.pc = "clearGet" /\ m.order = th[t].order
        /\ m.intent = th[t].intent
    BY <1>0 DEF Local, Labels
  <2>3. /\ Returns(broker, m) /\ Booked(broker, store, orphaned \cup forced, m)
        /\ m.pc \in RecordQuiet
    BY <1>2, <2>2 DEF Returns, Booked, Settling, BookLabels, RecordQuiet, RecordLabels, NotFilled
  <2> HIDE DEF m
  <2> QED BY <1>0, <2>1, <2>2, <2>3, RecordMoves
<1>3. CASE ClearRead(t) /\ ~(b.status \in RawTerminal \ {"FILLED"} /\ b.filled = 0)
  <2> DEFINE m == [th[t] EXCEPT !.pc = "idle"]
  <2>1. Step(t, m) /\ m.pc = "idle"
    BY <1>0, <1>3 DEF ClearRead, Local
  <2>2. Step(t, IdleThread)
    BY <2>1, StepIdle
  <2> QED BY <1>0, <2>2, RecordQuietIsQuiet, QuietEnd
<1> QED BY <1>1, <1>2, <1>3

-----------------------------------------------------------------------------
(* The record goes: popped before its settle, or (clear) after it. *)

LEMMA PopMoves ==
  ASSUME IInv, SerialInv, NEW t \in Threads, Threads = {t},
         NEW p \in {"commitPop", "osPop", "popPartial", "popClean"}, NEW c \in TERMINAL,
         PopAndSettle(t, p, c),
         th[t].ret \in {"idle", "freezeLoad"} \/ (th[t].ret = "duringCancel" /\ c = "FILLED"),
         NotFilled(broker, th[t].order) \/
           (store.execs[th[t].order] > 0 /\ store.applied[th[t].order] > 0)
  PROVE  SerialInv'
<1> DEFINE l == th[t]
           g == orphaned \cup forced
           m == [l EXCEPT !.pc = "settleRead", !.coded = c]
           s == [store EXCEPT !.pending = @ \ {l.order}]
<1>0. /\ l \in Local /\ store \in Store /\ Tracked(broker, store, g, todo, l)
      /\ LocalOK(broker, forced, l) /\ broker \in BrokerType
      /\ crashes = 0 => CountedOnce(store, l) /\ LockOfRecord(broker, store, l)
      /\ l.pc = p
  BY Here DEF PopAndSettle, At
<1>1. /\ m.pc = "settleRead" /\ m.order = l.order /\ m.intent = l.intent
      /\ m.coded = c /\ m.ret = l.ret
  BY <1>0 DEF Local
<1>2. /\ s.pending = store.pending \ {l.order} /\ s.execs = store.execs
      /\ s.applied = store.applied /\ s.locks = store.locks
  BY <1>0 DEF Store
<1>3. /\ store' = s /\ th'[t] = m
      /\ broker' = broker /\ todo' = todo /\ orphaned' \cup forced' = g /\ crashes' = crashes
  <2>1. Step(t, m)
    BY DEF PopAndSettle
  <2>2. th'[t] = m
    BY <1>1, <2>1 DEF Step, IInv, TypeOK
  <2> QED BY <2>2 DEF PopAndSettle, process, history, bounds
<1> HIDE DEF m, s, g
<1>4. /\ Ends(m) /\ ~KeepsRecord(m) /\ ~Clears(m) /\ NoRecord(m) /\ ~HasRecord(m)
      /\ HasRecord(l) /\ l.pc # "savePending"
  BY <1>0, <1>1 DEF Ends, KeepsRecord, Clears, NoRecord, HasRecord, RecordLabels,
     NoRecordLabels, Settling, TERMINAL
<1>5. l.order \in store.pending /\ broker[l.order].intent = l.intent /\ l.order \notin todo
  BY <1>0, <1>4 DEF Tracked, Placed, GuardLabels
<1>6. Orderly(broker, s, g, m)
  <2>1. ASSUME NEW o \in Orders, o \notin Kept(s, g, m)
        PROVE  o \notin Kept(store, g, l) \/ o = l.order
    BY <1>1, <1>2, <1>4, <2>1 DEF Kept
  <2>2. broker[l.order].status \notin RawLive
    <3>1. l.order \in Orders /\ BookOK(broker, store)
      BY <1>0, Here DEF StoreOK, LocalOK, GuardLabels, Known
    <3>2. store.execs[l.order] \in Nat /\ store.applied[l.order] \in Nat
      BY <1>0, <3>1 DEF Store
    <3> QED BY <3>1, <3>2 DEF BookOK, NotFilled, RawTerminal, RawLive
  <2> QED BY <1>0, <1>2, <2>1, <2>2 DEF Tracked, Orderly, NotFilled
<1>7. Placed(broker, s, todo, m)
  BY <1>0, <1>1, <1>2, <1>4, <1>5 DEF Tracked, Placed, Orderly
<1>8. Returns(broker, m) /\ Booked(broker, s, g, m)
  BY <1>1, <1>4 DEF Returns, Booked, BookLabels
<1>9. Reviewed(broker, s, m)
  BY <1>0, <1>1, <1>2 DEF Tracked, Reviewed
<1>10. Tracked(broker, s, g, todo, m)
  BY <1>0, <1>2, <1>5, <1>6, <1>7, <1>8, <1>9 DEF Tracked
<1>11. crashes = 0 => CountedOnce(s, m)
  BY <1>0, <1>1, <1>2 DEF CountedOnce, Booking
<1>12. crashes = 0 => LockOfRecord(broker, s, m)
  BY <1>0, <1>1, <1>2, <1>5 DEF LockOfRecord, Settling
<1> QED BY <1>3, <1>10, <1>11, <1>12, Closes

LEMMA PopSteps ==
  ASSUME IInv, SerialInv, NEW t \in Threads, Threads = {t},
         CommitPop(t) \/ OsPop(t) \/ PopPartial(t) \/ PopClean(t)
  PROVE  SerialInv'
<1>0. /\ Returns(broker, th[t]) /\ Booked(broker, store, orphaned \cup forced, th[t])
  BY Here DEF Tracked
<1>1. CASE CommitPop(t)
  <2>1. th[t].pc = "commitPop"
    BY <1>1 DEF CommitPop, PopAndSettle, At
  <2> QED BY <1>0, <1>1, <2>1, PopMoves DEF CommitPop, Returns, Booked, BookLabels, TERMINAL
<1>2. CASE OsPop(t)
  <2>1. th[t].pc = "osPop"
    BY <1>2 DEF OsPop, PopAndSettle, At
  <2> QED BY <1>0, <1>2, <2>1, PopMoves DEF OsPop, Returns, Booked, DeadCodes
<1>3. CASE PopPartial(t)
  <2>1. th[t].pc = "popPartial"
    BY <1>3 DEF PopPartial, PopAndSettle, At
  <2> QED BY <1>0, <1>3, <2>1, PopMoves DEF PopPartial, Returns, Booked, TERMINAL
<1>4. CASE PopClean(t)
  <2>1. th[t].pc = "popClean"
    BY <1>4 DEF PopClean, PopAndSettle, At
  <2> QED BY <1>0, <1>4, <2>1, PopMoves DEF PopClean, Returns, Booked, DeadCodes
<1> QED BY <1>1, <1>2, <1>3, <1>4

\* Clear settles with the record still there, and pops it last.
LEMMA ClearGetStep ==
  ASSUME IInv, SerialInv, NEW t \in Threads, Threads = {t}, ClearGet(t)
  PROVE  SerialInv'
<1> DEFINE l == th[t]
           g == orphaned \cup forced
           h == orphaned \cup forced'
           m == [l EXCEPT !.pc = "settleRead", !.coded = "CANCELED", !.ret = "clearPop"]
<1>0. /\ l \in Local /\ store \in Store /\ Tracked(broker, store, g, todo, l)
      /\ crashes = 0 => CountedOnce(store, l) /\ LockOfRecord(broker, store, l)
      /\ l.pc = "clearGet"
  BY Here DEF ClearGet, At
<1>1. l.order \in store.pending
  BY <1>0 DEF Tracked, Placed, HasRecord, RecordLabels
<1>2. /\ m.pc = "settleRead" /\ m.order = l.order /\ m.intent = l.intent
      /\ m.coded = "CANCELED" /\ m.ret = "clearPop"
  BY <1>0 DEF Local
<1>3. th'[t] = m
  <2>1. Step(t, m)
    BY <1>1 DEF ClearGet
  <2> QED BY <1>2, <2>1 DEF Step, IInv, TypeOK
<1>4. g \subseteq h /\ (l.force => l.order \in h)
  BY <1>1 DEF ClearGet
<1>5. /\ broker' = broker /\ store' = store /\ todo' = todo /\ crashes' = crashes
      /\ orphaned' \cup forced' = h
  BY DEF ClearGet, process, bounds
<1> HIDE DEF m, g, h
<1>6. Clears(m) /\ ~KeepsRecord(m) /\ ~Ends(m) /\ HasRecord(m) /\ ~NoRecord(m)
  BY <1>2 DEF Clears, KeepsRecord, Ends, HasRecord, NoRecord, NoRecordLabels, RecordLabels, Settling
<1>7. Orderly(broker, store, h, m)
  BY <1>0, <1>2, <1>4 DEF Tracked, Orderly, Kept
<1>8. Placed(broker, store, todo, m)
  BY <1>0, <1>1, <1>2, <1>6 DEF Tracked, Placed, GuardLabels
<1>9. Returns(broker, m)
  BY <1>2, <1>6 DEF Returns, BookLabels
<1>10. Booked(broker, store, h, m)
  BY <1>0, <1>2, <1>4, <1>6 DEF Tracked, Booked
<1>11. Reviewed(broker, store, m)
  BY <1>0, <1>2 DEF Tracked, Reviewed
<1>12. Tracked(broker, store, h, todo, m)
  BY <1>0, <1>7, <1>8, <1>9, <1>10, <1>11 DEF Tracked
<1>13. crashes = 0 => CountedOnce(store, m)
  BY <1>0, <1>2 DEF CountedOnce, Booking
<1>14. crashes = 0 => LockOfRecord(broker, store, m)
  BY <1>0, <1>1, <1>2 DEF LockOfRecord, Settling, Tracked, Placed, GuardLabels
<1> QED BY <1>3, <1>5, <1>12, <1>13, <1>14, Closes

LEMMA ClearPopStep ==
  ASSUME IInv, SerialInv, NEW t \in Threads, Threads = {t}, ClearPop(t)
  PROVE  SerialInv'
<1> DEFINE l == th[t]
           g == orphaned \cup forced
           s == [store EXCEPT !.pending = @ \ {l.order}]
<1>0. /\ l \in Local /\ store \in Store /\ Tracked(broker, store, g, todo, l)
      /\ crashes = 0 => CountedOnce(store, l) /\ LockOfRecord(broker, store, l)
      /\ l.pc = "clearPop"
  BY Here DEF ClearPop, At
<1>1. /\ s.pending = store.pending \ {l.order} /\ s.execs = store.execs
      /\ s.applied = store.applied /\ s.locks = store.locks
  BY <1>0 DEF Store
<1>2. /\ store' = s /\ th'[t] = IdleThread
      /\ broker' = broker /\ todo' = todo /\ orphaned' \cup forced' = g /\ crashes' = crashes
  BY DEF ClearPop, Step, IInv, TypeOK, process, history, bounds
<1>3. IdleThread.pc = "idle"
  BY DEF IdleThread
<1> HIDE DEF s, g
<1>4. /\ l.order \in store.pending /\ broker[l.order].intent = l.intent /\ l.order \notin todo
      /\ l.order \in g \/ NotFilled(broker, l.order)
  BY <1>0 DEF Tracked, Placed, Booked, GuardLabels, HasRecord, RecordLabels
<1>5. Orderly(broker, s, g, IdleThread)
  <2>1. ASSUME NEW o \in Orders, o \notin Kept(s, g, IdleThread)
        PROVE  o \notin Kept(store, g, l) \/ (o = l.order /\ NotFilled(broker, o))
    BY <1>0, <1>1, <1>3, <1>4, <2>1 DEF Kept
  <2> QED BY <1>0, <1>1, <2>1 DEF Tracked, Orderly, NotFilled, RawTerminal, RawLive
<1>6. Reviewed(broker, s, IdleThread)
  BY <1>0, <1>1, <1>3 DEF Tracked, Reviewed
<1>7. Tracked(broker, s, g, todo, IdleThread)
  BY <1>0, <1>1, <1>4, <1>5, <1>6, IdleTracked DEF Tracked
<1>8. crashes = 0 => CountedOnce(s, IdleThread)
  BY <1>0, <1>1, <1>3 DEF CountedOnce, Booking
<1>9. crashes = 0 => LockOfRecord(broker, s, IdleThread)
  BY <1>0, <1>1, <1>3, <1>4 DEF LockOfRecord, Settling
<1> QED BY <1>2, <1>7, <1>8, <1>9, Closes

\* The second settle of a cancel that lost the race to the fill.
LEMMA DuringCancelStep ==
  ASSUME IInv, SerialInv, NEW t \in Threads, Threads = {t}, DuringCancel(t)
  PROVE  SerialInv'
<1> DEFINE l == th[t]
           g == orphaned \cup forced
           m == [l EXCEPT !.pc = "settleRead", !.ret = "idle", !.coded = "FILLED_DURING_CANCEL"]
<1>0. /\ l \in Local /\ store \in Store /\ Tracked(broker, store, g, todo, l)
      /\ crashes = 0 => CountedOnce(store, l) /\ LockOfRecord(broker, store, l)
      /\ l.pc = "duringCancel"
  BY Here DEF DuringCancel, At
<1>1. /\ m.pc = "settleRead" /\ m.order = l.order /\ m.intent = l.intent
      /\ m.coded = "FILLED_DURING_CANCEL" /\ m.ret = "idle"
  BY <1>0 DEF Local
<1>2. th'[t] = m
  <2>1. Step(t, m)
    BY DEF DuringCancel
  <2> QED BY <1>1, <2>1 DEF Step, IInv, TypeOK
<1>3. /\ broker' = broker /\ store' = store /\ todo' = todo /\ crashes' = crashes
      /\ orphaned' \cup forced' = g
  BY DEF DuringCancel, process, history, bounds
<1> HIDE DEF m, g
<1>4. Ends(m) /\ ~KeepsRecord(m) /\ ~Clears(m) /\ ~HasRecord(m) /\ NoRecord(m) /\ NoRecord(l)
  BY <1>0, <1>1 DEF Clears, KeepsRecord, Ends, HasRecord, NoRecord, NoRecordLabels,
     RecordLabels, Settling, TERMINAL
<1>5. Orderly(broker, store, g, m)
  BY <1>0, <1>1 DEF Tracked, Orderly, Kept
<1>6. Placed(broker, store, todo, m)
  BY <1>0, <1>1, <1>4 DEF Tracked, Placed, GuardLabels
<1>7. Returns(broker, m) /\ Booked(broker, store, g, m)
  BY <1>1, <1>4 DEF Returns, Booked, BookLabels
<1>8. Reviewed(broker, store, m)
  BY <1>0, <1>1 DEF Tracked, Reviewed
<1>9. Tracked(broker, store, g, todo, m)
  BY <1>0, <1>5, <1>6, <1>7, <1>8 DEF Tracked
<1>10. crashes = 0 => CountedOnce(store, m) /\ LockOfRecord(broker, store, m)
  BY <1>0, <1>1 DEF CountedOnce, Booking, LockOfRecord, Settling, DeadCodes
<1> QED BY <1>2, <1>3, <1>9, <1>10, Closes

-----------------------------------------------------------------------------
(* Settling: the lock is read, and written back re-stated.  The thread     *)
(* then arrives where its caller goes on.                                  *)

LEMMA Arrives ==
  ASSUME NEW b, NEW s \in Store, NEW g, NEW d, NEW l \in Local,
         Tracked(b, s, g, d, l), l.pc \in Settling, l.intent \in Intents,
         \A o \in s.pending : b[o].intent \in Intents,
         NEW n, n = IdleThread \/ (n.order = l.order /\ n.intent = l.intent), n.pc = l.ret,
         NEW u \in Store, u.pending = s.pending, u.execs = s.execs, u.applied = s.applied,
         \A i \in Intents : i # l.intent => u.locks[i] = s.locks[i],
         \/ u.locks[l.intent] = s.locks[l.intent] /\ s.locks[l.intent] = NoLock
         \/ u.locks[l.intent].state = l.coded /\ u.locks[l.intent].order = l.order
  PROVE  /\ Tracked(b, u, g, d, n)
         /\ CountedOnce(s, l) => CountedOnce(u, n)
         /\ LockOfRecord(b, s, l) => LockOfRecord(b, u, n)
<1>0. /\ d \subseteq s.pending /\ Orderly(b, s, g, l) /\ Placed(b, s, d, l) /\ Returns(b, l)
      /\ Booked(b, s, g, l) /\ Reviewed(b, s, l)
  BY DEF Tracked
<1>1. l.pc \notin GuardLabels \cup {"idle", "savePending"}
  BY DEF Settling, GuardLabels
<1>2. /\ l.order \notin d /\ b[l.order].intent = l.intent
      /\ HasRecord(l) => l.order \in s.pending
      /\ NoRecord(l) => \A p \in s.pending : b[p].intent # l.intent
  BY <1>0, <1>1 DEF Placed
<1>3. IdleThread.pc = "idle" /\ l.order \in Orders \cup {NoOrder}
  BY DEF IdleThread, Local
<1>4. KeepsRecord(l) \/ Ends(l) \/ Clears(l)
  BY <1>0 DEF Returns
<1>5. /\ n.pc \in {"idle", "confirm", "delete", "duringCancel", "freezeLoad", "clearPop"}
      /\ n.pc # "idle" => n.order = l.order /\ n.intent = l.intent
      /\ n.pc \in {"confirm", "delete"} => HasRecord(l)
      /\ n.pc = "clearPop" => HasRecord(l) /\ Clears(l)
      /\ n.pc \in {"duringCancel", "freezeLoad"} => NoRecord(l)
  BY <1>3, <1>4 DEF KeepsRecord, Ends, Clears, HasRecord, NoRecord
<1>6. Orderly(b, u, g, n)
  <2>1. Kept(u, g, n) = Kept(s, g, l)
    BY <1>1, <1>5 DEF Kept
  <2> QED BY <1>0, <2>1 DEF Orderly
<1>7. Placed(b, u, d, n)
  <2>1. /\ HasRecord(n) => n.pc \in {"confirm", "delete", "clearPop"}
        /\ NoRecord(n) => n.pc \in {"duringCancel", "freezeLoad"}
    BY <1>5 DEF HasRecord, NoRecord, RecordLabels, NoRecordLabels, Settling
  <2> QED BY <1>2, <1>5, <2>1 DEF Placed
<1>8. Returns(b, n)
  BY <1>5 DEF Returns, Settling, BookLabels
<1>9. Booked(b, u, g, n)
  BY <1>0, <1>5 DEF Booked, Settling
<1>10. Reviewed(b, u, n)
  <2>1. ASSUME NEW i \in Intents, i # l.intent, u.locks[i].state \in Review
        PROVE  /\ \A p \in u.pending : b[p].intent # i
               /\ n.intent = i => n.pc \in {"idle", "guardLock", "freezeLoad", "freezeSave"}
    BY <1>0, <1>5, <2>1 DEF Reviewed
  <2>2. ASSUME u.locks[l.intent].state \in Review
        PROVE  /\ \A p \in u.pending : b[p].intent # l.intent
               /\ n.pc \in {"idle", "guardLock", "freezeLoad", "freezeSave"}
    <3>1. u.locks[l.intent].state = l.coded
      BY <2>2 DEF NoLock, Review, NoState
    <3>2. NoRecord(l) /\ n.pc \in {"idle", "freezeLoad"}
      BY <2>2, <3>1, <1>4 DEF Review, KeepsRecord, Ends, Clears, NoRecord
    <3> QED BY <1>2, <3>2
  <2> QED BY <2>1, <2>2 DEF Reviewed
<1>11. CountedOnce(s, l) => CountedOnce(u, n)
  BY <1>1, <1>5 DEF CountedOnce, Booking, Settling
<1>12. LockOfRecord(b, s, l) => LockOfRecord(b, u, n)
  <2> SUFFICES ASSUME LockOfRecord(b, s, l) PROVE LockOfRecord(b, u, n)
    OBVIOUS
  <2>0. /\ l.pc \notin {"readPrior", "saveLock", "clearPop"}
        /\ n.pc \notin Settling \cup {"readPrior", "saveLock"}
    BY <1>5 DEF Settling
  <2>1. HasRecord(l) => s.locks[l.intent] # NoLock
    BY <1>2, <2>0 DEF LockOfRecord, NoLock, NoState, Held
  <2>2. ASSUME NEW o \in u.pending, ~(n.order = o /\ n.pc = "clearPop")
        PROVE  u.locks[b[o].intent].state \in Held /\ u.locks[b[o].intent].order = o
    <3>0. s.locks[b[o].intent].state \in Held /\ s.locks[b[o].intent].order = o
      BY <2>0 DEF LockOfRecord
    <3>1. CASE b[o].intent # l.intent
      BY <3>0, <3>1
    <3>2. CASE b[o].intent = l.intent
      <4>1. KeepsRecord(l) \/ Clears(l)
        BY <1>2, <1>4, <3>2 DEF NoRecord
      <4>2. HasRecord(l) /\ o = l.order
        BY <1>0, <1>2, <3>2, <4>1 DEF HasRecord, Orderly
      <4>3. KeepsRecord(l)
        BY <1>3, <2>2, <4>1, <4>2 DEF Clears
      <4> QED BY <2>1, <3>2, <4>2, <4>3 DEF KeepsRecord, Held
    <3> QED BY <3>1, <3>2
  <2>3. n.pc = "clearPop" => u.locks[n.intent].state \in TERMINAL
    BY <1>5, <2>1 DEF Clears, TERMINAL
  <2>4. ASSUME NEW i \in Intents, u.locks[i].state \notin TERMINAL \cup {NoState}
        PROVE  u.locks[i].order \in u.pending /\ b[u.locks[i].order].intent = i
    <3>1. CASE i # l.intent
      BY <3>1, <2>4 DEF LockOfRecord
    <3>2. CASE i = l.intent
      <4>1. u.locks[i].state = l.coded /\ u.locks[i].order = l.order
        BY <2>4, <3>2 DEF NoLock
      <4>2. KeepsRecord(l)
        BY <1>4, <2>4, <4>1 DEF Ends, Clears, TERMINAL
      <4> QED BY <1>2, <3>2, <4>1, <4>2 DEF HasRecord
    <3> QED BY <3>1, <3>2
  <2> QED BY <2>0, <2>2, <2>3, <2>4 DEF LockOfRecord
<1> QED BY <1>0, <1>6, <1>7, <1>8, <1>9, <1>10, <1>11, <1>12 DEF Tracked

LEMMA SettleReadStep ==
  ASSUME IInv, SerialInv, NEW t \in Threads, Threads = {t}, SettleRead(t)
  PROVE  SerialInv'
<1> DEFINE l == th[t]
           g == orphaned \cup forced
<1>0. /\ l \in Local /\ store \in Store /\ Tracked(broker, store, g, todo, l)
      /\ crashes = 0 => CountedOnce(store, l) /\ LockOfRecord(broker, store, l)
      /\ l.pc = "settleRead" /\ l.pc \in Settling
      /\ th \in [Threads -> Local]
  BY Here DEF SettleRead, At, Settling, IInv, TypeOK
<1>1. l.intent \in Intents /\ \A o \in store.pending : broker[o].intent \in Intents
  BY <1>0, Here DEF LocalOK, StoreOK, BrokerOK, Known
<1>2. /\ broker' = broker /\ store' = store /\ todo' = todo /\ crashes' = crashes
      /\ orphaned' \cup forced' = g
  BY DEF SettleRead, process, history, bounds
<1> HIDE DEF g
<1>3. CASE store.locks[l.intent] = NoLock
  <2> DEFINE m == [l EXCEPT !.lock = store.locks[l.intent], !.pc = l.ret]
             n == IF m.pc = "idle" THEN IdleThread ELSE m
  <2>1. Step(t, m)
    BY <1>3 DEF SettleRead
  <2>2. th'[t] = n
    BY <1>0, <2>1 DEF Step
  <2>3. m.pc = l.ret /\ m.order = l.order /\ m.intent = l.intent
    BY <1>0 DEF Local
  <2> HIDE DEF m
  <2>4. n = IdleThread \/ (n.order = l.order /\ n.intent = l.intent)
    BY <2>3
  <2>5. n.pc = l.ret
    BY <2>3 DEF IdleThread
  <2> HIDE DEF n
  <2>6. /\ Tracked(broker, store, g, todo, n)
        /\ crashes = 0 => CountedOnce(store, n) /\ LockOfRecord(broker, store, n)
    BY <1>0, <1>1, <1>3, <2>4, <2>5, Arrives
  <2> QED BY <1>2, <2>2, <2>6, Closes
<1>4. CASE store.locks[l.intent] # NoLock
  <2> DEFINE m == [l EXCEPT !.lock = store.locks[l.intent], !.pc = "settleWrite"]
  <2>1. Step(t, m)
    BY <1>4 DEF SettleRead
  <2>2. /\ m.pc = "settleWrite" /\ m.order = l.order /\ m.intent = l.intent
        /\ m.coded = l.coded /\ m.ret = l.ret /\ m.lock = store.locks[l.intent]
    BY <1>0 DEF Local
  <2>3. th'[t] = m
    BY <1>0, <2>1, <2>2 DEF Step
  <2> HIDE DEF m
  <2>4. /\ KeepsRecord(m) = KeepsRecord(l) /\ Ends(m) = Ends(l) /\ Clears(m) = Clears(l)
        /\ HasRecord(m) = HasRecord(l) /\ NoRecord(m) = NoRecord(l)
    BY <1>0, <2>2 DEF KeepsRecord, Ends, Clears, HasRecord, NoRecord, RecordLabels,
       NoRecordLabels, Settling
  <2>5. Orderly(broker, store, g, m)
    BY <1>0, <2>2 DEF Tracked, Orderly, Kept
  <2>6. Placed(broker, store, todo, m)
    BY <1>0, <2>2, <2>4 DEF Tracked, Placed, GuardLabels
  <2>7. Returns(broker, m) /\ Booked(broker, store, g, m)
    BY <1>0, <2>2, <2>4 DEF Tracked, Returns, Booked, Settling, BookLabels
  <2>8. Reviewed(broker, store, m)
    BY <1>0, <2>2 DEF Tracked, Reviewed
  <2>9. Tracked(broker, store, g, todo, m)
    BY <1>0, <2>5, <2>6, <2>7, <2>8 DEF Tracked
  <2>10. crashes = 0 => CountedOnce(store, m) /\ LockOfRecord(broker, store, m)
    BY <1>0, <2>2 DEF CountedOnce, Booking, LockOfRecord, Settling
  <2> QED BY <1>2, <2>3, <2>9, <2>10, Closes
<1> QED BY <1>3, <1>4

LEMMA SettleWriteStep ==
  ASSUME IInv, SerialInv, NEW t \in Threads, Threads = {t}, SettleWrite(t)
  PROVE  SerialInv'
<1> DEFINE l == th[t]
           g == orphaned \cup forced
           r == l.coded \in RESUBMIT_OK_STATES
           k == [l.lock EXCEPT !.state = l.coded, !.order = l.order, !.reconciled = r]
           u == [store EXCEPT !.locks[l.intent] = k]
           m == [l EXCEPT !.pc = l.ret, !.lock = NoLock]
           n == IF m.pc = "idle" THEN IdleThread ELSE m
<1>0. /\ l \in Local /\ store \in Store /\ Tracked(broker, store, g, todo, l)
      /\ crashes = 0 => CountedOnce(store, l) /\ LockOfRecord(broker, store, l)
      /\ l.pc \in Settling
      /\ th \in [Threads -> Local]
  BY Here DEF SettleWrite, At, Settling, IInv, TypeOK
<1>1. /\ l.intent \in Intents /\ \A o \in store.pending : broker[o].intent \in Intents
      /\ l.order \in Orders
  BY <1>0, Here DEF LocalOK, StoreOK, BrokerOK, Known, Settling, GuardLabels
<1>2. /\ broker' = broker /\ store' = u /\ todo' = todo /\ crashes' = crashes
      /\ orphaned' \cup forced' = g
  BY DEF SettleWrite, process, history, bounds
<1>3. Step(t, m)
  BY DEF SettleWrite
<1>4. th'[t] = n
  BY <1>0, <1>3 DEF Step
<1>5. m.pc = l.ret /\ m.order = l.order /\ m.intent = l.intent
  BY <1>0 DEF Local
<1> HIDE DEF m
<1>6. (n = IdleThread \/ (n.order = l.order /\ n.intent = l.intent)) /\ n.pc = l.ret
  BY <1>5 DEF IdleThread
<1>7. l.coded \in CodedStates \cup {NoState} /\ l.lock \in Lock
  BY <1>0 DEF Local
<1>8. k \in Lock /\ k.state = l.coded /\ k.order = l.order
  <2>1. r \in BOOLEAN
    OBVIOUS
  <2> HIDE DEF r
  <2> QED BY <1>1, <1>7, <2>1 DEF Lock
<1> HIDE DEF k, n
<1>9. /\ u \in Store /\ u.pending = store.pending /\ u.execs = store.execs
      /\ u.applied = store.applied /\ u.locks[l.intent] = k
      /\ \A i \in Intents : i # l.intent => u.locks[i] = store.locks[i]
  <2> DEFINE v == [store.locks EXCEPT ![l.intent] = k]
  <2>1. v \in [Intents -> Lock] /\ v[l.intent] = k
        /\ \A i \in Intents : i # l.intent => v[i] = store.locks[i]
    BY <1>0, <1>1, <1>8 DEF Store
  <2>2. u = [store EXCEPT !.locks = v]
    BY <1>0 DEF Store
  <2> HIDE DEF v
  <2> QED BY <1>0, <2>1, <2>2 DEF Store
<1> HIDE DEF u, g
<1>10. /\ Tracked(broker, u, g, todo, n)
       /\ crashes = 0 => CountedOnce(u, n) /\ LockOfRecord(broker, u, n)
  BY <1>0, <1>1, <1>6, <1>8, <1>9, Arrives
<1> QED BY <1>2, <1>4, <1>10, Closes

-----------------------------------------------------------------------------
(* Transmitting and recording. *)

\* The order ids in the file are those of orders that were transmitted, and no
\* fill is booked of one that was not.
LEMMA UnusedFacts ==
  ASSUME IInv, NEW o \in Orders, Unused(o)
  PROVE  /\ o \notin store.pending /\ o \notin todo
         /\ store.execs[o] = 0 /\ store.applied[o] = 0
         /\ broker[o].status = NoState
<1>1. broker[o].status = NoState /\ store \in Store /\ StoreOK(broker, forced, store)
      /\ \A p \in todo : Known(broker, p)
  BY SharedFacts DEF Unused
<1>2. store.execs[o] \in Nat /\ store.applied[o] \in Nat
  BY <1>1 DEF Store
<1>3. o \notin store.pending /\ o \notin todo
  BY <1>1 DEF StoreOK, Known
<1>4. ~(store.execs[o] + store.applied[o] > 0)
  BY <1>1 DEF StoreOK, BookOK, NoState
<1> QED BY <1>1, <1>2, <1>3, <1>4

LEMMA TransmitStep ==
  ASSUME IInv, SerialInv, NEW t \in Threads, Threads = {t}, Transmit(t)
  PROVE  SerialInv'
<1> DEFINE l == th[t]
           g == orphaned \cup forced
<1>0. /\ l \in Local /\ store \in Store /\ Tracked(broker, store, g, todo, l)
      /\ crashes = 0 => CountedOnce(store, l) /\ LockOfRecord(broker, store, l)
      /\ l.pc = "transmit" /\ l.intent \in Intents
      /\ th \in [Threads -> Local] /\ broker \in BrokerType
  BY Here DEF Transmit, At, LocalOK, IInv, TypeOK
<1>1. PICK o \in Orders : /\ Unused(o)
                          /\ broker' = [broker EXCEPT ![o] = NewOrder(l.intent)]
                          /\ Step(t, [l EXCEPT !.pc = "savePending", !.order = o])
  BY DEF Transmit
<1> DEFINE m == [l EXCEPT !.pc = "savePending", !.order = o]
           b == [broker EXCEPT ![o] = NewOrder(l.intent)]
<1>2. m.pc = "savePending" /\ m.order = o /\ m.intent = l.intent
  BY <1>0 DEF Local
<1>3. th'[t] = m
  BY <1>0, <1>1, <1>2 DEF Step
<1>4. /\ broker' = b /\ store' = store /\ todo' = todo /\ crashes' = crashes
      /\ orphaned' \cup forced' = g
  BY <1>1 DEF Transmit, process, history, bounds
<1>5. /\ o \notin store.pending /\ o \notin todo
      /\ store.execs[o] = 0 /\ store.applied[o] = 0
  BY <1>1, UnusedFacts
<1>6. /\ b[o].status = "WORKING" /\ b[o].intent = l.intent
      /\ \A p : p # o /\ p \in Orders => b[p] = broker[p]
  BY <1>0 DEF BrokerType, NewOrder
<1>7. store.pending \subseteq Orders
  BY <1>0 DEF Store
<1> HIDE DEF m, g, b
<1>8. \A p \in store.pending : p # o /\ b[p] = broker[p] /\ broker[p].intent # l.intent
  BY <1>0, <1>5, <1>6, <1>7 DEF Tracked, Placed, NoRecord, NoRecordLabels
<1>9. Kept(store, g, l) = store.pending \cup g /\ Kept(store, g, m) = store.pending \cup g \cup {o}
  BY <1>0, <1>2 DEF Kept
<1>10. Orderly(b, store, g, m)
  <2>1. \A p \in Orders : b[p].status \in RawLive => p \in Kept(store, g, m)
    BY <1>0, <1>6, <1>9 DEF Tracked, Orderly
  <2>2. ASSUME NEW p \in Orders, p # o, b[p].status \in RawLive, b[p].intent = l.intent
        PROVE  p \in g
    BY <1>0, <1>6, <1>8, <1>9, <2>2 DEF Tracked, Orderly
  <2>3. ASSUME NEW p \in Orders, NEW q \in Orders, p # q, b[p].status \in RawLive,
               b[q].status \in RawLive, b[p].intent = b[q].intent
        PROVE  p \in g \/ q \in g
    <3>1. CASE p = o
      BY <1>6, <2>2, <2>3, <3>1
    <3>2. CASE q = o
      BY <1>6, <2>2, <2>3, <3>2
    <3>3. CASE p # o /\ q # o
      BY <1>0, <1>6, <2>3, <3>3 DEF Tracked, Orderly
    <3> QED BY <3>1, <3>2, <3>3
  <2>4. \A p \in Orders : b[p].status = "FILLED" /\ p \notin Kept(store, g, m)
          => store.execs[p] > 0 /\ store.applied[p] > 0
    BY <1>0, <1>6, <1>9 DEF Tracked, Orderly
  <2>5. \A p, q \in store.pending : b[p].intent = b[q].intent => p = q
    BY <1>0, <1>8 DEF Tracked, Orderly
  <2> QED BY <2>1, <2>3, <2>4, <2>5 DEF Orderly
<1>11. Placed(b, store, todo, m)
  <2>1. ~HasRecord(m)
    BY <1>2 DEF HasRecord, RecordLabels, Settling
  <2> QED BY <1>2, <1>5, <1>6, <1>8, <2>1 DEF Placed
<1>12. Returns(b, m) /\ Booked(b, store, g, m)
  BY <1>2 DEF Returns, Booked, Settling, BookLabels
<1>13. Reviewed(b, store, m)
  BY <1>0, <1>2, <1>8 DEF Tracked, Reviewed
<1>14. Tracked(b, store, g, todo, m)
  BY <1>0, <1>10, <1>11, <1>12, <1>13 DEF Tracked
<1>15. crashes = 0 => CountedOnce(store, m)
  BY <1>0, <1>2, <1>5 DEF CountedOnce, Booking
<1>16. crashes = 0 => LockOfRecord(b, store, m)
  BY <1>0, <1>2, <1>8 DEF LockOfRecord, Settling
<1> QED BY <1>3, <1>4, <1>14, <1>15, <1>16, Closes

LEMMA TransmitAckLostStep ==
  ASSUME IInv, SerialInv, NEW t \in Threads, Threads = {t}, TransmitAckLost(t)
  PROVE  SerialInv'
<1> DEFINE l == th[t]
           g == orphaned \cup forced
<1>0. /\ l \in Local /\ store \in Store /\ Tracked(broker, store, g, todo, l)
      /\ crashes = 0 => CountedOnce(store, l) /\ LockOfRecord(broker, store, l)
      /\ l.pc = "transmit"
      /\ th \in [Threads -> Local] /\ broker \in BrokerType
  BY Here DEF TransmitAckLost, At, IInv, TypeOK
<1>1. PICK o \in Orders : /\ Unused(o)
                          /\ broker' = [broker EXCEPT ![o] = NewOrder(l.intent)]
                          /\ orphaned' = orphaned \cup {o}
  BY DEF TransmitAckLost
<1> DEFINE b == [broker EXCEPT ![o] = NewOrder(l.intent)]
           h == g \cup {o}
<1>2. th'[t] = IdleThread /\ IdleThread.pc = "idle"
  BY <1>0 DEF TransmitAckLost, Step, IdleThread
<1>3. /\ broker' = b /\ store' = store /\ todo' = todo /\ crashes' = crashes
      /\ orphaned' \cup forced' = h
  BY <1>1 DEF TransmitAckLost, process, Fault
<1>4. o \notin store.pending /\ store.pending \subseteq Orders
  BY <1>0, <1>1, UnusedFacts DEF Store
<1>5. \A p : p # o /\ p \in Orders => b[p] = broker[p]
  BY <1>0 DEF BrokerType
<1> HIDE DEF b
<1>6. /\ \A p \in store.pending : b[p] = broker[p]
      /\ Kept(store, g, l) = store.pending \cup g
      /\ Kept(store, h, IdleThread) = store.pending \cup g \cup {o}
  BY <1>0, <1>2, <1>4, <1>5 DEF Kept
<1> HIDE DEF g
<1>7. Orderly(b, store, h, IdleThread)
  <2>1. \A p \in Orders : p \in h \/ (b[p] = broker[p] /\ p # o)
    BY <1>5
  <2>2. o \in h /\ g \subseteq h
    OBVIOUS
  <2>3. \A p \in Orders : p \notin Kept(store, h, IdleThread)
          => p \notin Kept(store, g, l) /\ p \notin h
    BY <1>6
  <2> HIDE DEF h
  <2>4. Orderly(broker, store, g, l)
    BY <1>0 DEF Tracked
  <2>5. \A p \in Orders : b[p].status \in RawLive => p \in Kept(store, h, IdleThread)
    BY <2>1, <2>3, <2>4 DEF Orderly
  <2>6. \A p, q \in Orders :
          p # q /\ b[p].status \in RawLive /\ b[q].status \in RawLive
                /\ b[p].intent = b[q].intent => p \in h \/ q \in h
    BY <2>1, <2>2, <2>4 DEF Orderly
  <2>7. \A p \in Orders : b[p].status = "FILLED" /\ p \notin Kept(store, h, IdleThread)
          => store.execs[p] > 0 /\ store.applied[p] > 0
    BY <2>1, <2>3, <2>4 DEF Orderly
  <2>8. \A p, q \in store.pending : b[p].intent = b[q].intent => p = q
    BY <1>6, <2>4 DEF Orderly
  <2> QED BY <2>5, <2>6, <2>7, <2>8 DEF Orderly
<1>8. Reviewed(b, store, IdleThread)
  BY <1>0, <1>2, <1>6 DEF Tracked, Reviewed
<1>9. Tracked(b, store, h, todo, IdleThread)
  BY <1>0, <1>7, <1>8, IdleTracked DEF Tracked
<1>10. crashes = 0 => CountedOnce(store, IdleThread) /\ LockOfRecord(b, store, IdleThread)
  BY <1>0, <1>2, <1>4, <1>6 DEF CountedOnce, Booking, LockOfRecord, Settling
<1> QED BY <1>2, <1>3, <1>9, <1>10, Closes

LEMMA SavePendingStep ==
  ASSUME IInv, SerialInv, NEW t \in Threads, Threads = {t}, SavePending(t)
  PROVE  SerialInv'
<1> DEFINE l == th[t]
           g == orphaned \cup forced
           m == [l EXCEPT !.pc = "readPrior"]
           s == [store EXCEPT !.pending = @ \cup {l.order}]
<1>0. /\ l \in Local /\ store \in Store /\ Tracked(broker, store, g, todo, l)
      /\ crashes = 0 => CountedOnce(store, l) /\ LockOfRecord(broker, store, l)
      /\ l.pc = "savePending" /\ th \in [Threads -> Local]
  BY Here DEF SavePending, At, IInv, TypeOK
<1>1. m.pc = "readPrior" /\ m.order = l.order /\ m.intent = l.intent /\ m.ret = l.ret
  BY <1>0 DEF Local
<1>2. /\ s.pending = store.pending \cup {l.order} /\ s.execs = store.execs
      /\ s.applied = store.applied /\ s.locks = store.locks
  BY <1>0 DEF Store
<1>3. Step(t, m) /\ store' = s
  BY DEF SavePending
<1>4. th'[t] = m
  BY <1>0, <1>1, <1>3 DEF Step
<1>5. broker' = broker /\ todo' = todo /\ orphaned' \cup forced' = g /\ crashes' = crashes
  BY DEF SavePending, process, history, bounds
<1> HIDE DEF m, s, g
<1>6. /\ l.order \notin todo /\ broker[l.order].intent = l.intent
      /\ \A p \in store.pending : broker[p].intent # l.intent
  BY <1>0 DEF Tracked, Placed, NoRecord, NoRecordLabels, GuardLabels
<1>7. Orderly(broker, s, g, m)
  <2>1. Kept(s, g, m) = Kept(store, g, l)
    BY <1>0, <1>1, <1>2 DEF Kept
  <2> QED BY <1>0, <1>2, <1>6, <2>1 DEF Tracked, Orderly
<1>8. Placed(broker, s, todo, m)
  <2>1. ~NoRecord(m)
    BY <1>1 DEF NoRecord, NoRecordLabels, Settling
  <2> QED BY <1>1, <1>2, <1>6, <2>1 DEF Placed
<1>9. Returns(broker, m) /\ Booked(broker, s, g, m)
  BY <1>1 DEF Returns, Booked, Settling, BookLabels
<1>10. Reviewed(broker, s, m)
  BY <1>0, <1>1, <1>2, <1>6 DEF Tracked, Reviewed
<1>11. Tracked(broker, s, g, todo, m)
  BY <1>0, <1>2, <1>7, <1>8, <1>9, <1>10 DEF Tracked
<1>12. crashes = 0 => CountedOnce(s, m)
  BY <1>0, <1>1, <1>2 DEF CountedOnce, Booking
<1>13. crashes = 0 => LockOfRecord(broker, s, m)
  BY <1>0, <1>1, <1>2 DEF LockOfRecord, Settling
<1> QED BY <1>3, <1>4, <1>5, <1>11, <1>12, <1>13, Closes

LEMMA ReadPriorLockStep ==
  ASSUME IInv, SerialInv, NEW t \in Threads, Threads = {t}, ReadPriorLock(t)
  PROVE  SerialInv'
<1> DEFINE l == th[t]
           g == orphaned \cup forced
           m == [l EXCEPT !.pc = "saveLock", !.lock = store.locks[l.intent]]
<1>0. /\ l \in Local /\ store \in Store /\ Tracked(broker, store, g, todo, l)
      /\ crashes = 0 => CountedOnce(store, l) /\ LockOfRecord(broker, store, l)
      /\ l.pc = "readPrior" /\ th \in [Threads -> Local]
  BY Here DEF ReadPriorLock, At, IInv, TypeOK
<1>1. m.pc = "saveLock" /\ m.order = l.order /\ m.intent = l.intent
  BY <1>0 DEF Local
<1>2. Step(t, m)
  BY DEF ReadPriorLock
<1>3. th'[t] = m
  BY <1>0, <1>1, <1>2 DEF Step
<1>4. /\ broker' = broker /\ store' = store /\ todo' = todo
      /\ orphaned' \cup forced' = g /\ crashes' = crashes
  BY DEF ReadPriorLock, process, history, bounds
<1> HIDE DEF m, g
<1>5. HasRecord(l) /\ ~NoRecord(m)
  BY <1>0, <1>1 DEF HasRecord, RecordLabels, NoRecord, NoRecordLabels, Settling
<1>6. Orderly(broker, store, g, m)
  BY <1>0, <1>1 DEF Tracked, Orderly, Kept
<1>7. Placed(broker, store, todo, m)
  BY <1>0, <1>1, <1>5 DEF Tracked, Placed, GuardLabels
<1>8. Returns(broker, m) /\ Booked(broker, store, g, m)
  BY <1>1 DEF Returns, Booked, Settling, BookLabels
<1>9. Reviewed(broker, store, m)
  BY <1>0, <1>1 DEF Tracked, Reviewed
<1>10. Tracked(broker, store, g, todo, m)
  BY <1>0, <1>6, <1>7, <1>8, <1>9 DEF Tracked
<1>11. crashes = 0 => CountedOnce(store, m) /\ LockOfRecord(broker, store, m)
  BY <1>0, <1>1 DEF CountedOnce, Booking, LockOfRecord, Settling
<1> QED BY <1>3, <1>4, <1>10, <1>11, Closes

LEMMA SaveLockStep ==
  ASSUME IInv, SerialInv, NEW t \in Threads, Threads = {t}, SaveLock(t)
  PROVE  SerialInv'
<1> DEFINE l == th[t]
           g == orphaned \cup forced
           k == [state |-> "WORKING", order |-> l.order, reconciled |-> FALSE,
                 attempts |-> l.lock.attempts + 1]
           s == [store EXCEPT !.locks[l.intent] = k]
<1>0. /\ l \in Local /\ store \in Store /\ Tracked(broker, store, g, todo, l)
      /\ crashes = 0 => CountedOnce(store, l) /\ LockOfRecord(broker, store, l)
      /\ l.pc = "saveLock" /\ th \in [Threads -> Local] /\ l.intent \in Intents
  BY Here DEF SaveLock, At, LocalOK, IInv, TypeOK
<1>1. k.state = "WORKING" /\ k.order = l.order
  OBVIOUS
<1> HIDE DEF k
<1>2. /\ s.pending = store.pending /\ s.execs = store.execs /\ s.applied = store.applied
      /\ s.locks[l.intent] = k
      /\ \A i \in Intents : i # l.intent => s.locks[i] = store.locks[i]
  BY <1>0 DEF Store
<1>3. /\ store' = s /\ th'[t] = IdleThread /\ IdleThread.pc = "idle"
      /\ broker' = broker /\ todo' = todo /\ orphaned' \cup forced' = g /\ crashes' = crashes
  BY <1>0 DEF SaveLock, Step, IdleThread, process, history, bounds, k
<1> HIDE DEF s, g
<1>4. l.order \in store.pending /\ broker[l.order].intent = l.intent
      /\ \A o \in store.pending : o # l.order => broker[o].intent # l.intent
  BY <1>0 DEF Tracked, Placed, HasRecord, RecordLabels, GuardLabels, Orderly
<1>5. \A o \in store.pending : broker[o].intent \in Intents
  BY Here DEF StoreOK, BrokerOK, Known
<1>6. Orderly(broker, s, g, IdleThread)
  BY <1>0, <1>2, <1>3 DEF Tracked, Orderly, Kept
<1>7. Reviewed(broker, s, IdleThread)
  BY <1>0, <1>1, <1>2, <1>3 DEF Tracked, Reviewed, Review
<1>8. Tracked(broker, s, g, todo, IdleThread)
  BY <1>0, <1>2, <1>6, <1>7, IdleTracked DEF Tracked
<1>9. crashes = 0 => CountedOnce(s, IdleThread)
  BY <1>0, <1>2, <1>3 DEF CountedOnce, Booking
<1>10. crashes = 0 => LockOfRecord(broker, s, IdleThread)
  <2> SUFFICES ASSUME crashes = 0 PROVE LockOfRecord(broker, s, IdleThread)
    OBVIOUS
  <2>1. ASSUME NEW o \in s.pending
        PROVE  s.locks[broker[o].intent].state \in Held /\ s.locks[broker[o].intent].order = o
    BY <1>0, <1>1, <1>2, <1>4, <1>5 DEF LockOfRecord, Held
  <2>2. ASSUME NEW i \in Intents, s.locks[i].state \notin TERMINAL \cup {NoState}
        PROVE  s.locks[i].order \in s.pending /\ broker[s.locks[i].order].intent = i
    BY <1>0, <1>1, <1>2, <1>4, <2>2 DEF LockOfRecord, Settling
  <2> QED BY <1>3, <2>1, <2>2 DEF LockOfRecord, Settling
<1> QED BY <1>3, <1>8, <1>9, <1>10, Closes

-----------------------------------------------------------------------------
(* Booking a fill. *)

\* Counting it in the file changes nothing else.
LEMMA Counted ==
  ASSUME IInv, SerialInv, NEW t \in Threads, Threads = {t},
         NEW m, m.order = th[t].order, m.intent = th[t].intent, m.ret = th[t].ret,
         th'[t] = m, UNCHANGED <<broker, process, history>>, crashes' = crashes,
         NEW s, store' = s, s.pending = store.pending, s.locks = store.locks,
         s.execs \in [Orders -> Nat], s.applied \in [Orders -> Nat],
         \A o \in Orders : /\ s.execs[o] >= store.execs[o]
                           /\ s.applied[o] >= store.applied[o],
         th[t].pc \in BookLabels \ {"commitPop"}, m.pc \in BookLabels \ {"commitAppend"},
         m.pc = "commitSave" => m.copy = s,
         s.execs[m.order] > 0, m.pc = "commitPop" => s.applied[m.order] > 0,
         crashes = 0 => CountedOnce(s, m)
  PROVE  SerialInv'
<1> DEFINE l == th[t]
           g == orphaned \cup forced
<1>0. /\ l \in Local /\ store \in Store /\ Tracked(broker, store, g, todo, l)
      /\ crashes = 0 => LockOfRecord(broker, store, l)
  BY Here
<1>1. broker' = broker /\ todo' = todo /\ orphaned' \cup forced' = g
  BY DEF process, history
<1> HIDE DEF g
<1>2. HasRecord(l) /\ ~NoRecord(m) /\ l.pc \notin GuardLabels \cup {"idle"}
      /\ m.pc \notin Settling \cup {"freezeSave"}
  BY DEF HasRecord, RecordLabels, NoRecord, NoRecordLabels, Settling, BookLabels, GuardLabels
<1>3. Orderly(broker, s, g, m)
  <2>1. Kept(s, g, m) = Kept(store, g, l)
    BY DEF Kept, BookLabels
  <2>2. \A o \in Orders : store.execs[o] > 0 /\ store.applied[o] > 0
                            => s.execs[o] > 0 /\ s.applied[o] > 0
    BY <1>0 DEF Store
  <2> QED BY <1>0, <2>1, <2>2 DEF Tracked, Orderly
<1>4. Placed(broker, s, todo, m)
  BY <1>0, <1>2 DEF Tracked, Placed, Settling
<1>5. Returns(broker, m) /\ Booked(broker, s, g, m)
  BY <1>0, <1>2 DEF Tracked, Returns, Booked, BookLabels, Settling
<1>6. Reviewed(broker, s, m)
  BY <1>0 DEF Tracked, Reviewed, BookLabels
<1>7. Tracked(broker, s, g, todo, m)
  BY <1>0, <1>3, <1>4, <1>5, <1>6 DEF Tracked
<1>8. crashes = 0 => LockOfRecord(broker, s, m)
  BY <1>0, <1>2 DEF LockOfRecord, BookLabels, Settling
<1> QED BY <1>1, <1>7, <1>8, Closes

LEMMA CommitSteps ==
  ASSUME IInv, SerialInv, NEW t \in Threads, Threads = {t},
         CommitAppend(t) \/ CommitLoad(t) \/ CommitSave(t)
  PROVE  SerialInv'
<1> DEFINE l == th[t]
           o == l.order
<1>0. /\ l \in Local /\ store \in Store /\ th \in [Threads -> Local]
      /\ Placed(broker, store, todo, l) /\ Booked(broker, store, orphaned \cup forced, l)
      /\ crashes = 0 => CountedOnce(store, l)
      /\ UNCHANGED <<broker, process, history>> /\ crashes' = crashes
      /\ l.pc \in BookLabels \ {"commitPop"}
  BY Here DEF Tracked, CommitAppend, CommitLoad, CommitSave, At, BookLabels, bounds, IInv, TypeOK
<1>1. o \in Orders /\ o \in store.pending /\ store.pending \subseteq Orders
  BY <1>0, Here DEF LocalOK, Known, GuardLabels, BookLabels, Placed, HasRecord, RecordLabels, Store
<1>2. store.execs \in [Orders -> Nat] /\ store.applied \in [Orders -> Nat]
  BY <1>0 DEF Store
<1>3. CASE CommitAppend(t)
  <2> DEFINE m == [l EXCEPT !.pc = "commitLoad"]
             e == [store.execs EXCEPT ![o] = @ + 1]
             s == [store EXCEPT !.execs = e]
  <2>0. l.pc = "commitAppend"
    BY <1>3 DEF CommitAppend, At
  <2>1. m.pc = "commitLoad" /\ m.order = o /\ m.intent = l.intent /\ m.ret = l.ret
    BY <1>0 DEF Local
  <2>2. Step(t, m)
    BY <1>3 DEF CommitAppend
  <2>3. th'[t] = m
    BY <1>0, <2>1, <2>2 DEF Step
  <2>4. store' = s
    BY <1>0, <1>3 DEF CommitAppend, Store
  <2>5. /\ e \in [Orders -> Nat] /\ e[o] = store.execs[o] + 1
        /\ \A p \in Orders : p # o => e[p] = store.execs[p]
    BY <1>1, <1>2
  <2> HIDE DEF e, m
  <2>6. /\ s.pending = store.pending /\ s.locks = store.locks /\ s.execs = e
        /\ s.applied = store.applied
    BY <1>0 DEF Store
  <2> HIDE DEF s
  <2>7. crashes = 0 => CountedOnce(s, m)
    <3> SUFFICES ASSUME crashes = 0 PROVE CountedOnce(s, m)
      OBVIOUS
    <3>1. store.execs[o] = 0 /\ store.applied[o] = 0
      BY <1>0, <1>1, <2>0 DEF CountedOnce, Booking
    <3>2. /\ \A p \in Orders : store.execs[p] <= 1 /\ store.applied[p] <= 1
          /\ \A p \in store.pending : p # o => store.execs[p] = 0 /\ store.applied[p] = 0
      BY <1>0 DEF CountedOnce, Booking
    <3>3. \A p \in Orders : s.execs[p] <= 1 /\ s.applied[p] <= 1
      BY <2>5, <2>6, <3>1, <3>2
    <3>4. \A p \in s.pending : p # o => s.execs[p] = 0 /\ s.applied[p] = 0
      BY <2>5, <2>6, <3>2, <1>1
    <3> QED BY <2>1, <2>6, <3>1, <3>3, <3>4 DEF CountedOnce, Booking
  <2>8. /\ \A p \in Orders : s.execs[p] >= store.execs[p] /\ s.applied[p] >= store.applied[p]
        /\ s.execs[o] > 0
    BY <1>1, <1>2, <2>5, <2>6
  <2> QED BY <1>0, <1>2, <2>1, <2>3, <2>4, <2>5, <2>6, <2>7, <2>8, Counted DEF BookLabels
<1>4. CASE CommitLoad(t)
  <2> DEFINE m == [l EXCEPT !.pc = "commitSave", !.copy = store]
  <2>0. l.pc = "commitLoad"
    BY <1>4 DEF CommitLoad, At
  <2>1. /\ m.pc = "commitSave" /\ m.order = o /\ m.intent = l.intent /\ m.ret = l.ret
        /\ m.copy = store
    BY <1>0 DEF Local
  <2>2. Step(t, m) /\ store' = store
    BY <1>4 DEF CommitLoad
  <2>3. th'[t] = m
    BY <1>0, <2>1, <2>2 DEF Step
  <2> HIDE DEF m
  <2>4. crashes = 0 => CountedOnce(store, m)
    BY <1>0, <2>0, <2>1 DEF CountedOnce, Booking
  <2>5. \A p \in Orders : store.execs[p] >= store.execs[p] /\ store.applied[p] >= store.applied[p]
    BY <1>2
  <2>6. store.execs[o] > 0
    BY <1>0, <2>0 DEF Booked
  <2> QED BY <1>0, <1>2, <2>1, <2>2, <2>3, <2>4, <2>5, <2>6, Counted DEF BookLabels
<1>5. CASE CommitSave(t)
  <2> DEFINE m == [l EXCEPT !.pc = "commitPop", !.copy = EmptyStore]
             a == [store.applied EXCEPT ![o] = @ + 1]
             s == [store EXCEPT !.applied = a]
  <2>0. l.pc = "commitSave" /\ l.copy = store
    BY <1>0, <1>5 DEF CommitSave, At, Placed
  <2>1. m.pc = "commitPop" /\ m.order = o /\ m.intent = l.intent /\ m.ret = l.ret
    BY <1>0 DEF Local
  <2>2. Step(t, m)
    BY <1>5 DEF CommitSave
  <2>3. th'[t] = m
    BY <1>0, <2>1, <2>2 DEF Step
  <2>4. store' = s
    BY <1>0, <1>5, <2>0 DEF CommitSave, Store
  <2>5. /\ a \in [Orders -> Nat] /\ a[o] = store.applied[o] + 1
        /\ \A p \in Orders : p # o => a[p] = store.applied[p]
    BY <1>1, <1>2
  <2> HIDE DEF a, m
  <2>6. /\ s.pending = store.pending /\ s.locks = store.locks /\ s.execs = store.execs
        /\ s.applied = a
    BY <1>0 DEF Store
  <2> HIDE DEF s
  <2>7. crashes = 0 => CountedOnce(s, m)
    <3> SUFFICES ASSUME crashes = 0 PROVE CountedOnce(s, m)
      OBVIOUS
    <3>1. store.applied[o] = 0
      BY <1>0, <2>0 DEF CountedOnce
    <3>2. /\ \A p \in Orders : store.execs[p] <= 1 /\ store.applied[p] <= 1
          /\ \A p \in store.pending : p # o => store.execs[p] = 0 /\ store.applied[p] = 0
      BY <1>0 DEF CountedOnce, Booking
    <3>3. \A p \in Orders : s.execs[p] <= 1 /\ s.applied[p] <= 1
      BY <2>5, <2>6, <3>1, <3>2
    <3>4. \A p \in s.pending : p # o => s.execs[p] = 0 /\ s.applied[p] = 0
      BY <2>5, <2>6, <3>2, <1>1
    <3> QED BY <2>1, <2>6, <3>1, <3>3, <3>4 DEF CountedOnce, Booking
  <2>8. /\ \A p \in Orders : s.execs[p] >= store.execs[p] /\ s.applied[p] >= store.applied[p]
        /\ s.execs[o] > 0 /\ s.applied[o] > 0
    BY <1>0, <1>1, <1>2, <2>0, <2>5, <2>6 DEF Booked
  <2> QED BY <1>0, <1>2, <2>1, <2>3, <2>4, <2>5, <2>6, <2>7, <2>8, Counted DEF BookLabels
<1> QED BY <1>3, <1>4, <1>5

-----------------------------------------------------------------------------
(* The freeze. *)

LEMMA FreezeSteps ==
  ASSUME IInv, SerialInv, NEW t \in Threads, Threads = {t}, FreezeLoad(t) \/ FreezeSave(t)
  PROVE  SerialInv'
<1> DEFINE l == th[t]
           g == orphaned \cup forced
<1>0. /\ l \in Local /\ store \in Store /\ th \in [Threads -> Local]
      /\ Tracked(broker, store, g, todo, l)
      /\ crashes = 0 => CountedOnce(store, l) /\ LockOfRecord(broker, store, l)
  BY Here DEF IInv, TypeOK
<1> HIDE DEF g
<1>1. CASE FreezeLoad(t)
  <2> DEFINE m == [l EXCEPT !.pc = "freezeSave", !.copy = store]
  <2>1. Step(t, m) /\ l.pc = "freezeLoad" /\ Quiet(l)
    BY <1>1 DEF FreezeLoad, At, Quiet, Settling
  <2>2. /\ m.pc = "freezeSave" /\ m.order = l.order /\ m.intent = l.intent
        /\ m.copy = store /\ m \in Local
    BY <1>0 DEF Local, Labels
  <2> HIDE DEF m
  <2>3. NoRecord(l) /\ ~HasRecord(m) /\ Quiet(m)
    BY <2>1, <2>2 DEF NoRecord, NoRecordLabels, HasRecord, RecordLabels, Settling, Quiet
  <2>4. Placed(broker, store, todo, m)
    BY <1>0, <2>1, <2>2, <2>3 DEF Tracked, Placed, GuardLabels
  <2>5. Returns(broker, m) /\ Booked(broker, store, g, m)
    BY <2>2 DEF Returns, Booked, Settling, BookLabels
  <2>6. Reviewed(broker, store, m)
    BY <1>0, <2>2 DEF Tracked, Reviewed
  <2> QED BY <1>1, <2>1, <2>2, <2>3, <2>4, <2>5, <2>6, QuietStep DEF FreezeLoad, bounds, g
<1>2. CASE FreezeSave(t)
  <2> DEFINE s == [store EXCEPT !.review = TRUE]
  <2>1. l.pc = "freezeSave" /\ l.copy = store
    BY <1>0, <1>2 DEF FreezeSave, At, Tracked, Placed
  <2>2. /\ s.pending = store.pending /\ s.locks = store.locks /\ s.execs = store.execs
        /\ s.applied = store.applied
    BY <1>0 DEF Store
  <2>3. /\ store' = s /\ th'[t] = IdleThread /\ IdleThread.pc = "idle"
        /\ broker' = broker /\ todo' = todo /\ orphaned' \cup forced' = g /\ crashes' = crashes
    BY <1>0, <1>2, <2>1 DEF FreezeSave, Step, IdleThread, process, history, bounds, g
  <2> HIDE DEF s
  <2>4. Orderly(broker, s, g, IdleThread) /\ Reviewed(broker, s, IdleThread)
    BY <1>0, <2>1, <2>2, <2>3 DEF Tracked, Orderly, Kept, Reviewed
  <2>5. Tracked(broker, s, g, todo, IdleThread)
    BY <1>0, <2>2, <2>4, IdleTracked DEF Tracked
  <2>6. crashes = 0 => CountedOnce(s, IdleThread) /\ LockOfRecord(broker, s, IdleThread)
    BY <1>0, <2>1, <2>2, <2>3 DEF CountedOnce, Booking, LockOfRecord, Settling
  <2> QED BY <2>3, <2>5, <2>6, Closes
<1> QED BY <1>1, <1>2

-----------------------------------------------------------------------------
(* The broker moves. *)

\* What no step of the broker does: give an order another intent, revive it,
\* or fill one that was not live.
Moves(b, c) ==
  \A o \in Orders :
    /\ c[o].intent = b[o].intent
    /\ b[o].status \in RawTerminal => c[o] = b[o]
    /\ c[o].status \in RawLive => b[o].status \in RawLive
    /\ c[o].status = "FILLED" => b[o].status \in RawLive \cup {"FILLED"}

LEMMA MovesTracked ==
  ASSUME NEW b, NEW c, Moves(b, c), NEW s \in Store, NEW g, NEW d, NEW l \in Local,
         Tracked(b, s, g, d, l), l.pc \notin GuardLabels \cup {"idle"} => l.order \in Orders,
         \A o \in Orders : b[o].status \in RawLive \cup RawTerminal \cup {NoState}
  PROVE  /\ Tracked(c, s, g, d, l)
         /\ LockOfRecord(b, s, l) => LockOfRecord(c, s, l)
<1>1. s.pending \subseteq Orders
  BY DEF Store
<1>2. Orderly(c, s, g, l)
  <2>1. \A o \in Orders : c[o].status \in RawLive => o \in Kept(s, g, l)
    BY DEF Tracked, Orderly, Moves
  <2>2. \A o, p \in Orders :
          o # p /\ c[o].status \in RawLive /\ c[p].status \in RawLive
                /\ c[o].intent = c[p].intent => o \in g \/ p \in g
    BY DEF Tracked, Orderly, Moves
  <2>3. \A o \in Orders : c[o].status = "FILLED" /\ o \notin Kept(s, g, l)
          => s.execs[o] > 0 /\ s.applied[o] > 0
    BY DEF Tracked, Orderly, Moves
  <2>4. \A o, p \in s.pending : c[o].intent = c[p].intent => o = p
    BY <1>1 DEF Tracked, Orderly, Moves
  <2> QED BY <2>1, <2>2, <2>3, <2>4 DEF Orderly
<1>3. Placed(c, s, d, l)
  BY <1>1 DEF Tracked, Placed, Moves
<1>4. Returns(c, l)
  BY DEF Tracked, Returns, Moves, RawTerminal, GuardLabels
<1>5. Booked(c, s, g, l)
  <2>1. \A o \in Orders : NotFilled(b, o) => NotFilled(c, o)
    BY DEF NotFilled, Moves
  <2>2. l.pc \in {"osPop", "popPartial", "popClean", "clearGet", "clearPop"} \cup Settling
          => l.order \in Orders
    BY DEF GuardLabels, Settling
  <2> QED BY <2>1, <2>2 DEF Tracked, Booked
<1>6. Reviewed(c, s, l)
  BY <1>1 DEF Tracked, Reviewed, Moves
<1>7. LockOfRecord(b, s, l) => LockOfRecord(c, s, l)
  BY <1>1 DEF LockOfRecord, Moves
<1> QED BY <1>2, <1>3, <1>4, <1>5, <1>6, <1>7 DEF Tracked

\* What MovesTracked asks of the state.
LEMMA MovesHere ==
  ASSUME IInv, SerialInv, NEW t \in Threads, NEW c, Moves(broker, c)
  PROVE  /\ Tracked(c, store, orphaned \cup forced, todo, th[t])
         /\ crashes = 0 => LockOfRecord(c, store, th[t])
<1>1. /\ th[t] \in Local /\ store \in Store
      /\ Tracked(broker, store, orphaned \cup forced, todo, th[t])
      /\ crashes = 0 => LockOfRecord(broker, store, th[t])
      /\ th[t].pc \notin GuardLabels \cup {"idle"} => th[t].order \in Orders
  BY Here DEF LocalOK, Known
<1>2. \A o \in Orders : broker[o].status \in RawLive \cup RawTerminal \cup {NoState}
  BY Here DEF BrokerType
<1> QED BY <1>1, <1>2, MovesTracked

LEMMA BrokerStepSerial ==
  ASSUME IInv, SerialInv, NEW t \in Threads, Threads = {t}, NEW o \in Orders, BrokerStep(o)
  PROVE  SerialInv'
<1>1. broker \in BrokerType
  BY Here
<1>2. Moves(broker, broker')
  <2>1. CASE BrokerFills(o)
    <3> DEFINE n == broker[o].filled + 1
               r == IF n = Qty THEN "FILLED" ELSE broker[o].status
    <3>1. /\ r \in {"FILLED", broker[o].status}
          /\ broker' = [broker EXCEPT ![o] = [status |-> r, filled |-> n,
                                              intent |-> broker[o].intent]]
      BY <2>1 DEF BrokerFills
    <3> HIDE DEF n, r
    <3>2. broker[o].status \in RawLive
      BY <2>1 DEF BrokerFills, AliveAtBroker
    <3> QED BY <1>1, <3>1, <3>2 DEF Moves, BrokerType, RawLive, RawTerminal
  <2>2. CASE BrokerCancels(o) \/ BrokerRejects(o) \/ BrokerExpires(o)
    <3>1. PICK r \in RawTerminal \ {"FILLED"} : broker' = [broker EXCEPT ![o].status = r]
      BY <2>2 DEF BrokerCancels, BrokerRejects, BrokerExpires, RawTerminal
    <3>2. broker[o].status \in RawLive
      BY <2>2 DEF BrokerCancels, BrokerRejects, BrokerExpires, AliveAtBroker, RawLive
    <3> QED BY <1>1, <3>1, <3>2 DEF Moves, BrokerType, RawLive, RawTerminal
  <2> QED BY <2>1, <2>2 DEF BrokerStep
<1>3. UNCHANGED <<store, th, process, history, bounds>>
  BY DEF BrokerStep
<1>4. /\ Tracked(broker', store, orphaned \cup forced, todo, th[t])
      /\ crashes = 0 => LockOfRecord(broker', store, th[t])
      /\ crashes = 0 => CountedOnce(store, th[t])
  BY <1>2, Here, MovesHere
<1> QED BY <1>3, <1>4, Closes DEF process, history, bounds

\* A DELETE may reach the broker, which then starts to cancel.
LEMMA DeleteSteps ==
  ASSUME IInv, SerialInv, NEW t \in Threads, Threads = {t}, DeleteAccepted(t) \/ DeleteFails(t)
  PROVE  SerialInv'
<1> DEFINE l == th[t]
           g == orphaned \cup forced
<1>0. /\ l \in Local /\ store \in Store /\ th \in [Threads -> Local] /\ broker \in BrokerType
      /\ l.pc = "delete" /\ l.order \in Orders
      /\ UNCHANGED <<store, process, history>> /\ crashes' = crashes
      /\ crashes = 0 => CountedOnce(store, l)
  BY Here DEF IInv, TypeOK, DeleteAccepted, DeleteFails, At, Fault, bounds, LocalOK,
     GuardLabels, Known
<1>1. Moves(broker, broker')
  <2>1. AskToCancel(l.order) \/ UNCHANGED broker
    BY DEF DeleteAccepted, DeleteFails
  <2>2. PICK r \in RawLive \cup {broker[l.order].status} :
          /\ r \in RawLive \ {broker[l.order].status} => broker[l.order].status \in RawLive
          /\ broker' = broker \/ broker' = [broker EXCEPT ![l.order].status = r]
    BY <2>1 DEF AskToCancel, RawLive
  <2> QED BY <1>0, <2>2 DEF Moves, BrokerType, RawLive, RawTerminal
<1>2. PICK p \in {"confirm", "checkDelete"} : Step(t, [l EXCEPT !.pc = p])
  BY DEF DeleteAccepted, DeleteFails
<1> DEFINE m == [l EXCEPT !.pc = p]
<1>3. m.pc = p /\ m.order = l.order /\ m.intent = l.intent
  BY <1>0 DEF Local
<1>4. th'[t] = m
  BY <1>0, <1>2, <1>3 DEF Step
<1>5. /\ Tracked(broker', store, g, todo, l)
      /\ crashes = 0 => LockOfRecord(broker', store, l)
  BY <1>1, MovesHere
<1> HIDE DEF m
<1>6. store' = store /\ todo' = todo /\ orphaned' \cup forced' = g
  BY <1>0 DEF process, history
<1> HIDE DEF g
<1>7. PICK c : c = broker'
  OBVIOUS
<1>8. HasRecord(l) /\ ~NoRecord(m)
  BY <1>0, <1>3 DEF HasRecord, RecordLabels, NoRecord, NoRecordLabels, Settling
<1>9. Orderly(c, store, g, m)
  BY <1>0, <1>3, <1>5, <1>7 DEF Tracked, Orderly, Kept
<1>10. Placed(c, store, todo, m)
  BY <1>0, <1>3, <1>5, <1>7, <1>8 DEF Tracked, Placed, GuardLabels, Settling
<1>11. Returns(c, m) /\ Booked(c, store, g, m)
  BY <1>3 DEF Returns, Booked, Settling, BookLabels
<1>12. Reviewed(c, store, m)
  BY <1>0, <1>3, <1>5, <1>7 DEF Tracked, Reviewed
<1>13. Tracked(c, store, g, todo, m)
  BY <1>5, <1>7, <1>9, <1>10, <1>11, <1>12 DEF Tracked
<1>14. crashes = 0 => CountedOnce(store, m) /\ LockOfRecord(c, store, m)
  BY <1>0, <1>3, <1>5, <1>7 DEF CountedOnce, Booking, LockOfRecord, Settling
<1> QED BY <1>0, <1>4, <1>6, <1>7, <1>13, <1>14, Closes

-----------------------------------------------------------------------------
(* Taking up an order, and the process's own steps. *)

\* Begin asks nothing of a thread but its order's record.
LEMMA BeginStepSerial ==
  ASSUME IInv, SerialInv, NEW t \in Threads, Threads = {t}, BeginStep(t)
  PROVE  SerialInv'
<1>0. /\ th[t] \in Local /\ store \in Store /\ th \in [Threads -> Local]
      /\ Tracked(broker, store, orphaned \cup forced, todo, th[t])
      /\ \A o \in store.pending : o \in Orders /\ broker[o].intent \in Intents
  BY Here DEF IInv, TypeOK, StoreOK, BrokerOK, Known
<1>1. ASSUME NEW p \in {"guardLock", "osGet", "cancelStatus", "clearRead"},
             NEW o \in Orders \cup {NoOrder}, NEW i \in Intents, Begin(t, p, o, i),
             p # "guardLock" => o \in store.pending /\ broker[o].intent = i
      PROVE  SerialInv'
  <2> DEFINE m == [IdleThread EXCEPT !.pc = p, !.order = o, !.intent = i]
  <2>1. /\ m \in Local /\ m.pc = p /\ m.order = o /\ m.intent = i /\ m.ret = "idle"
    <3>1. p \in Labels
      BY DEF Labels
    <3>2. IdleThread \in Local
      BY IdleOK
    <3> QED BY <3>1, <3>2 DEF Local, IdleThread
  <2>2. Step(t, m) /\ Quiet(th[t])
    BY <1>1 DEF Begin, Quiet, Settling
  <2> HIDE DEF m
  <2>3. Quiet(m) /\ ~NoRecord(m) /\ (HasRecord(m) => p # "guardLock")
        /\ m.pc \notin {"idle", "commitSave", "freezeSave", "settleWrite"}
    BY <2>1 DEF Quiet, NoRecord, NoRecordLabels, HasRecord, RecordLabels, Settling
  <2>4. Placed(broker, store, todo, m)
    BY <1>1, <2>1, <2>3 DEF Placed, Begin, Serving, GuardLabels
  <2>5. Returns(broker, m) /\ Booked(broker, store, orphaned \cup forced, m)
    BY <2>1 DEF Returns, Booked, Settling, BookLabels
  <2>6. Reviewed(broker, store, m)
    BY <1>0, <1>1, <2>1 DEF Tracked, Reviewed
  <2> QED BY <1>1, <2>1, <2>2, <2>3, <2>4, <2>5, <2>6, QuietStep DEF Begin, bounds
<1>2. CASE \E i \in Intents : BeginPlace(t, i)
  BY <1>1, <1>2 DEF BeginPlace
<1>3. CASE \E o \in store.pending : BeginPoll(t, o) \/ BeginCancel(t, o) \/ BeginClear(t, o)
  <2>1. PICK o \in store.pending : BeginPoll(t, o) \/ BeginCancel(t, o) \/ BeginClear(t, o)
    BY <1>3
  <2> QED BY <1>0, <1>1, <2>1 DEF BeginPoll, BeginCancel, BeginClear
<1> QED BY <1>2, <1>3 DEF BeginStep

LEMMA BootPollStep ==
  ASSUME IInv, SerialInv, NEW t \in Threads, Threads = {t}, BootPoll(t)
  PROVE  SerialInv'
<1> DEFINE g == orphaned \cup forced
<1>0. /\ store \in Store /\ th \in [Threads -> Local] /\ th[t].pc = "idle"
      /\ Tracked(broker, store, g, todo, th[t])
      /\ crashes = 0 => CountedOnce(store, th[t]) /\ LockOfRecord(broker, store, th[t])
  BY Here DEF BootPoll, IInv, TypeOK
<1>1. PICK o \in todo :
        /\ todo' = todo \ {o}
        /\ Step(t, [IdleThread EXCEPT !.pc = "osGet", !.order = o,
                      !.intent = broker[o].intent, !.boot = TRUE])
  BY DEF BootPoll
<1> DEFINE m == [IdleThread EXCEPT !.pc = "osGet", !.order = o,
                   !.intent = broker[o].intent, !.boot = TRUE]
           d == todo \ {o}
<1>2. m.pc = "osGet" /\ m.order = o /\ m.intent = broker[o].intent /\ m.ret = "idle"
  BY DEF IdleThread
<1>3. th'[t] = m
  BY <1>0, <1>1, <1>2 DEF Step
<1>4. /\ broker' = broker /\ store' = store /\ todo' = d /\ orphaned' \cup forced' = g
      /\ crashes' = crashes
  BY <1>1 DEF BootPoll, history, bounds
<1>5. d \subseteq store.pending /\ o \in store.pending /\ o \notin d
  BY <1>0 DEF Tracked
<1> HIDE DEF m, g, d
<1>6. Orderly(broker, store, g, m)
  BY <1>0, <1>2 DEF Tracked, Orderly, Kept
<1>7. Placed(broker, store, d, m)
  <2>1. ~NoRecord(m)
    BY <1>2 DEF NoRecord, NoRecordLabels, Settling
  <2> QED BY <1>2, <1>5, <2>1 DEF Placed
<1>8. Returns(broker, m) /\ Booked(broker, store, g, m)
  BY <1>2 DEF Returns, Booked, Settling, BookLabels
<1>9. Reviewed(broker, store, m)
  BY <1>0, <1>2, <1>5 DEF Tracked, Reviewed
<1>10. Tracked(broker, store, g, d, m)
  BY <1>5, <1>6, <1>7, <1>8, <1>9 DEF Tracked
<1>11. crashes = 0 => CountedOnce(store, m) /\ LockOfRecord(broker, store, m)
  BY <1>0, <1>2 DEF CountedOnce, Booking, LockOfRecord, Settling
<1> QED BY <1>3, <1>4, <1>10, <1>11, Closes

\* After a crash nothing is being done, and the order that was being recorded
\* is one the app does not know of.
LEMMA CrashStep ==
  ASSUME IInv, SerialInv, NEW t \in Threads, Threads = {t}, Crash
  PROVE  SerialInv'
<1> DEFINE l == th[t]
           g == orphaned \cup forced
           h == orphaned' \cup forced'
<1>0. /\ Tracked(broker, store, g, todo, l) /\ crashes \in Nat
  BY Here, SharedFacts
<1>1. /\ broker' = broker /\ store' = store /\ todo' = {} /\ crashes' = crashes + 1
      /\ th'[t] = IdleThread /\ IdleThread.pc = "idle"
  BY DEF Crash, IdleThread
<1>2. h = g \cup {o \in {l.order} : l.pc = "savePending"}
  BY DEF Crash
<1> HIDE DEF g, h
<1>3. Kept(store, h, IdleThread) = Kept(store, g, l)
  BY <1>1, <1>2 DEF Kept
<1>4. Orderly(broker, store, h, IdleThread)
  BY <1>0, <1>2, <1>3 DEF Tracked, Orderly
<1>5. Reviewed(broker, store, IdleThread)
  BY <1>0, IdleTracked DEF Tracked
<1>6. Tracked(broker, store, h, {}, IdleThread)
  BY <1>4, <1>5, IdleTracked DEF Tracked
<1>7. crashes' # 0
  BY <1>0, <1>1
<1> QED BY <1>1, <1>6, <1>7, Closes DEF h

LEMMA RestartStep ==
  ASSUME IInv, SerialInv, NEW t \in Threads, Threads = {t}, Restart, th[t].pc = "idle"
  PROVE  SerialInv'
<1> DEFINE l == th[t]
           g == orphaned \cup forced
<1>0. /\ Tracked(broker, store, g, todo, l)
      /\ crashes = 0 => CountedOnce(store, l) /\ LockOfRecord(broker, store, l)
  BY Here
<1>1. /\ broker' = broker /\ store' = store /\ todo' = store.pending /\ crashes' = crashes
      /\ th'[t] = l /\ orphaned' \cup forced' = g
  BY DEF Restart, history, bounds
<1> HIDE DEF g
<1>2. Placed(broker, store, store.pending, l)
  BY <1>0 DEF Tracked, Placed
<1>3. Tracked(broker, store, g, store.pending, l)
  BY <1>0, <1>2 DEF Tracked
<1> QED BY <1>0, <1>1, <1>3, Closes

-----------------------------------------------------------------------------
(* The theorems. *)

\* Nothing is running while the process is down.
Down == ~up => \A t \in Threads : th[t].pc = "idle"

LEMMA StepsNeedTheProcess ==
  ASSUME NEW t \in Threads, BeginStep(t) \/ ThreadStep(t) \/ BootPoll(t)
  PROVE  up /\ up' = up
<1>1. CASE BeginStep(t)
  BY <1>1 DEF BeginStep, BeginPlace, BeginPoll, BeginCancel, BeginClear, Begin, Serving, process
<1>2. CASE PlaceStep(t)
  BY <1>2 DEF PlaceStep, GuardLock, GuardPending, Transmit, TransmitRefused, TransmitAckLost,
     SavePending, ReadPriorLock, SaveLock, At, process
<1>3. CASE StatusStep(t)
  BY <1>3 DEF StatusStep, OsGetPending, OsRead, OsReadFails, CommitAppend, CommitLoad,
     CommitSave, CommitPop, OsPop, PopAndSettle, SettleRead, SettleWrite, At, process
<1>4. CASE CancelStep(t)
  BY <1>4 DEF CancelStep, CancelStatus, CancelStatusFails, DeleteAccepted, DeleteRefused,
     DeleteFails, RetryDelete, Confirm, Finalize, FinalizeFails, DuringCancel, PopPartial,
     PopClean, PopAndSettle, FreezeLoad, FreezeSave, At, process
<1>5. CASE ClearStep(t)
  BY <1>5 DEF ClearStep, ClearRead, ClearUnverified, ClearGet, ClearPop, At, process
<1>6. CASE BootPoll(t)
  BY <1>6 DEF BootPoll
<1> QED BY <1>1, <1>2, <1>3, <1>4, <1>5, <1>6 DEF ThreadStep

LEMMA DownPreserved == Down /\ [Next]_vars => Down'
<1> SUFFICES ASSUME Down, [Next]_vars PROVE Down'
  OBVIOUS
<1>1. CASE \E t \in Threads : BeginStep(t) \/ ThreadStep(t) \/ BootPoll(t)
  BY <1>1, StepsNeedTheProcess DEF Down
<1>2. CASE \E o \in Orders : BrokerStep(o)
  BY <1>2 DEF Down, BrokerStep, process
<1>3. CASE Crash
  BY <1>3 DEF Down, Crash, IdleThread
<1>4. CASE Restart
  BY <1>4 DEF Down, Restart
<1>5. CASE UNCHANGED vars
  BY <1>5 DEF Down, vars
<1> QED BY <1>1, <1>2, <1>3, <1>4, <1>5 DEF Next

LEMMA InitSerial == Init => SerialInv /\ Down
<1> SUFFICES ASSUME Init PROVE SerialInv /\ Down
  OBVIOUS
<1>1. /\ IdleThread.pc = "idle"
      /\ store.pending = {} /\ todo = {} /\ orphaned \cup forced = {}
      /\ \A o \in Orders : broker[o].status = NoState /\ store.execs[o] = 0 /\ store.applied[o] = 0
      /\ \A i \in Intents : store.locks[i].state = NoState
      /\ \A t \in Threads : th[t] = IdleThread
  BY DEF Init, IdleThread, EmptyStore, NoLock
<1>2. Orderly(broker, store, {}, IdleThread)
  BY <1>1 DEF Orderly, RawLive, NoState
<1>3. Reviewed(broker, store, IdleThread)
  BY <1>1 DEF Reviewed, Review, NoState
<1>4. CountedOnce(store, IdleThread) /\ LockOfRecord(broker, store, IdleThread)
  BY <1>1 DEF CountedOnce, Booking, LockOfRecord, Settling, NoState
<1>5. Tracked(broker, store, {}, {}, IdleThread)
  BY <1>1, <1>2, <1>3, IdleTracked DEF Tracked
<1> QED BY <1>1, <1>4, <1>5 DEF SerialInv, Down

LEMMA NextSerial ==
  ASSUME OneThread, IInv, SerialInv, Down, [Next]_vars
  PROVE  SerialInv'
<1>0. PICK t \in Threads : Threads = {t}
  BY DEF OneThread
<1>1. CASE BeginStep(t)
  BY <1>0, <1>1, BeginStepSerial
<1>2. CASE PlaceStep(t)
  BY <1>0, <1>2, GuardSteps, TransmitStep, TransmitAckLostStep, SavePendingStep,
     ReadPriorLockStep, SaveLockStep DEF PlaceStep
<1>3. CASE StatusStep(t)
  BY <1>0, <1>3, OsGetPendingStep, OsReadStep, OsReadFailsStep, CommitSteps, PopSteps,
     SettleReadStep, SettleWriteStep DEF StatusStep
<1>4. CASE CancelStep(t)
  BY <1>0, <1>4, StatusReadSteps, DeleteSteps, DeleteRefusedStep, RetryDeleteStep, ConfirmStep,
     FinalizeSteps, DuringCancelStep, PopSteps, FreezeSteps DEF CancelStep
<1>5. CASE ClearStep(t)
  BY <1>0, <1>5, ClearReadSteps, ClearGetStep, ClearPopStep DEF ClearStep
<1>6. CASE BootPoll(t)
  BY <1>0, <1>6, BootPollStep
<1>7. CASE \E o \in Orders : BrokerStep(o)
  BY <1>0, <1>7, BrokerStepSerial
<1>8. CASE Crash
  BY <1>0, <1>8, CrashStep
<1>9. CASE Restart
  <2>1. th[t].pc = "idle"
    BY <1>9 DEF Down, Restart
  <2> QED BY <1>0, <1>9, <2>1, RestartStep
<1>10. CASE UNCHANGED vars
  BY <1>10 DEF vars, SerialInv
<1> QED BY <1>0, <1>1, <1>2, <1>3, <1>4, <1>5, <1>6, <1>7, <1>8, <1>9, <1>10
        DEF Next, ThreadStep

\* With one thread the invariant holds of every behaviour.
THEOREM InductiveSerial == OneThread => (Spec => [](IInv /\ SerialInv /\ Down))
<1> SUFFICES ASSUME OneThread PROVE Spec => [](IInv /\ SerialInv /\ Down)
  OBVIOUS
<1>1. Init => IInv /\ SerialInv /\ Down
  BY InitIInv, InitSerial
<1>2. IInv /\ SerialInv /\ Down /\ [Next]_vars => (IInv /\ SerialInv /\ Down)'
  BY NextIInv, NextSerial, DownPreserved
<1> QED BY <1>1, <1>2, PTL DEF Spec

\* cancel_order's first rule: while the order path's operations do not overlap,
\* an order that is live at Schwab is on record, unless its id never arrived
\* (TransmitAckLost, a crash) or the operator forced its record out.
THEOREM SerialNeverForgets == OneThread => (Spec => []NeverForgotten)
<1> SUFFICES ASSUME OneThread PROVE Spec => []NeverForgotten
  OBVIOUS
<1>1. SerialInv => NeverForgotten
  <2> SUFFICES ASSUME SerialInv, NEW o \in Orders, AliveAtBroker(o)
               PROVE  o \in store.pending \/ Untracked(o)
    BY DEF NeverForgotten
  <2>1. PICK t \in Threads : Threads = {t}
    BY DEF OneThread
  <2>2. o \in Kept(store, orphaned \cup forced, th[t])
    BY DEF SerialInv, Tracked, Orderly, AliveAtBroker
  <2> QED BY <2>2 DEF Kept, Untracked, BeingRecorded
<1> QED BY <1>1, InductiveSerial, PTL

\* NO_RESUBMIT_BEFORE_TERMINAL: then also no intent has two live orders that
\* the app could know of (check_resubmit and _guard_resubmission).
THEOREM SerialOneLiveOrder == OneThread => (Spec => []OneLiveOrder)
<1> SUFFICES ASSUME OneThread PROVE Spec => []OneLiveOrder
  OBVIOUS
<1>1. SerialInv => OneLiveOrder
  BY DEF OneThread, SerialInv, Tracked, Orderly, OneLiveOrder, AliveAtBroker
<1> QED BY <1>1, InductiveSerial, PTL

\* Every fill whose record is gone was booked, and, unless a crash cut a commit
\* in two, booked once (order_status, _commit).
THEOREM SerialCountsFills == OneThread => (Spec => []FillCounted)
<1> SUFFICES ASSUME OneThread PROVE Spec => []FillCounted
  OBVIOUS
<1>1. SerialInv => FillCounted
  <2> SUFFICES ASSUME SerialInv PROVE FillCounted
    OBVIOUS
  <2>1. PICK t \in Threads : Threads = {t}
    BY DEF OneThread
  <2>2. /\ Orderly(broker, store, orphaned \cup forced, th[t])
        /\ crashes = 0 => CountedOnce(store, th[t])
    BY DEF SerialInv, Tracked
  <2>3. \A o \in Orders : o \in Kept(store, orphaned \cup forced, th[t])
                            => o \in store.pending \/ Untracked(o)
    BY DEF Kept, Untracked, BeingRecorded
  <2> QED BY <2>2, <2>3 DEF Orderly, CountedOnce, FillCounted, FillBooked, BookedOnce
<1> QED BY <1>1, InductiveSerial, PTL

\* Until the process crashes, a lock that holds its intent closed names an
\* order that is on record, and settles dead along a legal transition
\* (_settle_order, LEGAL_TRANSITIONS).
THEOREM SerialLocksOpen == OneThread => (Spec => []ClosedLockOpens)
<1> SUFFICES ASSUME OneThread PROVE Spec => []ClosedLockOpens
  OBVIOUS
<1>1. IInv /\ SerialInv => ClosedLockOpens
  <2> SUFFICES ASSUME IInv, SerialInv PROVE ClosedLockOpens
    OBVIOUS
  <2>1. PICK t \in Threads : Threads = {t}
    BY DEF OneThread
  <2>2. /\ crashes = 0 => LockOfRecord(broker, store, th[t])
        /\ Placed(broker, store, todo, th[t])
    BY DEF SerialInv, Tracked
  <2>3. LockHasRecord
    BY <2>2 DEF LockHasRecord, Resting, LockOfRecord, Settling
  <2>4. \A a \in Held, c \in DeadCodes : is_legal_transition(a, c)
    BY DEF is_legal_transition, Held, DeadCodes, LEGAL_TRANSITIONS, CodedStates, TERMINAL,
       LIVE, NoState
  <2>5. DeadSettleLegal
    BY <2>1, <2>2, <2>4 DEF DeadSettleLegal, LockOfRecord, Placed, Settling, DeadCodes
  <2> QED BY <2>3, <2>5 DEF ClosedLockOpens
<1> QED BY <1>1, InductiveSerial, PTL

-----------------------------------------------------------------------------
(* A review is not undone. *)

\* Only two steps write a lock, the intent's own, and neither is taken for an
\* intent under review.
Latched == \A i \in Intents : store.locks[i].state \in Review => store'.locks[i] = store.locks[i]

LEMMA LocksWrittenBy ==
  ASSUME NEW t \in Threads, store \in Store, BeginStep(t) \/ ThreadStep(t) \/ BootPoll(t),
         th[t].pc \in {"commitSave", "freezeSave"} => th[t].copy = store
  PROVE  \/ store'.locks = store.locks
         \/ /\ th[t].pc \in {"saveLock", "settleWrite"}
            /\ \A i \in Intents : i # th[t].intent => store'.locks[i] = store.locks[i]
<1>1. CASE BeginStep(t)
  BY <1>1 DEF BeginStep, BeginPlace, BeginPoll, BeginCancel, BeginClear, Begin
<1>2. CASE PlaceStep(t) /\ ~SaveLock(t)
  BY <1>2 DEF PlaceStep, GuardLock, GuardPending, Transmit, TransmitRefused, TransmitAckLost,
     SavePending, ReadPriorLock, Store
<1>3. CASE SaveLock(t)
  BY <1>3 DEF SaveLock, At, Store
<1>4. CASE StatusStep(t) /\ ~SettleWrite(t)
  BY <1>4 DEF StatusStep, OsGetPending, OsRead, OsReadFails, CommitAppend, CommitLoad,
     CommitSave, CommitPop, OsPop, PopAndSettle, SettleRead, At, Store
<1>5. CASE SettleWrite(t)
  BY <1>5 DEF SettleWrite, At, Store
<1>6. CASE CancelStep(t)
  BY <1>6 DEF CancelStep, CancelStatus, CancelStatusFails, DeleteAccepted, DeleteRefused,
     DeleteFails, RetryDelete, Confirm, Finalize, FinalizeFails, DuringCancel, PopPartial,
     PopClean, PopAndSettle, FreezeLoad, FreezeSave, At, Store
<1>7. CASE ClearStep(t)
  BY <1>7 DEF ClearStep, ClearRead, ClearUnverified, ClearGet, ClearPop, Store
<1>8. CASE BootPoll(t)
  BY <1>8 DEF BootPoll
<1> QED BY <1>1, <1>2, <1>3, <1>4, <1>5, <1>6, <1>7, <1>8 DEF ThreadStep

LEMMA LatchedStep ==
  ASSUME OneThread, IInv, SerialInv, [Next]_vars
  PROVE  Latched
<1>1. CASE \E t \in Threads : BeginStep(t) \/ ThreadStep(t) \/ BootPoll(t)
  <2>1. PICK t \in Threads : BeginStep(t) \/ ThreadStep(t) \/ BootPoll(t)
    BY <1>1
  <2>2. /\ store \in Store /\ Placed(broker, store, todo, th[t])
        /\ Reviewed(broker, store, th[t])
    BY Here DEF Tracked
  <2>3. th[t].pc \in {"commitSave", "freezeSave"} => th[t].copy = store
    BY <2>2 DEF Placed
  <2>4. CASE store'.locks = store.locks
    BY <2>4 DEF Latched
  <2>5. CASE /\ th[t].pc \in {"saveLock", "settleWrite"}
             /\ \A i \in Intents : i # th[t].intent => store'.locks[i] = store.locks[i]
    BY <2>2, <2>5 DEF Latched, Reviewed
  <2> QED BY <2>1, <2>2, <2>3, <2>4, <2>5, LocksWrittenBy
<1>2. CASE (\E o \in Orders : BrokerStep(o)) \/ Crash \/ Restart \/ UNCHANGED vars
  BY <1>2 DEF BrokerStep, Crash, Restart, vars, Latched
<1> QED BY <1>1, <1>2 DEF Next

\* An intent locked for review stays locked (check_resubmit: no automatic
\* resubmission out of FILLED_DURING_CANCEL or PARTIAL_FILL_CANCELED), through
\* crashes and restarts too.
THEOREM SerialReviewLatched == OneThread => (Spec => ReviewLatched)
<1> SUFFICES ASSUME OneThread PROVE Spec => ReviewLatched
  OBVIOUS
<1>1. IInv /\ SerialInv /\ [Next]_vars =>
        [\A i \in Intents :
           store.locks[i].state \in {"FILLED_DURING_CANCEL", "PARTIAL_FILL_CANCELED"}
             => store'.locks[i] = store.locks[i]]_vars
  BY LatchedStep DEF Latched, Review
<1> QED BY <1>1, InductiveSerial, PTL DEF Spec, ReviewLatched
=============================================================================
