--------------------------- MODULE LiveOrdersInv ---------------------------
(***************************************************************************)
(* The inductive invariant behind BookedOnlyIfFilled and                   *)
(* LockNeverFreesLive.  Both speak of the state file only, but a thread    *)
(* writes there what it read at the broker many steps before, and _commit  *)
(* and the freeze write a whole copy of the file loaded earlier.  So the   *)
(* invariant says what a thread KNOWS at each label, and that every        *)
(* private copy of the file is as sound as the file itself.  It holds for  *)
(* any number of threads and any crashes, because everything it says of an *)
(* order is stable: a dead order stays dead.                               *)
(***************************************************************************)
EXTENDS LiveOrders

\* Order o has been transmitted; order o is dead at the broker.
Known(b, o) == o \in Orders /\ b[o].status # NoState
Dead(b, o)  == o \in Orders /\ b[o].status \in RawTerminal

\* An order has an intent, and a live one something left to fill.
BrokerOK(b) ==
  \A o \in Orders : /\ Known(b, o) => b[o].intent \in Intents
                    /\ b[o].status \in RawLive => b[o].filled < Qty

\* The broker only moves forward: nothing happens to a dead order.
BrokerGrows(b, c) ==
  \A o \in Orders :
    /\ b[o].status \in RawTerminal => c[o] = b[o]
    /\ b[o].status # NoState => c[o].status # NoState /\ c[o].intent = b[o].intent

LockOK(b, f, l) == l.state \in TERMINAL => l.order \in f \/ Dead(b, l.order)

BookOK(b, s) ==
  \A o \in Orders : s.execs[o] + s.applied[o] > 0 => b[o].status = "FILLED"

StoreOK(b, f, s) ==
  /\ \A o \in s.pending : Known(b, o)
  /\ BookOK(b, s)
  /\ \A i \in Intents : LockOK(b, f, s.locks[i])

\* Labels at which a thread has no order yet, at which it has read FILLED,
\* and at which it has read some terminal status.
GuardLabels == {"guardLock", "guardPending", "transmit"}
BookLabels  == {"commitAppend", "commitLoad", "commitSave", "commitPop"}
DeadLabels  == {"osPop", "finalize", "duringCancel", "popPartial", "popClean"}

LocalOK(b, f, l) ==
  /\ StoreOK(b, f, l.copy)
  /\ l.pc # "idle" => l.intent \in Intents
  /\ l.pc \in GuardLabels => l.ret = "idle"
  /\ l.pc \notin GuardLabels \cup {"idle"} => Known(b, l.order)
  /\ l.pc \in BookLabels => b[l.order].status = "FILLED"
  /\ l.pc \in DeadLabels \/ l.ret = "duringCancel" => Dead(b, l.order)
  /\ l.pc \in {"settleRead", "settleWrite"} /\ l.coded \in TERMINAL
       => l.order \in f \/ Dead(b, l.order)
  /\ l.pc = "clearGet" => l.force \/ Dead(b, l.order)

\* The inductive invariant.
IInv ==
  /\ TypeOK
  /\ BrokerOK(broker)
  /\ StoreOK(broker, forced, store)
  /\ \A t \in Threads : LocalOK(broker, forced, th[t])
  /\ \A o \in todo : Known(broker, o)
=============================================================================
