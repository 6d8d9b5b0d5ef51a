------------------------- MODULE RollSubmissionInv -------------------------
(***************************************************************************)
(* The inductive invariant behind the roll's safety properties, for one    *)
(* thread of control at a time and tickets that share no pair of legs.     *)
(*                                                                         *)
(* A ref may be sent again, so its orders are told apart by the floor of   *)
(* its submission record: what was entered before the record was stamped   *)
(* is over or let go, and of what was entered after there is one order at  *)
(* most.  The invariant says of that order where its record is, and of a   *)
(* thread what it knows at each label.  What the books hold is a part of   *)
(* its own, for behaviours without a crash.                                *)
(***************************************************************************)
EXTENDS RollSubmission

OneThread == \E t : Threads = {t}
OwnPair == \A q, r \in Refs : LegsOf[q] = LegsOf[r] => q = r

-----------------------------------------------------------------------------
(* The broker.                                                             *)

Sent(b, o) == o \in Orders /\ b[o].status # NoState
Live(b, o) == b[o].status \in RawLive
Over(b, o) == b[o].status \in RawTerminal

BrokerOK(b) ==
  \A o \in Orders :
    /\ Sent(b, o) <=> b[o].ref \in Refs
    /\ ~Sent(b, o) => b[o].close = 0 /\ b[o].open = 0
    /\ b[o].status = "FILLED" <=> b[o].close = Qty /\ b[o].open = Qty

\* The broker only moves forward, and a dead order no more.
BrokerGrows(b, c) ==
  \A o \in Orders :
    /\ b[o].ref = c[o].ref
    /\ Sent(b, o) <=> Sent(c, o)
    /\ Live(c, o) => Live(b, o)
    /\ Over(b, o) => c[o].status = b[o].status /\ c[o].close = b[o].close /\ c[o].open = b[o].open
    /\ b[o].listed => c[o].listed
    /\ b[o].close <= c[o].close /\ b[o].open <= c[o].open

Numbered == \A o \in Orders : Sent(broker, o) <=> o <= Entered

-----------------------------------------------------------------------------
(* The state file.  f are the orders the operator has let go of.           *)

\* Order o was sent for r since the record of r was stamped.
Above(b, s, o, r) == Sent(b, o) /\ b[o].ref = r /\ s.subs[r].floor < o

RefOK(b, s, r) ==
  /\ \A o \in Orders : ~Sent(b, o) => s.subs[r].floor < o
  /\ \A o, p \in Orders : Above(b, s, o, r) /\ Above(b, s, p, r) => o = p
  /\ s.subs[r].order # NoOrder => Above(b, s, s.subs[r].order, r)
  /\ s.subs[r].status \in {NoState, "SUBMITTING"} => s.subs[r].order = NoOrder /\ ~s.subs[r].aged
  /\ s.subs[r].aged => \A o \in Orders : b[o].ref = r => b[o].listed

\* The submission record names o and says WORKING.
Current(b, s, o) ==
  /\ Above(b, s, o, b[o].ref)
  /\ s.subs[b[o].ref].order = o /\ s.subs[b[o].ref].status = "WORKING"

OrderOK(b, s, f, o) ==
  /\ s.pending[o].kept => s.pending[o].ref = b[o].ref /\ Current(b, s, o)
  /\ Sent(b, o) /\ o <= s.subs[b[o].ref].floor => o \in f \/ Over(b, o)
  /\ Sent(b, o) /\ Live(b, o) /\ o \notin f =>
       \/ /\ s.subs[b[o].ref].order = o
          /\ s.subs[b[o].ref].status \in {"WORKING", "UNKNOWN"}
       \/ /\ s.subs[b[o].ref].order = NoOrder
          /\ s.subs[b[o].ref].status \in {"SUBMITTING", "UNKNOWN"}

StoreOK(b, s, f) ==
  /\ \A r \in Refs : RefOK(b, s, r)
  /\ \A o \in Orders : OrderOK(b, s, f, o)

-----------------------------------------------------------------------------
(* What a thread knows.                                                    *)

NoneAbove(b, s, r) == \A o \in Orders : ~Above(b, s, o, r)
NoId(s, r, status) == s.subs[r].status = status /\ s.subs[r].order = NoOrder
Names(b, s, r, o) ==
  /\ Above(b, s, o, r) /\ s.subs[r].order = o /\ s.subs[r].status = "WORKING"
  /\ ~s.pending[o].kept

\* Two copies of a record, or of the file, but for the time that has passed.
SameSub(u, v) == /\ u.status = v.status /\ u.order = v.order /\ u.floor = v.floor
                 /\ u.aged => v.aged
SameStore(c, s) ==
  /\ c.pending = s.pending /\ c.closed = s.closed /\ c.opened = s.opened
  /\ c.moved = s.moved /\ c.review = s.review
  /\ \A r \in Refs : SameSub(c.subs[r], s.subs[r])

PlaceLabels == {"readSub", "saveSub", "send", "ackId", "ackRejected", "ackUnknown",
                "savePending"}
CheckLabels == {"lookup", "notPlaced", "adopt", "adoptGet", "adoptSave", "syncSub"}
ClearLabels == {"clearRead", "clearPop", "clearSub"}
BookLabels  == {"bookClose", "bookOpen", "applyLoad", "applySave", "savePart"}
KnownLabels == {"osRead", "pop"} \cup BookLabels
FreezeLabels == {"freezeLoad", "freezeSave"}
CopyLabels  == {"applySave", "freezeSave"}
CxLabels    == {"cxRead", "cxDelete", "cxConfirm", "finalize", "cxPopPartial", "cxPopClean"}
BootLabels  == {"osGet", "sync"} \cup KnownLabels \cup FreezeLabels

Ends == Resolved \ {"NOT_PLACED"}

PlaceOK(b, s, l) ==
  /\ l.pc \in PlaceLabels => l.ref \in Refs
  /\ l.pc = "saveSub" => s.subs[l.ref].status \in {NoState, "NOT_PLACED"}
  /\ l.pc \in {"send", "ackRejected"} =>
       NoId(s, l.ref, "SUBMITTING") /\ NoneAbove(b, s, l.ref)
  /\ l.pc = "ackUnknown" => NoId(s, l.ref, "SUBMITTING")
  /\ l.pc = "ackId" => NoId(s, l.ref, "SUBMITTING") /\ Above(b, s, l.order, l.ref)
  /\ l.pc = "savePending" => Names(b, s, l.ref, l.order)

CheckOK(b, s, l) ==
  /\ l.pc \in CheckLabels => l.ref \in Refs
  /\ l.pc = "lookup" => NoId(s, l.ref, "UNKNOWN") /\ SameSub(l.sub, s.subs[l.ref])
  /\ l.pc = "notPlaced" => NoId(s, l.ref, "UNKNOWN") /\ NoneAbove(b, s, l.ref)
  /\ l.pc = "adopt" => NoId(s, l.ref, "UNKNOWN") /\ Above(b, s, l.order, l.ref)
  /\ l.pc \in {"adoptGet", "adoptSave"} => Names(b, s, l.ref, l.order)
  /\ l.pc = "syncSub" =>
       /\ Above(b, s, l.order, l.ref) /\ s.subs[l.ref].order = l.order
       /\ s.pending[l.order].kept => l.res = "WORKING"
       /\ l.res \in {"WORKING", "UNKNOWN"} \cup Ends
       /\ l.res \in Ends => Over(b, l.order)

\* In order_status, o is the order and rec its pending record as read.
StatusOK(b, s, l) ==
  LET o == l.order IN
  /\ l.pc \in BootLabels /\ l.ret = "syncSub" => o \in Orders /\ l.ref \in Refs /\ b[o].ref = l.ref
  /\ l.pc = "osGet" =>
       /\ l.ret = "idle" => o \in Orders /\ s.pending[o].kept
       /\ l.ret = "syncSub" => /\ Above(b, s, o, l.ref) /\ s.subs[l.ref].order = o
                               /\ s.subs[l.ref].status \in {"WORKING", "UNKNOWN"}
  /\ l.pc \in KnownLabels => o \in Orders /\ s.pending[o].kept /\ l.rec = s.pending[o]
  /\ l.pc \in BookLabels => /\ l.res \in {"FILLED", "WORKING"} /\ l.units > 0
                            /\ l.rec.filled + l.units <= b[o].close
                            /\ l.rec.filled + l.units <= b[o].open
                            /\ l.res = "FILLED" => Over(b, o) /\ l.rec.filled + l.units = Qty
  /\ l.pc = "savePart" => l.res = "WORKING"
  /\ l.pc = "pop" => l.res \in Ends /\ Over(b, o)
  /\ l.pc \in FreezeLabels => /\ o \in Orders /\ Over(b, o) /\ ~s.pending[o].kept
                              /\ l.res # "LEG_IMBALANCE" => l.ret = "idle"
  /\ l.pc = "sync" \/ (l.pc \in FreezeLabels /\ l.res = "LEG_IMBALANCE") =>
       /\ o \in Orders /\ Current(b, s, o) /\ l.rec.ref = b[o].ref
       /\ \/ l.res = "WORKING" /\ s.pending[o].kept
          \/ l.res \in Ends /\ Over(b, o) /\ ~s.pending[o].kept
  /\ l.pc \in CopyLabels => SameStore(l.copy, s)

CancelOK(b, s, l) ==
  /\ l.pc \in CxLabels => /\ l.order \in Orders /\ s.pending[l.order].kept
                          /\ l.res = NoState /\ l.ret = "idle"
  /\ l.pc \in {"finalize", "cxPopPartial", "cxPopClean"} => Over(b, l.order)
  /\ l.pc = "cxPopClean" => b[l.order].close = 0 /\ b[l.order].open = 0

ClearOK(b, s, f, l) ==
  /\ l.pc \in ClearLabels =>
       l.ref \in Refs /\ (l.order # NoOrder => Above(b, s, l.order, l.ref))
  /\ l.pc = "clearRead" => /\ SameSub(l.sub, s.subs[l.ref]) /\ l.order = s.subs[l.ref].order
                           /\ l.order # NoOrder => s.pending[l.order].kept
                           /\ l.order = NoOrder => s.subs[l.ref].status \in {"UNKNOWN", "SUBMITTING"}
  /\ l.pc = "clearPop" => l.order # NoOrder
  /\ l.pc \in {"clearPop", "clearSub"} =>
       \A p \in Orders : b[p].ref = l.ref =>
         /\ p \in f \/ Over(b, p)
         /\ s.pending[p].kept => l.pc = "clearPop" /\ p = l.order

LocalOK(b, s, f, l) ==
  PlaceOK(b, s, l) /\ CheckOK(b, s, l) /\ StatusOK(b, s, l) /\ CancelOK(b, s, l)
  /\ ClearOK(b, s, f, l)

\* The start-up sweep goes through what was pending, one order at a time.
SweepOK ==
  /\ ~up => todo = {} /\ \A t \in Threads : th[t].pc = "idle"
  /\ \A o \in todo : store.pending[o].kept
  /\ todo # {} => \A t \in Threads : th[t].pc # "idle" =>
       th[t].pc \in BootLabels /\ th[t].ret = "idle" /\ th[t].order \notin todo

-----------------------------------------------------------------------------
(* What the books hold, as long as nothing crashed.                        *)

Booked(s, o, n) == s.closed[o] = n /\ s.opened[o] = n

EndedWell(b, s, o) ==
  /\ Over(b, o)
  /\ s.review \/ (b[o].close = b[o].open /\ Booked(s, o, b[o].close))

\* Somebody is about to look after o, which has no pending record.
InHand(b, s, l, o) ==
  \/ /\ Above(b, s, o, b[o].ref)
     /\ \/ s.subs[b[o].ref].status = "UNKNOWN" /\ s.subs[b[o].ref].order = NoOrder
        \/ l.pc \in {"ackId", "savePending", "adoptGet", "adoptSave"} /\ l.order = o
        \/ l.pc = "ackUnknown" /\ l.ref = b[o].ref
  \/ l.pc \in FreezeLabels /\ l.order = o

BooksOK(b, s, f, l) ==
  \A o \in Orders :
    /\ s.closed[o] <= b[o].close /\ s.closed[o] <= b[o].open
    /\ s.opened[o] <= b[o].close /\ s.opened[o] <= b[o].open
    /\ s.moved[o] > 0 => b[o].close > 0 /\ b[o].open > 0
    /\ Above(b, s, o, b[o].ref) /\ s.subs[b[o].ref].order = NoOrder => Booked(s, o, 0)
    /\ s.pending[o].kept /\ ~(l.pc \in (BookLabels \ {"bookClose"}) \cup {"pop"} /\ l.order = o)
         => Booked(s, o, s.pending[o].filled)
    /\ Sent(b, o) /\ ~s.pending[o].kept /\ o \notin f => EndedWell(b, s, o) \/ InHand(b, s, l, o)

\* What is booked at each label.
CountOK(b, s, f, l) ==
  LET o == l.order
      n == l.rec.filled + l.units
  IN
  /\ l.pc = "bookOpen" => s.closed[o] = n /\ s.opened[o] = l.rec.filled
  /\ l.pc \in {"applyLoad", "applySave", "savePart"} => Booked(s, o, n)
  /\ l.pc = "pop" =>
       /\ Booked(s, o, IF l.res = "FILLED" THEN Qty ELSE l.rec.filled)
       /\ l.res = "FILLED" => b[o].close = Qty /\ b[o].open = Qty
       /\ l.res \notin {"FILLED", "LEG_IMBALANCE"} =>
            b[o].close = l.rec.filled /\ b[o].open = l.rec.filled
  /\ l.pc \in {"adopt", "adoptGet", "adoptSave", "ackId", "savePending"} => Booked(s, o, 0)
  /\ l.pc \in {"clearPop", "clearSub"} =>
       \A p \in Orders : b[p].ref = l.ref /\ p \notin f =>
         \/ EndedWell(b, s, p)
         \/ /\ l.pc = "clearPop" /\ p = o
            /\ b[p].close = 0 /\ b[p].open = 0 /\ Booked(s, p, 0)

-----------------------------------------------------------------------------
(* The inductive invariant: the second part for behaviours without crash.  *)

IInv ==
  /\ TypeOK
  /\ BrokerOK(broker) /\ Numbered
  /\ StoreOK(broker, store, LetGo)
  /\ \A t \in Threads : LocalOK(broker, store, LetGo, th[t])
  /\ SweepOK

CInv ==
  crashes = 0 => \A t \in Threads : /\ BooksOK(broker, store, LetGo, th[t])
                                    /\ CountOK(broker, store, LetGo, th[t])
=============================================================================
