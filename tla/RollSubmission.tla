--------------------------- MODULE RollSubmission ---------------------------
(***************************************************************************)
(* Atomic live rolls of one ticker: ONE two-leg net order that buys back   *)
(* the old short call and sells a new one.  A roll is keyed by the         *)
(* client_order_ref its ticket was staged with.  _place_live_roll writes a *)
(* submission record before the broker call; submission_status, by hand or *)
(* from the scheduler's sweep, resolves a send whose answer was lost by    *)
(* looking for its legs among the broker's recent orders; order_status     *)
(* books whole units, both legs alike; cancel_order and                    *)
(* clear_unfilled_order end what did not fill.                             *)
(*                                                                         *)
(* As in LiveOrders, an action is one broker call or one access to the     *)
(* state file.  A bad quote, a refused gate and an unknown order id are    *)
(* the thread going idle before its first write.                           *)
(***************************************************************************)
EXTENDS OrderLifecycle, FiniteSets

CONSTANTS
  Threads,        \* request threads and the scheduler thread
  Refs,           \* client_order_refs, one per staged ticket
  LegsOf,         \* ref -> the pair of option symbols it rolls
  Qty,            \* contracts of every roll
  MaxOrders,      \* bound: broker order ids in one behaviour
  MaxBook,        \* bound: units of one order that may be booked
  MaxFaults,      \* bound: failed or lost broker replies
  MaxCrashes      \* bound: process crashes

ASSUME RollConstants ==
  /\ Refs \subseteq DOMAIN LegsOf /\ NoState \notin Refs
  /\ Qty \in Nat \ {0}
  /\ {MaxOrders, MaxBook, MaxFaults, MaxCrashes} \subseteq Nat

Orders  == 1..MaxOrders
NoOrder == 0

VARIABLES
  broker,   \* order id -> what Schwab knows of it
  store,    \* state.json: the part rolls read and write
  th,       \* the locals and program counter of each thread
  up,       \* the process is running
  todo,     \* pending rolls the start-up sweep has still to re-poll
  forced,   \* history: orders the operator cleared without verifying them
  cleared,  \* history: orders cleared because a lookup did not list them
  faults,   \* bound counters
  crashes

vars == <<broker, store, th, up, todo, forced, cleared, faults, crashes>>
history == <<forced, cleared>>
bounds  == <<faults, crashes>>
process == <<up, todo>>

-----------------------------------------------------------------------------
(* The broker's side.  The two legs fill apart; ref is the ticket's, which *)
(* Schwab does not know: it sees the legs only.                            *)

Roll == [status : RawTerminal \cup RawLive \cup {NoState}, close : 0..Qty,
         open : 0..Qty, ref : Refs \cup {NoState}, listed : BOOLEAN]

NewRoll(r) == [status |-> "WORKING", close |-> 0, open |-> 0, ref |-> r,
               listed |-> FALSE]

Alive(o) == broker[o].status \in RawLive
Dead(o)  == broker[o].status \in RawTerminal

Entered == Cardinality({o \in Orders : broker[o].status # NoState})
Unused(o) == o = Entered + 1

SentFor(r) == {o \in Orders : broker[o].ref = r}

-----------------------------------------------------------------------------
(* The state file and the threads' locals. *)

Resolved  == {"REJECTED", "FILLED", "CANCELED", "NOT_PLACED", "LEG_IMBALANCE"}
SubStates == Resolved \cup {"SUBMITTING", "WORKING", "UNKNOWN"}

\* floor stands for placed_at: the orders entered before it, which a lookup
\* leaves out (in the code those entered 60 s before it).  aged: placed_at is
\* NOT_PLACED_AFTER_SECONDS ago.
Submission == [status : SubStates \cup {NoState}, order : Orders \cup {NoOrder},
               floor : Nat, aged : BOOLEAN]
NoSubmission == [status |-> NoState, order |-> NoOrder, floor |-> 0,
                 aged |-> FALSE]

\* strikes: the payload carries from_strike and to_strike.
Pending == [kept : BOOLEAN, ref : Refs \cup {NoState}, filled : 0..Qty,
            strikes : BOOLEAN]
NotPending == [kept |-> FALSE, ref |-> NoState, filled |-> 0, strikes |-> FALSE]

\* closed, opened: units in the order's execution records, per leg.
\* moved: units the position was moved from the old short to the new one.
Store == [subs : [Refs -> Submission], pending : [Orders -> Pending],
          closed : [Orders -> Nat], opened : [Orders -> Nat],
          moved : [Orders -> Nat], review : BOOLEAN]
EmptyStore == [subs |-> [r \in Refs |-> NoSubmission],
               pending |-> [o \in Orders |-> NotPending],
               closed |-> [o \in Orders |-> 0], opened |-> [o \in Orders |-> 0],
               moved |-> [o \in Orders |-> 0], review |-> FALSE]

Labels == {"idle", "readSub", "saveSub", "send", "ackId", "ackRejected",
           "ackUnknown", "savePending", "lookup", "notPlaced", "adopt",
           "adoptGet", "adoptSave", "osGet", "osRead", "bookClose", "bookOpen",
           "applyLoad", "applySave", "savePart", "pop", "freezeLoad",
           "freezeSave", "sync", "syncSub", "cxRead", "cxDelete", "cxConfirm",
           "finalize", "cxPopPartial", "cxPopClean", "clearRead", "clearPop",
           "clearSub"}

\* rec and sub are the records a thread has read; res what order_status will
\* report, in the codes of a submission.
Local == [pc : Labels, ref : Refs \cup {NoState}, order : Orders \cup {NoOrder},
          sub : Submission, rec : Pending, copy : Store, units : 0..Qty,
          res : SubStates \cup {NoState}, ret : {"idle", "syncSub"},
          boot : BOOLEAN]

IdleThread == [pc |-> "idle", ref |-> NoState, order |-> NoOrder,
               sub |-> NoSubmission, rec |-> NotPending, copy |-> EmptyStore,
               units |-> 0, res |-> NoState, ret |-> "idle", boot |-> FALSE]

At(t, label) == up /\ th[t].pc = label

\* Thread t moves on with locals l; a thread that is done keeps nothing.
Step(t, l) == th' = [th EXCEPT ![t] = IF l.pc = "idle" THEN IdleThread ELSE l]

\* A step that only reads, and one that only writes the state file.
Reads(t, l)     == Step(t, l) /\ UNCHANGED <<broker, store, process, history, bounds>>
Writes(t, l, s) == Step(t, l) /\ store' = s
                              /\ UNCHANGED <<broker, process, history, bounds>>

Fault == /\ faults < MaxFaults
         /\ faults' = faults + 1
         /\ UNCHANGED crashes

Serving == up /\ todo = {} /\ \A t \in Threads : ~th[t].boot

Init ==
  /\ broker = [o \in Orders |-> [NewRoll(NoState) EXCEPT !.status = NoState]]
  /\ store = EmptyStore
  /\ th = [t \in Threads |-> IdleThread]
  /\ up = TRUE
  /\ todo = {}
  /\ forced = {}
  /\ cleared = {}
  /\ faults = 0
  /\ crashes = 0

Begins(t, l) == Serving /\ th[t].pc = "idle" /\ Reads(t, l)

-----------------------------------------------------------------------------
(* _place_live_roll: idempotency check, quotes, the durable record, the    *)
(* one transmission, and what its answer writes.                           *)

BeginRoll(t, r) ==
  /\ ~store.review
  /\ Begins(t, [IdleThread EXCEPT !.pc = "readSub", !.ref = r])

Sub(t) == store.subs[th[t].ref]

\* A record that is there answers the call, unless nothing was placed.
ReadSub(t) ==
  /\ At(t, "readSub")
  /\ Reads(t, [th[t] EXCEPT !.pc =
       IF Sub(t).status \in {NoState, "NOT_PLACED"} THEN "saveSub" ELSE "idle"])

\* placed_at is now.
SaveSubmitting(t) ==
  /\ At(t, "saveSub")
  /\ Writes(t, [th[t] EXCEPT !.pc = "send"],
       [store EXCEPT !.subs[th[t].ref] =
          [status |-> "SUBMITTING", order |-> NoOrder, floor |-> Entered, aged |-> FALSE]])

Enters(o, r) == Unused(o) /\ broker' = [broker EXCEPT ![o] = NewRoll(r)]

\* 200/201 with an order id ...
SendAccepted(t) ==
  /\ At(t, "send")
  /\ \E o \in Orders : Enters(o, th[t].ref)
                       /\ Step(t, [th[t] EXCEPT !.pc = "ackId", !.order = o])
  /\ UNCHANGED <<store, process, history, bounds>>

\* ... a 400, 422 or 429 ...
SendRejected(t) ==
  /\ At(t, "send")
  /\ Reads(t, [th[t] EXCEPT !.pc = "ackRejected"])

\* ... or no id, or no answer: the order may have reached Schwab or not.
SendUnknown(t) ==
  /\ At(t, "send")
  /\ Fault
  /\ \/ \E o \in Orders : Enters(o, th[t].ref)
     \/ UNCHANGED broker
  /\ Step(t, [th[t] EXCEPT !.pc = "ackUnknown"])
  /\ UNCHANGED <<store, process, history>>

\* update_order_submission merges fields into whatever record is there now.
MergeSub(r, s, o) ==
  [store EXCEPT !.subs[r].status = s,
                !.subs[r].order = IF o = NoOrder THEN @ ELSE o]

AckId(t) ==
  /\ At(t, "ackId")
  /\ Writes(t, [th[t] EXCEPT !.pc = "savePending"],
       MergeSub(th[t].ref, "WORKING", th[t].order))

AckRejected(t) ==
  /\ At(t, "ackRejected")
  /\ Writes(t, IdleThread, MergeSub(th[t].ref, "REJECTED", NoOrder))

\* Mutant: a send without an answer is shown as rejected.
AckUnknownFailed(t) ==
  /\ At(t, "ackUnknown")
  /\ Writes(t, IdleThread, MergeSub(th[t].ref, "REJECTED", NoOrder))

AckUnknown(t) ==
  /\ At(t, "ackUnknown")
  /\ Writes(t, IdleThread, MergeSub(th[t].ref, "UNKNOWN", NoOrder))

SavePending(t) ==
  /\ At(t, "savePending")
  /\ Writes(t, IdleThread, [store EXCEPT !.pending[th[t].order] =
       [kept |-> TRUE, ref |-> th[t].ref, filled |-> 0, strikes |-> TRUE]])

-----------------------------------------------------------------------------
(* submission_status, by hand or from resolve_unconfirmed_submissions.     *)

Unconfirmed(r) == store.subs[r].status = "UNKNOWN" /\ store.subs[r].order = NoOrder

\* A resolved submission answers at once; so does one without an id that is
\* not UNKNOWN.
BeginCheck(t, r) ==
  LET s == store.subs[r]
      l == [IdleThread EXCEPT !.ref = r, !.sub = s, !.order = s.order]
  IN  \/ /\ Unconfirmed(r)
         /\ Begins(t, [l EXCEPT !.pc = "lookup"])
      \/ /\ s.order # NoOrder /\ s.status \notin Resolved
         /\ Begins(t, [l EXCEPT !.pc = "osGet", !.ret = "syncSub"])

(* _match_recent_order: listed orders with these legs inside the window;   *)
(* a working one first, then the newest.                                   *)
Candidates(r, s) ==
  {o \in Orders : /\ broker[o].listed /\ o > s.floor
                  /\ broker[o].ref \in Refs /\ LegsOf[broker[o].ref] = LegsOf[r]}

Newest(os) == CHOOSE o \in os : \A p \in os : p <= o

match_recent_order(r, s) ==
  LET found == Candidates(r, s)
      live  == {o \in found : broker[o].status = "WORKING"}
  IN  IF found = {} THEN NoOrder
      ELSE Newest(IF live # {} THEN live ELSE found)

\* Mutant: an empty lookup never settles the matter.
LookupStaysUnknown(t) ==
  LET o == match_recent_order(th[t].ref, th[t].sub)
  IN  /\ At(t, "lookup")
      /\ Reads(t, IF o = NoOrder THEN IdleThread
                  ELSE [th[t] EXCEPT !.pc = "adopt", !.order = o])

\* An empty lookup long after the send means that nothing was placed.
Lookup(t) ==
  LET o == match_recent_order(th[t].ref, th[t].sub)
  IN  /\ At(t, "lookup")
      /\ Reads(t,
           IF o # NoOrder THEN [th[t] EXCEPT !.pc = "adopt", !.order = o]
           ELSE IF th[t].sub.aged \/ Sub(t).aged THEN [th[t] EXCEPT !.pc = "notPlaced"]
           ELSE IdleThread)

LookupFails(t) ==
  /\ At(t, "lookup")
  /\ Fault
  /\ Step(t, IdleThread)
  /\ UNCHANGED <<broker, store, process, history>>

NotPlaced(t) ==
  /\ At(t, "notPlaced")
  /\ Writes(t, IdleThread, MergeSub(th[t].ref, "NOT_PLACED", NoOrder))

Adopt(t) ==
  /\ At(t, "adopt")
  /\ Writes(t, [th[t] EXCEPT !.pc = "adoptGet"],
       MergeSub(th[t].ref, "WORKING", th[t].order))

\* Mutant: the recovered order is polled but not registered as pending.
AdoptGetOnly(t) ==
  /\ At(t, "adoptGet")
  /\ Reads(t, [th[t] EXCEPT !.ret = "syncSub", !.pc = "osGet"])

AdoptGet(t) ==
  /\ At(t, "adoptGet")
  /\ Reads(t, [th[t] EXCEPT !.ret = "syncSub",
       !.pc = IF store.pending[th[t].order].kept THEN "osGet" ELSE "adoptSave"])

\* The record's payload is the broker order that was sent: it names the
\* option symbols, and no strikes.
AdoptSave(t) ==
  /\ At(t, "adoptSave")
  /\ Writes(t, [th[t] EXCEPT !.pc = "osGet"],
       [store EXCEPT !.pending[th[t].order] =
          [kept |-> TRUE, ref |-> th[t].ref, filled |-> 0, strikes |-> FALSE]])

SyncSub(t) ==
  /\ At(t, "syncSub")
  /\ Writes(t, IdleThread, MergeSub(th[t].ref, th[t].res, NoOrder))

-----------------------------------------------------------------------------
(* order_status of a roll: _roll_order_status, then _sync_roll_submission. *)

BeginPoll(t, o) ==
  /\ store.pending[o].kept
  /\ Begins(t, [IdleThread EXCEPT !.pc = "osGet", !.order = o])

OsGet(t) ==
  LET rec == store.pending[th[t].order]
  IN  /\ At(t, "osGet")
      /\ Reads(t, IF rec.kept
                  THEN [th[t] EXCEPT !.pc = "osRead", !.rec = rec]
                  ELSE [th[t] EXCEPT !.pc = th[t].ret, !.res = "UNKNOWN"])

Less(m, n) == IF m < n THEN m ELSE n

\* Whole units; FILLED without any quantities is the whole order.
FilledUnits(status, close, open) ==
  IF status = "FILLED" /\ Less(close, open) = 0 THEN Qty ELSE Less(close, open)

\* What get_order reports of the legs: a FILLED order may list no quantities.
LegReports(b) ==
  {<<b.close, b.open>>} \cup (IF b.status = "FILLED" THEN {<<0, 0>>} ELSE {})

DeadRes(status) == IF status = "REJECTED" THEN "REJECTED" ELSE "CANCELED"

\* Mutant: a dead order is dropped before its last units are booked.
OnRollDeadFirst(t, status, close, open) ==
  LET new  == FilledUnits(status, close, open) - th[t].rec.filled
      torn == status \in RawTerminal /\ close # open
      dead == status \in RawTerminal \ {"FILLED"}
  IN  CASE torn -> [th[t] EXCEPT !.pc = "pop", !.res = "LEG_IMBALANCE"]
        [] ~torn /\ dead -> [th[t] EXCEPT !.pc = "pop", !.res = DeadRes(status)]
        [] ~torn /\ ~dead /\ new > 0 ->
             [th[t] EXCEPT !.pc = "bookClose", !.units = new,
                !.res = IF th[t].rec.filled + new >= Qty \/ status = "FILLED"
                        THEN "FILLED" ELSE "WORKING"]
        [] OTHER -> [th[t] EXCEPT !.pc = "sync", !.res = "WORKING"]

\* An imbalance counts once nothing can rebalance it; then new units are
\* booked; then a dead order without new units is dropped.
OnRoll(t, status, close, open) ==
  LET new  == FilledUnits(status, close, open) - th[t].rec.filled
      torn == status \in RawTerminal /\ close # open
  IN  CASE torn -> [th[t] EXCEPT !.pc = "pop", !.res = "LEG_IMBALANCE"]
        [] ~torn /\ new > 0 ->
             [th[t] EXCEPT !.pc = "bookClose", !.units = new,
                !.res = IF th[t].rec.filled + new >= Qty \/ status = "FILLED"
                        THEN "FILLED" ELSE "WORKING"]
        [] ~torn /\ new <= 0 /\ status \in RawTerminal \ {"FILLED"} ->
             [th[t] EXCEPT !.pc = "pop", !.res = DeadRes(status)]
        [] OTHER -> [th[t] EXCEPT !.pc = "sync", !.res = "WORKING"]

OsRead(t) ==
  LET b == broker[th[t].order]
  IN  /\ At(t, "osRead")
      /\ \E legs \in LegReports(b) : Reads(t, OnRoll(t, b.status, legs[1], legs[2]))

\* get_order raises; the start-up sweep's hard lock binds no roll.
OsReadFails(t) ==
  /\ At(t, "osRead")
  /\ Fault
  /\ Step(t, IdleThread)
  /\ UNCHANGED <<broker, store, process, history>>

\* _commit_roll: two appends, then both legs applied to a private copy.
BookClose(t) ==
  LET o == th[t].order
  IN  /\ At(t, "bookClose")
      /\ {store.closed[o], store.opened[o], store.moved[o]} \subseteq 0..(MaxBook - th[t].units)
      /\ Writes(t, [th[t] EXCEPT !.pc = "bookOpen"],
           [store EXCEPT !.closed[o] = @ + th[t].units])

BookOpen(t) ==
  /\ At(t, "bookOpen")
  /\ Writes(t, [th[t] EXCEPT !.pc = "applyLoad"],
       [store EXCEPT !.opened[th[t].order] = @ + th[t].units])

ApplyLoad(t) ==
  /\ At(t, "applyLoad")
  /\ Reads(t, [th[t] EXCEPT !.pc = "applySave", !.copy = store])

\* Without strikes the old short is not found and the new leg has none.
ApplySave(t) ==
  /\ At(t, "applySave")
  /\ Writes(t, [th[t] EXCEPT !.copy = EmptyStore,
                  !.pc = IF th[t].res = "FILLED" THEN "pop" ELSE "savePart"],
       IF th[t].rec.strikes
       THEN [th[t].copy EXCEPT !.moved[th[t].order] = @ + th[t].units]
       ELSE th[t].copy)

SavePart(t) ==
  /\ At(t, "savePart")
  /\ Writes(t, [th[t] EXCEPT !.pc = "sync"],
       [store EXCEPT !.pending[th[t].order] =
          [th[t].rec EXCEPT !.filled = @ + th[t].units]])

\* Mutant: a torn order is dropped like any other.
PopUnfrozen(t) ==
  /\ At(t, "pop")
  /\ Writes(t, [th[t] EXCEPT !.pc = "sync"],
       [store EXCEPT !.pending[th[t].order] = NotPending])

Pop(t) ==
  /\ At(t, "pop")
  /\ Writes(t, [th[t] EXCEPT !.pc =
                  IF th[t].res = "LEG_IMBALANCE" THEN "freezeLoad" ELSE "sync"],
       [store EXCEPT !.pending[th[t].order] = NotPending])

\* Both freezes: a private copy, saved later.
FreezeLoad(t) ==
  /\ At(t, "freezeLoad")
  /\ Reads(t, [th[t] EXCEPT !.pc = "freezeSave", !.copy = store])

FreezeSave(t) ==
  /\ At(t, "freezeSave")
  /\ Writes(t, [th[t] EXCEPT !.copy = EmptyStore,
                  !.pc = IF th[t].res = "LEG_IMBALANCE" THEN "sync" ELSE "idle"],
       [th[t].copy EXCEPT !.review = TRUE])

Sync(t) ==
  /\ At(t, "sync")
  /\ Writes(t, [th[t] EXCEPT !.pc = th[t].ret],
       MergeSub(th[t].rec.ref, th[t].res, th[t].order))

-----------------------------------------------------------------------------
(* cancel_order of a pending roll.  A roll has no resubmission lock, so    *)
(* what _settle_order does here is to log.                                 *)

BeginCancel(t, o) ==
  /\ store.pending[o].kept
  /\ Begins(t, [IdleThread EXCEPT !.pc = "cxRead", !.order = o])

\* Where cancel_order goes once it has seen a status ("" is unreadable).
OnStatus(status) ==
  CASE status = "FILLED" -> "osGet"
    [] status \in RawTerminal \ {"FILLED"} -> "finalize"
    [] status = "PENDING_CANCEL" -> "cxConfirm"
    [] OTHER -> "cxDelete"

CxRead(t) ==
  /\ At(t, "cxRead")
  /\ Reads(t, [th[t] EXCEPT !.pc = OnStatus(broker[th[t].order].status)])

CxReadFails(t) ==
  /\ At(t, "cxRead")
  /\ Fault
  /\ Step(t, [th[t] EXCEPT !.pc = OnStatus("")])
  /\ UNCHANGED <<broker, store, process, history>>

AskToCancel(o) ==
  broker' = [broker EXCEPT ![o].status =
               IF @ = "WORKING" THEN "PENDING_CANCEL" ELSE @]

\* Mutant: the DELETE is never sent.
CxDeleteUnsent(t) ==
  /\ At(t, "cxDelete")
  /\ Reads(t, [th[t] EXCEPT !.pc = "cxConfirm"])

\* The DELETE is accepted, or refused because the order is not working; a
\* refused one is followed by another look at the order.
CxDelete(t) ==
  /\ At(t, "cxDelete")
  /\ AskToCancel(th[t].order)
  /\ Step(t, [th[t] EXCEPT !.pc =
       IF broker[th[t].order].status = "WORKING" THEN "cxConfirm" ELSE "cxRead"])
  /\ UNCHANGED <<store, process, history, bounds>>

\* The DELETE raises, having reached the broker or not; after the last
\* attempt the handler gives up.
CxDeleteFails(t) ==
  /\ At(t, "cxDelete")
  /\ Fault
  /\ AskToCancel(th[t].order) \/ UNCHANGED broker
  /\ \/ Step(t, [th[t] EXCEPT !.pc = "cxRead"])
     \/ Step(t, IdleThread)
  /\ UNCHANGED <<store, process, history>>

\* _confirm_cancel sees the order dead, or the window closes.
CxConfirm(t) ==
  /\ At(t, "cxConfirm")
  /\ \/ Dead(th[t].order) /\ Reads(t, [th[t] EXCEPT !.pc = "finalize"])
     \/ Reads(t, IdleThread)

\* _finalize_cancel_terminal re-reads the order, now with its quantities.
Finalize(t) ==
  LET b == broker[th[t].order]
  IN  /\ At(t, "finalize")
      /\ Reads(t, [th[t] EXCEPT !.pc =
           IF b.status = "FILLED" THEN "osGet"
           ELSE IF b.close + b.open > 0 THEN "cxPopPartial" ELSE "cxPopClean"])

FinalizeFails(t) ==
  /\ At(t, "finalize")
  /\ Fault
  /\ Step(t, IdleThread)
  /\ UNCHANGED <<broker, store, process, history>>

CxPopPartial(t) ==
  /\ At(t, "cxPopPartial")
  /\ Writes(t, [th[t] EXCEPT !.pc = "freezeLoad"],
       [store EXCEPT !.pending[th[t].order] = NotPending])

CxPopClean(t) ==
  /\ At(t, "cxPopClean")
  /\ Writes(t, IdleThread, [store EXCEPT !.pending[th[t].order] = NotPending])

-----------------------------------------------------------------------------
(* clear_unfilled_order, offered by the Orders tracker for a send that has *)
(* no id and for a pending record.                                         *)

BeginClear(t, r) ==
  LET s == store.subs[r]
  IN  /\ \/ s.order = NoOrder /\ s.status \in {"UNKNOWN", "SUBMITTING"}
         \/ s.order # NoOrder /\ store.pending[s.order].kept
      /\ Begins(t, [IdleThread EXCEPT !.pc = "clearRead", !.ref = r, !.sub = s,
                                      !.order = s.order])

\* Only a dead order without a fill is cleared, or an id-less send that the
\* lookup (at whatever age) does not list.
ClearRead(t) ==
  LET o == IF th[t].order # NoOrder THEN th[t].order
           ELSE match_recent_order(th[t].ref, th[t].sub)
  IN  /\ At(t, "clearRead")
      /\ Step(t, IF o = NoOrder THEN [th[t] EXCEPT !.pc = "clearSub"]
                 ELSE IF /\ broker[o].status \in RawTerminal \ {"FILLED"}
                         /\ broker[o].close + broker[o].open = 0
                      THEN [th[t] EXCEPT !.pc = "clearPop", !.order = o]
                      ELSE IdleThread)
      /\ cleared' = IF o = NoOrder THEN cleared \cup SentFor(th[t].ref) ELSE cleared
      /\ UNCHANGED <<broker, store, process, forced, bounds>>

\* The broker cannot be asked and the operator forces it.
ClearUnverified(t) ==
  /\ At(t, "clearRead")
  /\ Fault
  /\ Step(t, [th[t] EXCEPT !.pc = IF th[t].order = NoOrder THEN "clearSub" ELSE "clearPop"])
  /\ forced' = forced \cup SentFor(th[t].ref)
  /\ UNCHANGED <<broker, store, process, cleared>>

ClearPop(t) ==
  /\ At(t, "clearPop")
  /\ Writes(t, [th[t] EXCEPT !.pc = "clearSub"],
       [store EXCEPT !.pending[th[t].order] = NotPending])

ClearSub(t) ==
  /\ At(t, "clearSub")
  /\ Writes(t, IdleThread, MergeSub(th[t].ref, "NOT_PLACED", th[t].order))

-----------------------------------------------------------------------------
(* Crash, restart, the start-up sweep; the passing of time; the broker.    *)

Crash ==
  /\ up
  /\ crashes < MaxCrashes
  /\ crashes' = crashes + 1
  /\ up' = FALSE
  /\ todo' = {}
  /\ th' = [t \in Threads |-> IdleThread]
  /\ UNCHANGED <<broker, store, history, faults>>

Restart ==
  /\ ~up
  /\ up' = TRUE
  /\ todo' = {o \in Orders : store.pending[o].kept}
  /\ UNCHANGED <<broker, store, th, history, bounds>>

BootPoll(t) ==
  /\ up
  /\ \A u \in Threads : th[u].pc = "idle"
  /\ \E o \in todo :
       /\ todo' = todo \ {o}
       /\ Step(t, [IdleThread EXCEPT !.pc = "osGet", !.order = o, !.boot = TRUE])
  /\ UNCHANGED <<broker, store, up, history, bounds>>

\* placed_at falls NOT_PLACED_AFTER_SECONDS behind: longer than the call
\* takes and than Schwab needs to list the order (config.py: "Schwab lists an
\* accepted order almost immediately").
Age(r) ==
  /\ store.subs[r].status \notin {NoState, "SUBMITTING"} /\ ~store.subs[r].aged
  /\ \A o \in SentFor(r) : broker[o].listed
  /\ store' = [store EXCEPT !.subs[r].aged = TRUE]
  /\ UNCHANGED <<broker, th, process, history, bounds>>

BrokerLists(o) ==
  /\ broker[o].status # NoState /\ ~broker[o].listed
  /\ broker' = [broker EXCEPT ![o].listed = TRUE]

\* One contract of one leg fills; the order is FILLED with the last.
BrokerFills(o) ==
  /\ Alive(o)
  /\ \E c \in broker[o].close..Qty, p \in broker[o].open..Qty :
       /\ c + p = broker[o].close + broker[o].open + 1
       /\ broker' = [broker EXCEPT ![o].close = c, ![o].open = p,
                       ![o].status = IF c + p = 2 * Qty THEN "FILLED" ELSE @]

BrokerDies(o) ==
  /\ Alive(o)
  /\ \E s \in {"CANCELED", "EXPIRED", "REJECTED"} :
       /\ s = "REJECTED" => broker[o].close + broker[o].open = 0
       /\ broker' = [broker EXCEPT ![o].status = s]

BrokerStep(o) ==
  /\ BrokerLists(o) \/ BrokerFills(o) \/ BrokerDies(o)
  /\ UNCHANGED <<store, th, process, history, bounds>>

-----------------------------------------------------------------------------

PlaceStep(t) ==
  \/ ReadSub(t) \/ SaveSubmitting(t)
  \/ SendAccepted(t) \/ SendRejected(t) \/ SendUnknown(t)
  \/ AckId(t) \/ AckRejected(t) \/ AckUnknown(t) \/ SavePending(t)

CheckStep(t) ==
  \/ Lookup(t) \/ LookupFails(t) \/ NotPlaced(t)
  \/ Adopt(t) \/ AdoptGet(t) \/ AdoptSave(t) \/ SyncSub(t)

StatusStep(t) ==
  \/ OsGet(t) \/ OsRead(t) \/ OsReadFails(t)
  \/ BookClose(t) \/ BookOpen(t) \/ ApplyLoad(t) \/ ApplySave(t) \/ SavePart(t)
  \/ Pop(t) \/ FreezeLoad(t) \/ FreezeSave(t) \/ Sync(t)

CancelStep(t) ==
  \/ CxRead(t) \/ CxReadFails(t) \/ CxDelete(t) \/ CxDeleteFails(t)
  \/ CxConfirm(t) \/ Finalize(t) \/ FinalizeFails(t)
  \/ CxPopPartial(t) \/ CxPopClean(t)

ClearStep(t) == ClearRead(t) \/ ClearUnverified(t) \/ ClearPop(t) \/ ClearSub(t)

ThreadStep(t) ==
  PlaceStep(t) \/ CheckStep(t) \/ StatusStep(t) \/ CancelStep(t) \/ ClearStep(t)

BeginStep(t) ==
  \/ \E r \in Refs : BeginRoll(t, r) \/ BeginCheck(t, r) \/ BeginClear(t, r)
  \/ \E o \in Orders : BeginPoll(t, o) \/ BeginCancel(t, o)

Next ==
  \/ \E t \in Threads : BeginStep(t) \/ ThreadStep(t) \/ BootPoll(t)
  \/ \E r \in Refs : Age(r)
  \/ \E o \in Orders : BrokerStep(o)
  \/ Crash
  \/ Restart

Spec == Init /\ [][Next]_vars

-----------------------------------------------------------------------------
(* Properties. *)

\* The type invariant of the roll path.
TypeOK ==
  /\ broker \in [Orders -> Roll]
  /\ store \in Store
  /\ th \in [Threads -> Local]
  /\ up \in BOOLEAN
  /\ todo \subseteq Orders /\ forced \subseteq Orders /\ cleared \subseteq Orders
  /\ faults \in Nat /\ crashes \in Nat

Resting == Serving /\ \A t \in Threads : th[t].pc = "idle"

\* Orders whose submission the operator has ended without seeing the order.
LetGo == forced \cup cleared

\* The idempotency key (a submit for a ref "returns this record, never
\* re-submits"): of two live orders of one ref, one was let go by the operator.
OneLivePerRef ==
  \A o, p \in Orders :
    o # p /\ Alive(o) /\ Alive(p) /\ broker[o].ref = broker[p].ref
      => {o, p} \cap LetGo # {}

\* The submission record never calls an order's ticket over while that order
\* can still fill (_submission_response: "truthful to the persisted broker
\* outcome"; an unanswered send is "never 'failed'").
NeverFalselyOver ==
  \A o \in Orders \ LetGo :
    Alive(o) => store.subs[broker[o].ref].status \notin Resolved

\* An order live at Schwab is pending, or the sweep will look for it.
LiveRollTracked ==
  Resting => \A o \in Orders \ LetGo :
    Alive(o) => store.pending[o].kept \/ Unconfirmed(broker[o].ref)

\* What rests at Schwab is known: one roll for a ref, and one somebody watches.
LiveRollsKnown == OneLivePerRef /\ LiveRollTracked

\* A roll that is over and that nobody froze is booked on both legs, in the
\* whole units that filled (_roll_leg_filled_qty: "never book a one-legged fill").
RollFillBooked ==
  Resting /\ ~store.review => \A o \in Orders \ LetGo :
    Dead(o) /\ ~store.pending[o].kept /\ ~Unconfirmed(broker[o].ref)
      => /\ broker[o].close = broker[o].open
         /\ store.closed[o] = broker[o].close /\ store.opened[o] = broker[o].open

\* No unit is booked twice: polled partial fills add up to at most the fill.
NeverOverbooked ==
  \A o \in Orders : /\ store.closed[o] <= broker[o].close
                    /\ store.opened[o] <= broker[o].open

\* However threads interleave, an order appears in the books only once both
\* its legs have filled.
BookedOnlyIfBothFilled ==
  \A o \in Orders : store.closed[o] + store.opened[o] + store.moved[o] > 0
                      => broker[o].close > 0 /\ broker[o].open > 0

\* The books hold what filled on both legs: all of it, once, and never one leg.
BooksMatchLegs == RollFillBooked /\ NeverOverbooked /\ BookedOnlyIfBothFilled

\* An order that died with unequal legs leaves the position frozen, or is
\* still to be looked at (R3: "must freeze the position").
ImbalanceFrozen ==
  Resting => \A o \in Orders :
    Dead(o) /\ broker[o].close # broker[o].open /\ o \notin LetGo
      => store.review \/ store.pending[o].kept \/ Unconfirmed(broker[o].ref)

\* A booked roll has moved the position from the old short to the new one
\* (_roll_short: "buy to close the existing leg, then sell a new one").
RollMovesPosition ==
  Resting => \A o \in Orders :
    store.closed[o] > 0 /\ ~store.pending[o].kept => store.moved[o] = store.closed[o]

\* submission_status: a known order id is polled and the record synced "to
\* the broker truth": no check ends with UNKNOWN for an order that is dead.
CheckFindsTruth ==
  Resting => \A r \in Refs : LET s == store.subs[r] IN
    s.order # NoOrder /\ Dead(s.order) => s.status # "UNKNOWN"

-----------------------------------------------------------------------------
(* Liveness.  The scheduler's tick resolves unconfirmed sends, polls and   *)
(* cancels pending orders, again and again; threads run; time passes; the  *)
(* host restarts a dead process; Schwab carries out an accepted cancel and *)
(* lists its orders.                                                       *)

Fairness ==
  /\ \A t \in Threads : WF_vars(ThreadStep(t)) /\ WF_vars(BootPoll(t))
  /\ \A r \in Refs :
       /\ SF_vars(\E t \in Threads : Unconfirmed(r) /\ BeginCheck(t, r))
       /\ WF_vars(Age(r))
  /\ \A o \in Orders :
       /\ SF_vars(\E t \in Threads : BeginCancel(t, o))
       /\ WF_vars(BrokerLists(o) /\ BrokerStep(o))
       /\ WF_vars(broker[o].status = "PENDING_CANCEL" /\ BrokerDies(o) /\ BrokerStep(o))
  /\ WF_vars(Restart)

FairSpec == Spec /\ Fairness

\* A send without an answer does not stay unconfirmed for ever.
EveryUnknownResolved == \A r \in Refs : Unconfirmed(r) ~> ~Unconfirmed(r)

\* No roll stays pending for ever.
EveryRollSettled ==
  \A o \in Orders : store.pending[o].kept ~> ~store.pending[o].kept
=============================================================================
