----------------------------- MODULE LiveOrders -----------------------------
(***************************************************************************)
(* Live entry orders of one ticker, as backend/executor.py drives them:    *)
(* place, poll, cancel, clear, and the start-up sweep, run by the request  *)
(* threads and the scheduler thread of one process, against a broker that  *)
(* fills, cancels, rejects and expires orders on its own time and whose    *)
(* replies can be lost.                                                    *)
(*                                                                         *)
(* One action per broker call and per access to the state file, in the     *)
(* order the code makes them: between two of them any other thread, the    *)
(* broker, or a crash may step in.  logging_handler's helpers each hold    *)
(* the store lock for one whole read-modify-write, so each is one action;  *)
(* _commit and the freeze do NOT (they load, change a private copy and     *)
(* save it later), so each of those is two.                                *)
(***************************************************************************)
EXTENDS OrderLifecycle, FiniteSets

CONSTANTS
  Threads,                 \* request threads and the scheduler thread
  Intents,                 \* gated actions on the ticker (_LOCKED_INTENTS)
  FrozenBlocked,           \* those a frozen position refuses
  Qty,                     \* contracts in every order
  MAX_RESUBMIT_ATTEMPTS,   \* config.py
  CANCEL_POLL_MAX_ATTEMPTS,\* config.py: DELETEs before the hard lock
  MaxOrders,               \* bound: broker order ids in one behaviour
  MaxBook,                 \* bound: times one order's fill may be booked
  MaxFaults,               \* bound: failed or lost broker replies
  MaxCrashes               \* bound: process crashes

ASSUME ConstantsAssumption ==
  /\ FrozenBlocked \subseteq Intents
  /\ Qty \in Nat \ {0}
  /\ MAX_RESUBMIT_ATTEMPTS \in Nat \ {0}
  /\ CANCEL_POLL_MAX_ATTEMPTS \in Nat \ {0}
  /\ MaxOrders \in Nat
  /\ MaxBook \in Nat
  /\ MaxFaults \in Nat
  /\ MaxCrashes \in Nat

Orders  == 1..MaxOrders
NoOrder == 0

VARIABLES
  broker,    \* order id -> what Schwab knows of it
  store,     \* state.json: the part the order path reads and writes
  th,        \* the locals and program counter of each thread
  up,        \* the process is running
  todo,      \* pending orders the start-up sweep has still to re-poll
  orphaned,  \* history: orders live at Schwab whose id the app never kept
  forced,    \* history: orders the operator force-cleared unverified
  faults,    \* bound counters
  crashes

vars == <<broker, store, th, up, todo, orphaned, forced, faults, crashes>>
history == <<orphaned, forced>>
bounds  == <<faults, crashes>>
process == <<up, todo>>

-----------------------------------------------------------------------------
(* The broker's side. *)

AliveAtBroker(o)    == broker[o].status \in RawLive
TerminalAtBroker(o) == broker[o].status \in RawTerminal

\* Order ids are handed out in sequence; Unused is the one that comes next.
Unused(o) == /\ broker[o].status = NoState
             /\ \A p \in Orders : p < o => broker[p].status # NoState

NewOrder(i) == [status |-> "WORKING", filled |-> 0, intent |-> i]

-----------------------------------------------------------------------------
(* The state file and the threads' locals. *)

Lock == [state : CodedStates \cup {NoState}, order : Orders \cup {NoOrder},
         reconciled : BOOLEAN, attempts : Nat]

NoLock == [state |-> NoState, order |-> NoOrder, reconciled |-> TRUE,
           attempts |-> 0]

\* pending: pending_orders; locks: order_locks; execs: how many execution
\* records name the order; applied: how often its fill was applied to the
\* position; review: the position's needs_review.
Store == [pending : SUBSET Orders, locks : [Intents -> Lock],
          execs : [Orders -> Nat], applied : [Orders -> Nat],
          review : BOOLEAN]

EmptyStore == [pending |-> {}, locks |-> [i \in Intents |-> NoLock],
               execs |-> [o \in Orders |-> 0],
               applied |-> [o \in Orders |-> 0], review |-> FALSE]

(* Where a thread can be; ReturnLabels are where a helper goes back to. *)
Labels == {"idle", "guardLock", "guardPending", "transmit", "savePending",
           "readPrior", "saveLock", "osGet", "osRead", "commitAppend",
           "commitLoad", "commitSave", "commitPop", "osPop", "settleRead",
           "settleWrite", "cancelStatus", "checkDelete", "delete",
           "retryDelete", "confirm", "finalize", "duringCancel",
           "popPartial", "popClean", "freezeLoad", "freezeSave",
           "clearRead", "clearGet", "clearPop"}

ReturnLabels == {"idle", "duringCancel", "confirm", "delete", "freezeLoad",
                 "clearPop"}

Local == [pc : Labels, order : Orders \cup {NoOrder},
          intent : Intents \cup {NoState}, raw : RawTerminal \cup {NoState},
          lock : Lock, copy : Store, coded : CodedStates \cup {NoState},
          tries : Nat, cancelling : BOOLEAN, force : BOOLEAN,
          ret : ReturnLabels, boot : BOOLEAN]

IdleThread == [pc |-> "idle", order |-> NoOrder, intent |-> NoState,
               raw |-> NoState, lock |-> NoLock, copy |-> EmptyStore,
               coded |-> NoState, tries |-> 0, cancelling |-> FALSE,
               force |-> FALSE, ret |-> "idle", boot |-> FALSE]

At(t, label) == up /\ th[t].pc = label

\* Thread t moves on with locals l; a thread that is done keeps nothing.
Step(t, l) == th' = [th EXCEPT ![t] = IF l.pc = "idle" THEN IdleThread ELSE l]

Fault == /\ faults < MaxFaults
         /\ faults' = faults + 1
         /\ UNCHANGED crashes

\* The start-up sweep runs before requests and the scheduler are served.
Serving == up /\ todo = {} /\ \A t \in Threads : ~th[t].boot

Begin(t, label, o, i) ==
  /\ Serving
  /\ th[t].pc = "idle"
  /\ Step(t, [IdleThread EXCEPT !.pc = label, !.order = o, !.intent = i])
  /\ UNCHANGED <<broker, store, process, history, bounds>>

Init ==
  /\ broker = [o \in Orders |-> [status |-> NoState, filled |-> 0, intent |-> NoState]]
  /\ store = EmptyStore
  /\ th = [t \in Threads |-> IdleThread]
  /\ up = TRUE
  /\ todo = {}
  /\ orphaned = {}
  /\ forced = {}
  /\ faults = 0
  /\ crashes = 0

-----------------------------------------------------------------------------
(* _execute -> _place_live: freeze check, resubmission gate, transmit,     *)
(* then the pending record, then the lock.                                 *)

BeginPlace(t, i) ==
  /\ i \in FrozenBlocked => ~store.review
  /\ Begin(t, "guardLock", NoOrder, i)

GuardLock(t) ==
  /\ At(t, "guardLock")
  /\ Step(t, [th[t] EXCEPT !.pc =
       IF check_resubmit(store.locks[th[t].intent], MAX_RESUBMIT_ATTEMPTS)
       THEN "guardPending" ELSE "idle"])
  /\ UNCHANGED <<broker, store, process, history, bounds>>

\* Mutant: the lock alone guards a placement.
GuardPendingSkipped(t) ==
  /\ At(t, "guardPending")
  /\ Step(t, [th[t] EXCEPT !.pc = "transmit"])
  /\ UNCHANGED <<broker, store, process, history, bounds>>

\* The belt-and-suspenders check for a pending order without a lock.
GuardPending(t) ==
  /\ At(t, "guardPending")
  /\ Step(t, [th[t] EXCEPT !.pc =
       IF \E o \in store.pending : broker[o].intent = th[t].intent
       THEN "idle" ELSE "transmit"])
  /\ UNCHANGED <<broker, store, process, history, bounds>>

\* place_order is acknowledged with an order id.
Transmit(t) ==
  /\ At(t, "transmit")
  /\ \E o \in Orders :
       /\ Unused(o)
       /\ broker' = [broker EXCEPT ![o] = NewOrder(th[t].intent)]
       /\ Step(t, [th[t] EXCEPT !.pc = "savePending", !.order = o])
  /\ UNCHANGED <<store, process, history, bounds>>

\* place_order raises: nothing was sent (a bad quote, a 4xx, a 429) ...
TransmitRefused(t) ==
  /\ At(t, "transmit")
  /\ Step(t, IdleThread)
  /\ UNCHANGED <<broker, store, process, history, bounds>>

\* Mutant: a reply without an id is recorded all the same, under no id.
TransmitAckLostRecorded(t) ==
  /\ At(t, "transmit")
  /\ Fault
  /\ Step(t, [th[t] EXCEPT !.pc = "savePending"])
  /\ store' = [store EXCEPT !.pending = @ \cup {th[t].order}]
  /\ UNCHANGED <<broker, process, history>>

\* ... or it was, and the reply (or the id in it) was lost.
TransmitAckLost(t) ==
  /\ At(t, "transmit")
  /\ Fault
  /\ \E o \in Orders :
       /\ Unused(o)
       /\ broker' = [broker EXCEPT ![o] = NewOrder(th[t].intent)]
       /\ orphaned' = orphaned \cup {o}
  /\ Step(t, IdleThread)
  /\ UNCHANGED <<store, process, forced>>

SavePending(t) ==
  /\ At(t, "savePending")
  /\ store' = [store EXCEPT !.pending = @ \cup {th[t].order}]
  /\ Step(t, [th[t] EXCEPT !.pc = "readPrior"])
  /\ UNCHANGED <<broker, process, history, bounds>>

\* _record_placement reads the lock for its attempt count, then replaces it.
ReadPriorLock(t) ==
  /\ At(t, "readPrior")
  /\ Step(t, [th[t] EXCEPT !.pc = "saveLock", !.lock = store.locks[th[t].intent]])
  /\ UNCHANGED <<broker, store, process, history, bounds>>

SaveLock(t) ==
  /\ At(t, "saveLock")
  /\ store' = [store EXCEPT !.locks[th[t].intent] =
       [state |-> "WORKING", order |-> th[t].order, reconciled |-> FALSE,
        attempts |-> th[t].lock.attempts + 1]]
  /\ Step(t, IdleThread)
  /\ UNCHANGED <<broker, process, history, bounds>>

-----------------------------------------------------------------------------
(* order_status: read the order at the broker and act on a terminal state. *)
(* It is called by the poll, the sweeps and the start-up, and from inside  *)
(* cancel_order; ret is where the caller goes on.                          *)

BeginPoll(t, o) == Begin(t, "osGet", o, broker[o].intent)

OsGetPending(t) ==
  /\ At(t, "osGet")
  /\ Step(t, [th[t] EXCEPT !.pc =
       IF th[t].order \in store.pending THEN "osRead" ELSE th[t].ret])
  /\ UNCHANGED <<broker, store, process, history, bounds>>

\* Mutant: any dead order is booked as filled.
OsReadDeadIsFilled(t) ==
  /\ At(t, "osRead")
  /\ Step(t, [th[t] EXCEPT !.pc =
       IF TerminalAtBroker(th[t].order) THEN "commitAppend" ELSE th[t].ret])
  /\ UNCHANGED <<broker, store, process, history, bounds>>

\* The three outcomes of a readable order: book it, drop it, leave it.
OsRead(t) ==
  LET b == broker[th[t].order]
  IN  /\ At(t, "osRead")
      /\ Step(t, CASE b.status = "FILLED" -> [th[t] EXCEPT !.pc = "commitAppend"]
                   [] b.status \in RawTerminal \ {"FILLED"} ->
                        [th[t] EXCEPT !.pc = "osPop", !.raw = b.status]
                   [] OTHER -> [th[t] EXCEPT !.pc = th[t].ret])
      /\ UNCHANGED <<broker, store, process, history, bounds>>

\* get_order raises.  Only the start-up sweep acts on it: it hard-locks.
OsReadFails(t) ==
  /\ At(t, "osRead")
  /\ Fault
  /\ Step(t, IF th[t].boot
             THEN [th[t] EXCEPT !.pc = "settleRead",
                                !.coded = "LOCKED_UNKNOWN", !.ret = "idle"]
             ELSE IdleThread)
  /\ UNCHANGED <<broker, store, process, history>>

\* _commit, first write: append_execution, under the store lock.
CommitAppend(t) ==
  LET o == th[t].order
  IN  /\ At(t, "commitAppend")
      /\ store.execs[o] < MaxBook /\ store.applied[o] < MaxBook
      /\ store' = [store EXCEPT !.execs[o] = @ + 1]
      /\ Step(t, [th[t] EXCEPT !.pc = "commitLoad"])
      /\ UNCHANGED <<broker, process, history, bounds>>

\* _commit, second write: load a private copy, apply the fill to the
\* position in it, recompute, save the whole copy.
CommitLoad(t) ==
  /\ At(t, "commitLoad")
  /\ Step(t, [th[t] EXCEPT !.pc = "commitSave", !.copy = store])
  /\ UNCHANGED <<broker, store, process, history, bounds>>

CommitSave(t) ==
  /\ At(t, "commitSave")
  /\ store' = [th[t].copy EXCEPT !.applied[th[t].order] = @ + 1]
  /\ Step(t, [th[t] EXCEPT !.pc = "commitPop", !.copy = EmptyStore])
  /\ UNCHANGED <<broker, process, history, bounds>>

PopAndSettle(t, label, coded) ==
  /\ At(t, label)
  /\ store' = [store EXCEPT !.pending = @ \ {th[t].order}]
  /\ Step(t, [th[t] EXCEPT !.pc = "settleRead", !.coded = coded])
  /\ UNCHANGED <<broker, process, history, bounds>>

\* Mutant: the pending record outlives the booking of its fill.
CommitPopForgotten(t) ==
  /\ At(t, "commitPop")
  /\ Step(t, [th[t] EXCEPT !.pc = "settleRead", !.coded = "FILLED"])
  /\ UNCHANGED <<broker, store, process, history, bounds>>

CommitPop(t) == PopAndSettle(t, "commitPop", "FILLED")

\* Mutant: a dead order is dropped and its intent's lock left as it is.
OsPopUnsettled(t) ==
  /\ At(t, "osPop")
  /\ store' = [store EXCEPT !.pending = @ \ {th[t].order}]
  /\ Step(t, [th[t] EXCEPT !.pc = th[t].ret])
  /\ UNCHANGED <<broker, process, history, bounds>>

\* The coded state is the raw one: this path does not look at quantities.
OsPop(t) == PopAndSettle(t, "osPop", th[t].raw)

\* _settle_order: read the intent's lock, then write it back re-stated.
SettleRead(t) ==
  /\ At(t, "settleRead")
  /\ Step(t, [th[t] EXCEPT !.lock = store.locks[th[t].intent], !.pc =
       IF store.locks[th[t].intent] = NoLock THEN th[t].ret ELSE "settleWrite"])
  /\ UNCHANGED <<broker, store, process, history, bounds>>

SettleWrite(t) ==
  /\ At(t, "settleWrite")
  /\ store' = [store EXCEPT !.locks[th[t].intent] =
       [th[t].lock EXCEPT !.state = th[t].coded, !.order = th[t].order,
                          !.reconciled = th[t].coded \in RESUBMIT_OK_STATES]]
  /\ Step(t, [th[t] EXCEPT !.pc = th[t].ret, !.lock = NoLock])
  /\ UNCHANGED <<broker, process, history, bounds>>

-----------------------------------------------------------------------------
(* cancel_order, called by the operator, the client's fill timeout and the *)
(* stale-order sweep.                                                      *)

BeginCancel(t, o) ==
  /\ o \in store.pending
  /\ Begin(t, "cancelStatus", o, broker[o].intent)

\* What the canceller does with an order that is still live: ask for the
\* cancel the first time; later, await it or ask again.
OnLive(t, raw) ==
  IF th[t].cancelling
  THEN [th[t] EXCEPT !.pc = IF raw = "PENDING_CANCEL" THEN "confirm" ELSE "retryDelete"]
  ELSE [th[t] EXCEPT !.pc = "settleRead", !.coded = "CANCEL_REQUESTED",
          !.ret = IF raw = "PENDING_CANCEL" THEN "confirm" ELSE "delete",
          !.cancelling = TRUE]

\* What it does when it has seen status raw ("" is unreadable).
OnStatus(t, raw) ==
  CASE raw = "FILLED" -> [th[t] EXCEPT !.pc = "osGet", !.ret = "idle"]
    [] raw \in RawTerminal \ {"FILLED"} -> [th[t] EXCEPT !.pc = "finalize"]
    [] OTHER -> OnLive(t, raw)

CancelStatus(t) ==
  /\ th[t].pc \in {"cancelStatus", "checkDelete"} /\ up
  /\ Step(t, OnStatus(t, broker[th[t].order].status))
  /\ UNCHANGED <<broker, store, process, history, bounds>>

\* _safe_status swallows the error: an unreadable order counts as live.
CancelStatusFails(t) ==
  /\ th[t].pc \in {"cancelStatus", "checkDelete"} /\ up
  /\ Fault
  /\ Step(t, OnStatus(t, ""))
  /\ UNCHANGED <<broker, store, process, history>>

AskToCancel(o) ==
  broker' = [broker EXCEPT ![o].status =
               IF @ = "WORKING" THEN "PENDING_CANCEL" ELSE @]

\* Mutant: an accepted DELETE is taken for a cancelled order.
DeleteAcceptedIsCanceled(t) ==
  /\ At(t, "delete")
  /\ broker[th[t].order].status = "WORKING"
  /\ AskToCancel(th[t].order)
  /\ Step(t, [th[t] EXCEPT !.pc = "popClean", !.raw = "CANCELED", !.ret = "idle"])
  /\ UNCHANGED <<store, process, history, bounds>>

DeleteAccepted(t) ==
  /\ At(t, "delete")
  /\ broker[th[t].order].status = "WORKING"
  /\ AskToCancel(th[t].order)
  /\ Step(t, [th[t] EXCEPT !.pc = "confirm"])
  /\ UNCHANGED <<store, process, history, bounds>>

\* A DELETE of an order that is not WORKING is refused.
DeleteRefused(t) ==
  /\ At(t, "delete")
  /\ broker[th[t].order].status # "WORKING"
  /\ Step(t, [th[t] EXCEPT !.pc = "checkDelete"])
  /\ UNCHANGED <<broker, store, process, history, bounds>>

\* The DELETE raises; it may have reached the broker all the same.
DeleteFails(t) ==
  /\ At(t, "delete")
  /\ Fault
  /\ AskToCancel(th[t].order) \/ UNCHANGED broker
  /\ Step(t, [th[t] EXCEPT !.pc = "checkDelete"])
  /\ UNCHANGED <<store, process, history>>

\* Still live after a refused DELETE: try again, or hard-lock the intent.
RetryDelete(t) ==
  /\ At(t, "retryDelete")
  /\ Step(t, IF th[t].tries + 1 < CANCEL_POLL_MAX_ATTEMPTS
             THEN [th[t] EXCEPT !.pc = "delete", !.tries = @ + 1]
             ELSE [th[t] EXCEPT !.pc = "settleRead",
                                !.coded = "LOCKED_UNKNOWN", !.ret = "idle"])
  /\ UNCHANGED <<broker, store, process, history, bounds>>

\* Mutant: when the window closes the order is assumed dead.
ConfirmAssumed(t) ==
  /\ At(t, "confirm")
  /\ Step(t, [th[t] EXCEPT !.pc = "popClean", !.raw = "CANCELED", !.ret = "idle"])
  /\ UNCHANGED <<broker, store, process, history, bounds>>

\* _confirm_cancel polls until the order is terminal or the window closes,
\* when the thread leaves with pending_cancel and the record is kept.
Confirm(t) ==
  /\ At(t, "confirm")
  /\ \/ /\ TerminalAtBroker(th[t].order)
        /\ Step(t, [th[t] EXCEPT !.pc = "finalize"])
     \/ Step(t, IdleThread)
  /\ UNCHANGED <<broker, store, process, history, bounds>>

\* Mutant: a partly filled order is left for somebody else to resolve.
FinalizeSkipsPartial(t) ==
  LET b == broker[th[t].order]
  IN  /\ At(t, "finalize")
      /\ Step(t, IF b.filled > 0 THEN IdleThread
           ELSE [th[t] EXCEPT !.pc = "popClean", !.ret = "idle", !.raw = b.status])
      /\ UNCHANGED <<broker, store, process, history, bounds>>

\* _finalize_cancel_terminal re-reads the order, now with its quantities.
Finalize(t) ==
  LET b == broker[th[t].order]
  IN  /\ At(t, "finalize")
      /\ Step(t, IF b.status = "FILLED"
           THEN [th[t] EXCEPT !.pc = "osGet",
                   !.ret = IF th[t].cancelling THEN "duringCancel" ELSE "idle"]
           ELSE IF b.filled > 0 THEN [th[t] EXCEPT !.pc = "popPartial",
                                                   !.ret = "freezeLoad"]
           ELSE [th[t] EXCEPT !.pc = "popClean", !.ret = "idle",
                   !.raw = map_broker_status(b.status, 0, 0, th[t].cancelling)])
      /\ UNCHANGED <<broker, store, process, history, bounds>>

FinalizeFails(t) ==
  /\ At(t, "finalize")
  /\ Fault
  /\ Step(t, IdleThread)
  /\ UNCHANGED <<broker, store, process, history>>

\* order_status came back (having booked the fill, or found it booked).
DuringCancel(t) ==
  /\ At(t, "duringCancel")
  /\ Step(t, [th[t] EXCEPT !.pc = "settleRead", !.ret = "idle",
                           !.coded = "FILLED_DURING_CANCEL"])
  /\ UNCHANGED <<broker, store, process, history, bounds>>

PopPartial(t) == PopAndSettle(t, "popPartial", "PARTIAL_FILL_CANCELED")

PopClean(t) == PopAndSettle(t, "popClean", th[t].raw)

\* _freeze_for_partial_fill_cancel: again a private copy, saved later.
FreezeLoad(t) ==
  /\ At(t, "freezeLoad")
  /\ Step(t, [th[t] EXCEPT !.pc = "freezeSave", !.copy = store])
  /\ UNCHANGED <<broker, store, process, history, bounds>>

FreezeSave(t) ==
  /\ At(t, "freezeSave")
  /\ store' = [th[t].copy EXCEPT !.review = TRUE]
  /\ Step(t, IdleThread)
  /\ UNCHANGED <<broker, process, history, bounds>>

-----------------------------------------------------------------------------
(* clear_unfilled_order: the operator tidies a record the broker shows     *)
(* dead, or, with force, one the broker cannot be asked about.             *)

BeginClear(t, o) ==
  /\ o \in store.pending
  /\ Begin(t, "clearRead", o, broker[o].intent)

ClearRead(t) ==
  LET b == broker[th[t].order]
  IN  /\ At(t, "clearRead")
      /\ Step(t, [th[t] EXCEPT !.pc =
           IF b.status \in RawTerminal \ {"FILLED"} /\ b.filled = 0
           THEN "clearGet" ELSE "idle"])
      /\ UNCHANGED <<broker, store, process, history, bounds>>

ClearUnverified(t) ==
  /\ At(t, "clearRead")
  /\ Fault
  /\ Step(t, [th[t] EXCEPT !.pc = "clearGet", !.force = TRUE])
  /\ UNCHANGED <<broker, store, process, history>>

\* Here the lock is settled first and the pending record popped after.
ClearGet(t) ==
  LET o == th[t].order
  IN  /\ At(t, "clearGet")
      /\ Step(t, IF o \in store.pending
                 THEN [th[t] EXCEPT !.pc = "settleRead", !.coded = "CANCELED",
                                    !.ret = "clearPop"]
                 ELSE IdleThread)
      /\ forced' = IF th[t].force /\ o \in store.pending
                   THEN forced \cup {o} ELSE forced
      /\ UNCHANGED <<broker, store, process, orphaned, bounds>>

ClearPop(t) ==
  /\ At(t, "clearPop")
  /\ store' = [store EXCEPT !.pending = @ \ {th[t].order}]
  /\ Step(t, IdleThread)
  /\ UNCHANGED <<broker, process, history, bounds>>

-----------------------------------------------------------------------------
(* A crash loses every thread; the start-up sweep re-polls each pending    *)
(* order through order_status before anything else is served.              *)

Crash ==
  /\ up
  /\ crashes < MaxCrashes
  /\ crashes' = crashes + 1
  /\ up' = FALSE
  /\ todo' = {}
  /\ orphaned' = orphaned \cup
       {th[t].order : t \in {u \in Threads : th[u].pc = "savePending"}}
  /\ th' = [t \in Threads |-> IdleThread]
  /\ UNCHANGED <<broker, store, forced, faults>>

Restart ==
  /\ ~up
  /\ up' = TRUE
  /\ todo' = store.pending
  /\ UNCHANGED <<broker, store, th, history, bounds>>

BootPoll(t) ==
  /\ up
  /\ \A u \in Threads : th[u].pc = "idle"
  /\ \E o \in todo :
       /\ todo' = todo \ {o}
       /\ Step(t, [IdleThread EXCEPT !.pc = "osGet", !.order = o,
                     !.intent = broker[o].intent, !.boot = TRUE])
  /\ UNCHANGED <<broker, store, up, history, bounds>>

-----------------------------------------------------------------------------
(* The broker fills, cancels, rejects and expires orders on its own time.  *)

BrokerFills(o) ==
  LET n == broker[o].filled + 1
  IN  /\ AliveAtBroker(o)
      /\ broker' = [broker EXCEPT ![o] =
           [status |-> IF n = Qty THEN "FILLED" ELSE broker[o].status,
            filled |-> n, intent |-> broker[o].intent]]

\* A cancel lands: the app's own, or the operator's at the broker.
BrokerCancels(o) ==
  /\ AliveAtBroker(o)
  /\ broker' = [broker EXCEPT ![o].status = "CANCELED"]

BrokerRejects(o) ==
  /\ broker[o].status = "WORKING" /\ broker[o].filled = 0
  /\ broker' = [broker EXCEPT ![o].status = "REJECTED"]

BrokerExpires(o) ==
  /\ AliveAtBroker(o)
  /\ broker' = [broker EXCEPT ![o].status = "EXPIRED"]

BrokerStep(o) ==
  /\ BrokerFills(o) \/ BrokerCancels(o) \/ BrokerRejects(o) \/ BrokerExpires(o)
  /\ UNCHANGED <<store, th, process, history, bounds>>

-----------------------------------------------------------------------------

PlaceStep(t) ==
  \/ GuardLock(t) \/ GuardPending(t)
  \/ Transmit(t) \/ TransmitRefused(t) \/ TransmitAckLost(t)
  \/ SavePending(t) \/ ReadPriorLock(t) \/ SaveLock(t)

StatusStep(t) ==
  \/ OsGetPending(t) \/ OsRead(t) \/ OsReadFails(t)
  \/ CommitAppend(t) \/ CommitLoad(t) \/ CommitSave(t) \/ CommitPop(t)
  \/ OsPop(t) \/ SettleRead(t) \/ SettleWrite(t)

CancelStep(t) ==
  \/ CancelStatus(t) \/ CancelStatusFails(t)
  \/ DeleteAccepted(t) \/ DeleteRefused(t) \/ DeleteFails(t) \/ RetryDelete(t)
  \/ Confirm(t) \/ Finalize(t) \/ FinalizeFails(t) \/ DuringCancel(t)
  \/ PopPartial(t) \/ PopClean(t) \/ FreezeLoad(t) \/ FreezeSave(t)

ClearStep(t) == ClearRead(t) \/ ClearUnverified(t) \/ ClearGet(t) \/ ClearPop(t)

ThreadStep(t) == PlaceStep(t) \/ StatusStep(t) \/ CancelStep(t) \/ ClearStep(t)

BeginStep(t) ==
  \/ \E i \in Intents : BeginPlace(t, i)
  \/ \E o \in store.pending : BeginPoll(t, o) \/ BeginCancel(t, o) \/ BeginClear(t, o)

Next ==
  \/ \E t \in Threads : BeginStep(t) \/ ThreadStep(t) \/ BootPoll(t)
  \/ \E o \in Orders : BrokerStep(o)
  \/ Crash
  \/ Restart

Spec == Init /\ [][Next]_vars

-----------------------------------------------------------------------------
(* Properties.                                                             *)

\* The type invariant of the whole order path.
TypeOK ==
  /\ broker \in [Orders -> [status : RawTerminal \cup RawLive \cup {NoState},
                            filled : 0..Qty, intent : Intents \cup {NoState}]]
  /\ store \in Store
  /\ th \in [Threads -> Local]
  /\ up \in BOOLEAN
  /\ todo \subseteq Orders /\ orphaned \subseteq Orders /\ forced \subseteq Orders
  /\ faults \in Nat /\ crashes \in Nat

\* A fill is never invented: an order with an execution record, or whose
\* fill was applied to the position, really is FILLED at the broker
\* (order_status commits only after reading FILLED).
BookedOnlyIfFilled ==
  \A o \in Orders : store.execs[o] + store.applied[o] > 0
                      => broker[o].status = "FILLED"

\* The resubmission lock is released only by the broker: a lock in a
\* terminal state names an order that is dead at Schwab, or one the operator
\* force-cleared (_settle_order is reached with a terminal state only after
\* a terminal status was read).
LockNeverFreesLive ==
  \A i \in Intents : LET l == store.locks[i] IN
    l.state \in TERMINAL =>
      l.order \in forced \/ (l.order \in Orders /\ TerminalAtBroker(l.order))

\* An order whose id the app may not hold yet, or has been told to drop.
BeingRecorded(o) ==
  \E t \in Threads : th[t].pc = "savePending" /\ th[t].order = o

Untracked(o) == o \in orphaned \/ o \in forced \/ BeingRecorded(o)

\* cancel_order's promise (executor.py, rule 1): an order still working at
\* Schwab is never dropped from pending_orders.
NeverForgotten ==
  \A o \in Orders : AliveAtBroker(o) => o \in store.pending \/ Untracked(o)

\* NO_RESUBMIT_BEFORE_TERMINAL: of two live orders for one intent at least
\* one is an order the app could not know of.
OneLiveOrder ==
  \A o, p \in Orders :
    o # p /\ AliveAtBroker(o) /\ AliveAtBroker(p)
          /\ broker[o].intent = broker[p].intent
      => {o, p} \cap (orphaned \cup forced) # {}

\* A fill is never lost: once a filled order has left pending_orders it has
\* an execution record and has been applied to the position.
FillBooked ==
  \A o \in Orders :
    broker[o].status = "FILLED" /\ o \notin store.pending /\ ~Untracked(o)
      => store.execs[o] > 0 /\ store.applied[o] > 0

\* One fill is one execution record and one change of the position
\* (settle_pending_orders: two pollers must not both commit the same fill),
\* unless a crash left the commit half done.
BookedOnce ==
  crashes = 0 => \A o \in Orders : store.execs[o] <= 1 /\ store.applied[o] <= 1

\* The books count every fill, and count it once.
FillCounted == FillBooked /\ BookedOnce

\* Every intent the gate holds closed because its order is not terminal has
\* a pending record by which a poll or a sweep can open it again
\* (reconcile_pending_orders_on_startup: "releases or review-locks its intent"),
\* unless a crash fell between the pop and the settle.
Resting == Serving /\ \A t \in Threads : th[t].pc = "idle"

LockHasRecord ==
  Resting /\ crashes = 0 => \A i \in Intents : LET l == store.locks[i] IN
    l.state \notin TERMINAL \cup {NoState} => l.order \in store.pending

\* The transition log: when an order is settled dead, the edge appended
\* (prior_state -> state) is in LEGAL_TRANSITIONS, unless a crash between the
\* settle and the pop makes the start-up sweep settle it again.
DeadSettleLegal ==
  crashes = 0 => \A t \in Threads :
    th[t].pc = "settleWrite" /\ th[t].coded \in TERMINAL \ {"FILLED", "FILLED_DURING_CANCEL"}
      => is_legal_transition(th[t].lock.state, th[t].coded)

\* A lock that holds its intent closed has a way out: a record by which a poll
\* or a sweep finds its order, and a legal transition when it settles it dead.
ClosedLockOpens == LockHasRecord /\ DeadSettleLegal

\* map_broker_status: "A CANCELED with a partial fill is a
\* PARTIAL_FILL_CANCELED, never a clean cancel" - no intent is left open for
\* a new order when the order its lock names died partly filled.
PartialNeverClean ==
  \A i \in Intents : LET l == store.locks[i] IN
    l.state \in {"CANCELED", "EXPIRED"} /\ l.order \notin forced
      => broker[l.order].filled = 0

\* An intent locked for review stays locked: no step of the order path
\* re-opens it (the app "never auto-resubmits out of these").
ReviewLatched ==
  [][\A i \in Intents :
       store.locks[i].state \in {"FILLED_DURING_CANCEL", "PARTIAL_FILL_CANCELED"}
         => store'.locks[i] = store.locks[i]]_vars

-----------------------------------------------------------------------------
(* Liveness.  The scheduler's daemon thread sweeps every tick, so a pending *)
(* order is cancelled again and again; a running thread keeps running; the  *)
(* host restarts a dead process; and Schwab carries out, in the end, a      *)
(* cancel it accepted.                                                      *)

Fairness ==
  /\ \A t \in Threads : WF_vars(ThreadStep(t)) /\ WF_vars(BootPoll(t))
  /\ \A o \in Orders : SF_vars(\E t \in Threads : BeginCancel(t, o))
  /\ \A o \in Orders :
       WF_vars(/\ broker[o].status = "PENDING_CANCEL"
               /\ BrokerCancels(o)
               /\ UNCHANGED <<store, th, process, history, bounds>>)
  /\ WF_vars(Restart)

FairSpec == Spec /\ Fairness

\* No order rests unwatched: a pending record is eventually resolved.
EverySettled == \A o \in Orders : o \in store.pending ~> o \notin store.pending
=============================================================================
