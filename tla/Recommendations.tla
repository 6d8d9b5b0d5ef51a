--------------------------- MODULE Recommendations ---------------------------
(***************************************************************************)
(* Recommendations of one covered position and the autopilot that acts on  *)
(* them.  A pass (recommendation_runner.run, one at a time under           *)
(* _run_lock) releases deferred records, freezes the market, lets the      *)
(* engine emit or supersede, defers what a blocked window holds back, and  *)
(* rolls the short unattended where the operator granted it.  Which        *)
(* records are open is never stored: it is derived from the records, the   *)
(* dismissals and the executions (trust_derive).  Meanwhile the order poll *)
(* books fills and the operator rolls, dismisses and changes grants.       *)
(*                                                                         *)
(* A step is one access to the state file together with the reads of the   *)
(* market and of the broker before it.  Sending a roll is one step here;   *)
(* RollSubmission takes it apart.  Booking its fill is four: each leg is   *)
(* appended under the lock, then the state is loaded, and saved with the   *)
(* new short, without it.                                                  *)
(***************************************************************************)
EXTENDS Naturals, FiniteSets, SequencesExt

CONSTANTS
  Rolls,       \* the action types a roll of the short has (ROLL_OUT, DEFEND)
  Exits,       \* the action types that close the position
  Clear,       \* NO_ACTION
  Valid,       \* action type -> how long a record stays valid (REC_VALID_HOURS)
  Closed,      \* the instants, from 1, at which the settle gate blocks orders
  End,         \* bound: the last instant
  MaxRecs,     \* bound: records
  MaxOrders,   \* bound: roll orders
  MaxRequests  \* bound: requests of the operator, and freezes

Claims == Rolls \cup Exits

ASSUME RecommendationConstants ==
  /\ Rolls \cap Exits = {} /\ Clear \notin Claims
  /\ Valid \in [Claims \cup {Clear} -> Nat]
  /\ {End, MaxRecs, MaxOrders, MaxRequests} \subseteq Nat
  /\ Closed \subseteq 1..End - 1

VARIABLES
  clock,
  held,      \* the short call the account holds: they are numbered as sold
  orders,    \* roll orders at the broker, in the order sent
  store,     \* state.json: the part this module reads and writes
  pass,      \* the pass under way and its locals
  op,        \* the operator's request under way and its locals
  booking,   \* the booking under way and its locals
  crossed,   \* history: a state was saved that was loaded before another write
  requests   \* bound counter

vars == <<clock, held, orders, store, pass, op, booking, crossed, requests>>
broker == <<held, orders>>

-----------------------------------------------------------------------------
(* The record.  rec_id is the index; of is the short call the ticket buys  *)
(* back; supersedes is 0 for none; settle is the status of the settle      *)
(* block and due its executable_at; seen is history: how many fills the       *)
(* evaluation it comes from knew.                                          *)

Rec(claim, of, at, sup, seen) ==
  [claim |-> claim, of |-> of, at |-> at, supersedes |-> sup,
   settle |-> "none", due |-> 0, seen |-> seen]

IsAction(rec) == rec.claim # Clear
Until(rec)    == rec.at + Valid[rec.claim]
Ids(s)        == DOMAIN s.recs

\* max(..., key=emitted_at): the first of the latest.
Latest(s, rs) ==
  CHOOSE r \in rs : \A q \in rs \ {r} :
    s.recs[q].at < s.recs[r].at \/ (s.recs[q].at = s.recs[r].at /\ r < q)

-----------------------------------------------------------------------------
(* trust_derive.resolve: each fill, in the order of the log, is credited   *)
(* to one record that was a live claim when it happened.                   *)

Successors(s, r) == {q \in Ids(s) : s.recs[q].supersedes = r}

\* A record an ALL_CLEAR replaced stays claimable for what happened before.
Stands(s, r, e) ==
  \/ Successors(s, r) = {}
  \/ LET q == CHOOSE q \in Successors(s, r) : \A p \in Successors(s, r) : q <= p
     IN  ~IsAction(s.recs[q]) /\ e.at <= s.recs[q].at

Claimable(s, e) ==
  {r \in Ids(s) \ s.dismissed :
     /\ IsAction(s.recs[r])
     /\ Stands(s, r, e)
     /\ s.recs[r].at <= e.at /\ e.at <= Until(s.recs[r])}

Chosen(s, e, live) ==
  LET exact == {r \in live : s.recs[r].claim = e.claim}
      rolls == {r \in live : s.recs[r].claim \in Rolls}
  IN  CASE e.src \in live -> e.src
        [] e.src \notin live /\ exact # {} -> Latest(s, exact)
        [] OTHER -> IF rolls # {} THEN Latest(s, rolls) ELSE 0

\* matched: records credited with a fill; differently: records the operator
\* answered with another move; missed: fills no record stood for.
Credited(s, acc, e) ==
  LET live   == Claimable(s, e) \ (acc.matched \cup acc.differently)
      chosen == Chosen(s, e, live)
  IN  IF chosen # 0
      THEN [acc EXCEPT !.matched = @ \cup {chosen}]
      ELSE IF live # {}
           THEN [acc EXCEPT !.differently = @ \cup {Latest(s, live)}]
           ELSE [acc EXCEPT !.missed = @ \cup {e.order}]
Credit(s) ==
  FoldLeft(LAMBDA acc, e : Credited(s, acc, e),
           [matched |-> {}, differently |-> {}, missed |-> {}], s.execs)

Resolved(s) ==
  LET c == Credit(s)
  IN  c.matched \cup c.differently \cup s.dismissed
        \cup {r \in Ids(s) : Successors(s, r) # {}}

\* recompute_derived: the resolutions are stored with what they derive from.
Derived(s) == [s EXCEPT !.resolved = Resolved(s)]

Open(s, now) == {r \in Ids(s) \ s.resolved : now <= Until(s.recs[r])}

OpenActions(s, now) == {r \in Open(s, now) : IsAction(s.recs[r])}

-----------------------------------------------------------------------------
(* The pass. *)

EmptyStore == [recs |-> <<>>, dismissed |-> {}, execs |-> <<>>, short |-> 1,
               granted |-> FALSE, on |-> TRUE, frozen |-> FALSE, subs |-> {},
               resolved |-> {}]

\* now is read once, when the pass begins, and no two begin in one instant;
\* copy is the state the pass loaded last.
NoPass == [pc |-> "idle", now |-> 0, copy |-> EmptyStore, new |-> 0, todo |-> {}]
NoOp   == [pc |-> "idle", copy |-> EmptyStore, rec |-> 0]
NoBooking == [pc |-> "idle", order |-> 0, copy |-> EmptyStore]

Init ==
  /\ clock = 1
  /\ held = 1 /\ orders = <<>>
  /\ store \in {[EmptyStore EXCEPT !.granted = g] : g \in BOOLEAN}
  /\ pass = NoPass /\ op = NoOp /\ booking = NoBooking
  /\ crossed = FALSE /\ requests = 0

Pending(s)  == {r \in Ids(s) : s.recs[r].settle = "PENDING_SETTLE"}
Due(s, now) == {r \in Pending(s) : s.recs[r].due <= now}

\* The settle gate (execution_window): blocked now, and open again when.
Blocked(now)      == now \in Closed
ExecutableAt(now) == CHOOSE t \in now..End : ~Blocked(t) /\ \A u \in now..t - 1 : Blocked(u)

Goes(p)   == pass' = IF p.pc = "idle" THEN [NoPass EXCEPT !.now = p.now] ELSE p
Saves(s)  == store' = s
OnPass(l) == pass.pc = l /\ UNCHANGED <<clock, op, booking, crossed, requests>>
\* The whole state, loaded earlier as copy, is saved without the lock.
SavesOver(copy, s) == Saves(s) /\ crossed' = (crossed \/ store # copy)

\* The freeze checked before the deferred records are looked at.
BeginPassUnlessFrozen ==
  /\ OnPass("idle") /\ pass.now # clock
  /\ Goes([NoPass EXCEPT !.pc = IF store.frozen THEN "idle"
                                ELSE IF Due(store, clock) # {} THEN "release" ELSE "load",
                         !.now = clock, !.copy = store])
  /\ UNCHANGED <<broker, store>>

\* release_pending, then the state of the evaluation, if nothing is due.
BeginPass ==
  /\ OnPass("idle") /\ pass.now # clock
  /\ Goes([NoPass EXCEPT !.pc = IF Due(store, clock) # {} THEN "release" ELSE "load",
                         !.now = clock,
                         !.copy = IF Due(store, clock) # {} THEN store ELSE @])
  /\ UNCHANGED <<broker, store>>

\* What the engine finds when it reads the market, any time: a move, or none.
Verdicts == Claims \cup {Clear}

\* _trigger_still_holds: does the engine still call for the same move?  A pass
\* that could not tell (Unread) does not cancel.
Unread == "unread"

Settled(rec, now, verdict) ==
  IF now > Until(rec) THEN "EXPIRED"
  ELSE IF verdict \in {rec.claim, Unread} THEN "RELEASED"
  ELSE "SELF_CANCELED"

\* s with the pending records of rs marked; the rest are left as they are.
Marked(s, rs, now, verdict) ==
  [s EXCEPT !.recs = [r \in Ids(s) |->
     IF r \in rs \cap Pending(s)
     THEN [s.recs[r] EXCEPT !.settle = Settled(s.recs[r], now, verdict)]
     ELSE s.recs[r]]]

\* Saving the copy loaded before the market was read.
ReleaseOverCopy ==
  /\ OnPass("release")
  /\ \E verdict \in Verdicts :
       Saves(Marked(pass.copy, Due(pass.copy, pass.now), pass.now, verdict))
  /\ Goes([pass EXCEPT !.pc = "load", !.copy = EmptyStore])
  /\ UNCHANGED broker

Release ==
  /\ OnPass("release")
  /\ \E verdict \in Verdicts \cup {Unread} :
       Saves(Marked(store, Due(pass.copy, pass.now), pass.now, verdict))
  /\ Goes([pass EXCEPT !.pc = "load", !.copy = EmptyStore])
  /\ UNCHANGED broker

\* What the evaluation reads of the state.
BookOf(s) == [EmptyStore EXCEPT !.recs = s.recs, !.dismissed = s.dismissed,
                                !.execs = s.execs, !.short = s.short,
                                !.resolved = s.resolved]

\* The reconciliation freeze ends the pass here.
Load ==
  /\ OnPass("load")
  /\ Goes([pass EXCEPT !.pc = IF store.frozen THEN "idle" ELSE "emit",
                       !.copy = IF store.frozen THEN @ ELSE BookOf(store)])
  /\ UNCHANGED <<broker, store>>

\* engine.evaluate over the copy: what it emits for the position, at most one.
\* Proposals are compared by their strikes: a short sold at the strike of the
\* last one (moved = FALSE) looks the same.
Emitted(s, now, verdict, moved) ==
  LET open   == Open(s, now)
      acts   == OpenActions(s, now)
      newest == IF acts = {} THEN 0 ELSE Latest(s, acts)
      same(r) == s.recs[r].claim = verdict /\ (moved => s.recs[r].of = s.short)
  IN  IF verdict # Clear
      THEN IF \E r \in acts : same(r) THEN {}
           ELSE {Rec(verdict, s.short, now, newest, Len(s.execs))}
      ELSE IF acts = {} /\ open # {} THEN {}
           ELSE {Rec(Clear, s.short, now, newest, Len(s.execs))}

EmitAt(stamp) ==
  /\ OnPass("emit")
  /\ \E verdict \in Verdicts, moved \in BOOLEAN :
       LET new == Emitted(pass.copy, pass.now, verdict, moved)
       IN  \/ /\ new = {}
              /\ Goes([pass EXCEPT !.pc = "auto", !.copy = EmptyStore])
              /\ UNCHANGED store
           \/ /\ Len(store.recs) < MaxRecs
              /\ \E rec \in new :
                   Saves(Derived([store EXCEPT !.recs =
                           Append(@, [rec EXCEPT !.at = stamp])]))
              /\ Goes([pass EXCEPT !.pc = "stage", !.copy = EmptyStore,
                                   !.new = Len(store.recs) + 1])
  /\ UNCHANGED broker

\* Stamping the record when it is written.
EmitWhenWritten == EmitAt(clock)

\* Saving the state the pass was evaluated on, with the record.
EmitOverCopy ==
  /\ OnPass("emit")
  /\ \E verdict \in Verdicts : \E rec \in Emitted(pass.copy, pass.now, verdict, TRUE) :
       Saves(Derived([store EXCEPT !.recs = Append(pass.copy.recs, rec),
                                   !.dismissed = pass.copy.dismissed,
                                   !.execs = pass.copy.execs, !.short = pass.copy.short]))
  /\ Goes([pass EXCEPT !.pc = "stage", !.copy = EmptyStore,
                       !.new = Len(pass.copy.recs) + 1])
  /\ UNCHANGED broker

\* append_recommendations; the stamp is the pass's clock.
Emit == EmitAt(pass.now)

\* A pass whose market cannot be read ends in an exception.
EmitFails == OnPass("emit") /\ Goes([pass EXCEPT !.pc = "idle"]) /\ UNCHANGED <<broker, store>>

\* _stage_new, on a fresh state.
Stage ==
  /\ OnPass("stage")
  /\ LET deferred == /\ pass.new \in Ids(store) /\ Blocked(pass.now)
                     /\ IsAction(store.recs[pass.new])
                     /\ store.recs[pass.new].settle = "none"
     IN  IF deferred
         THEN Saves([store EXCEPT !.recs[pass.new].settle = "PENDING_SETTLE",
                                  !.recs[pass.new].due = ExecutableAt(pass.now)])
         ELSE UNCHANGED store
  /\ Goes([pass EXCEPT !.pc = "auto", !.new = 0])
  /\ UNCHANGED broker

\* _check_roll_defend_auto_execute: one load, then each open roll in turn.
AutoLoad ==
  /\ OnPass("auto")
  /\ LET todo == IF store.on /\ store.granted
                 THEN {r \in Open(store, pass.now) : store.recs[r].claim \in Rolls}
                 ELSE {}
     IN  Goes([pass EXCEPT !.pc = IF todo = {} THEN "idle" ELSE "act",
                           !.todo = todo,
                           !.copy = [EmptyStore EXCEPT !.recs = store.recs]])
  /\ UNCHANGED <<broker, store>>

RollOrder(src, of, claim) ==
  [src |-> src, of |-> of, claim |-> claim, status |-> "working"]

\* executor.execute on the record's ticket: refused while frozen, outside the
\* window the pass's clock is in, or for a bad quote (quoted = FALSE), and
\* answered from the submission when its client_order_ref was used before.  The
\* ticket carries no bid and ask, so it records no spread (SpreadWrite).
Refused(r) == store.frozen \/ Blocked(pass.now) \/ r \in store.subs

Sends(r, quoted) ==
  IF Refused(r) \/ ~quoted
  THEN UNCHANGED <<store, orders>>
  ELSE /\ Len(orders) < MaxOrders
       /\ Saves([store EXCEPT !.subs = @ \cup {r}])
       /\ orders' = Append(orders, RollOrder(r, pass.copy.recs[r].of,
                                             pass.copy.recs[r].claim))

Act ==
  /\ OnPass("act")
  /\ LET r    == CHOOSE r \in pass.todo : \A q \in pass.todo : r <= q
         left == pass.todo \ {r}
     IN  /\ \E quoted \in BOOLEAN : Sends(r, quoted)
         /\ Goes([pass EXCEPT !.pc = IF left = {} THEN "idle" ELSE "act",
                              !.todo = left])
  /\ UNCHANGED held

-----------------------------------------------------------------------------
(* The order poll and the broker. *)

Outside == UNCHANGED <<clock, pass, op, requests>>

\* Schwab does not fill a roll of a call the account no longer holds.
Fill(o) ==
  /\ orders[o].status = "working" /\ orders[o].of = held
  /\ orders' = [orders EXCEPT ![o].status = "filled"]
  /\ held' = held + 1
  /\ UNCHANGED <<store, booking, crossed>> /\ Outside

\* What the log says of a roll, whose legs share its roll_group_id: it is
\* dated by its latest leg (map_actions).
Roll(o) == [order |-> o, src |-> orders[o].src, claim |-> orders[o].claim, at |-> clock]

\* The poll begins to book a fill: the leg that was bought back.
BookClose(o) ==
  /\ booking.pc = "idle" /\ orders[o].status = "filled"
  /\ orders' = [orders EXCEPT ![o].status = "booked"]
  /\ Saves(Derived([store EXCEPT !.execs = Append(@, Roll(o))]))
  /\ booking' = [NoBooking EXCEPT !.pc = "sell", !.order = o]
  /\ UNCHANGED <<held, crossed>> /\ Outside

\* The leg that was sold joins it: the last of the log, if it is still there.
WithLeg(execs, roll) ==
  IF execs # <<>> /\ Last(execs).order = roll.order
  THEN [execs EXCEPT ![Len(execs)] = roll]
  ELSE Append(execs, roll)
BookSell ==
  /\ booking.pc = "sell"
  /\ Saves(Derived([store EXCEPT !.execs = WithLeg(@, Roll(booking.order))]))
  /\ booking' = [booking EXCEPT !.pc = "load"]
  /\ UNCHANGED <<broker, crossed>> /\ Outside

\* Both legs are applied to the position.
BookLoad ==
  /\ booking.pc = "load"
  /\ booking' = [booking EXCEPT !.pc = "save", !.copy = store]
  /\ UNCHANGED <<broker, store, crossed>> /\ Outside

BookSave ==
  /\ booking.pc = "save"
  /\ SavesOver(booking.copy, Derived([booking.copy EXCEPT !.short = @ + 1]))
  /\ booking' = NoBooking
  /\ UNCHANGED broker /\ Outside

\* The stale-order sweep, or the broker itself.
CancelStale(o) ==
  /\ orders[o].status = "working"
  /\ orders' = [orders EXCEPT ![o].status = "canceled"]
  /\ UNCHANGED <<held, store, booking, crossed>> /\ Outside

\* Reconciliation freezes the position, or finds it in step again.
Reconcile ==
  /\ requests < MaxRequests /\ requests' = requests + 1
  /\ Saves([store EXCEPT !.frozen = ~@])
  /\ UNCHANGED <<clock, broker, pass, op, booking, crossed>>

-----------------------------------------------------------------------------
(* The operator. *)

Asks ==
  /\ op.pc = "idle" /\ requests < MaxRequests
  /\ requests' = requests + 1
  /\ UNCHANGED <<clock, pass, booking>>

\* A roll by hand: from an open card (its ticket), or from the position.
HandRoll ==
  /\ Asks /\ ~store.frozen /\ ~Blocked(clock)
  /\ Len(orders) < MaxOrders
  /\ \/ \E r \in Open(store, clock) :
          /\ store.recs[r].claim \in Rolls
          /\ orders' = Append(orders, RollOrder(r, store.recs[r].of, store.recs[r].claim))
     \/ \E claim \in Rolls : orders' = Append(orders, RollOrder(0, store.short, claim))
  /\ UNCHANGED <<held, store, op, crossed>>

\* The dismissal checks that the record is open, then appends the override.
DismissRead(r) ==
  /\ Asks /\ r \in Open(store, clock)
  /\ op' = [NoOp EXCEPT !.pc = "dismiss", !.rec = r]
  /\ UNCHANGED <<broker, store, crossed>>

DismissWrite ==
  /\ op.pc = "dismiss"
  /\ Saves(Derived([store EXCEPT !.dismissed = @ \cup {op.rec}]))
  /\ op' = NoOp
  /\ UNCHANGED <<clock, broker, pass, booking, crossed, requests>>

\* Requests that load and save the whole state, the lock not held between.
LoadsAll(pc) ==
  /\ Asks
  /\ op' = [NoOp EXCEPT !.pc = pc, !.copy = store]
  /\ UNCHANGED <<broker, store, crossed>>

SavesAll(pc, s) ==
  /\ op.pc = pc
  /\ SavesOver(op.copy, s)
  /\ op' = NoOp
  /\ UNCHANGED <<clock, broker, pass, booking, requests>>

\* set_permission.
GrantRead  == LoadsAll("grant")
GrantWrite == SavesAll("grant", [op.copy EXCEPT !.granted = ~@])

\* _enforce_spread_quality: a request to trade, any position of the book, that
\* carries a bid and an ask records the spread, which is no part of store.
SpreadRead  == LoadsAll("spread")
SpreadWrite == SavesAll("spread", op.copy)

\* The master switch.
SetEnabled ==
  /\ Asks
  /\ Saves([store EXCEPT !.on = ~@])
  /\ UNCHANGED <<broker, op, crossed>>

-----------------------------------------------------------------------------
(* Time. *)

\* An instant is one in which a pass begins, or the next of a slow pass.
Tick ==
  /\ clock < End /\ clock' = clock + 1
  /\ pass.pc # "idle" \/ pass.now = clock
  /\ UNCHANGED <<broker, store, pass, op, booking, crossed, requests>>

PassStep == BeginPass \/ Release \/ Load \/ Emit \/ EmitFails \/ Stage \/ AutoLoad \/ Act

PollStep == \/ \E o \in DOMAIN orders : BookClose(o)
            \/ BookSell \/ BookLoad \/ BookSave

BrokerStep == \E o \in DOMAIN orders : Fill(o) \/ CancelStale(o)

OperatorStep ==
  \/ HandRoll \/ DismissWrite \/ GrantRead \/ GrantWrite \/ SpreadRead \/ SpreadWrite
  \/ SetEnabled
  \/ \E r \in Ids(store) : DismissRead(r)

Next == PassStep \/ BrokerStep \/ PollStep \/ Reconcile \/ OperatorStep \/ Tick

Spec == Init /\ [][Next]_vars

-----------------------------------------------------------------------------
(* Properties. *)

\* A record stamped no later than a fill its evaluation already knew: the pass
\* read its clock before the fill and the state after it.
Antedated ==
  \E r \in Ids(store) : \E i \in 1..store.recs[r].seen :
    i \in DOMAIN store.execs /\ store.recs[r].at <= store.execs[i].at

\* A record of an evaluation that knew a fill and not the call sold with it:
\* its pass loaded the state while the roll was being booked.
Halfway == \E r \in Ids(store) : store.recs[r].of # 1 + store.recs[r].seen

\* No write was saved over, and no record is antedated or halfway.
InOrder == ~crossed /\ ~Antedated /\ ~Halfway

\* A fill whose booking began stays in the log, whatever pass, deferral or
\* dismissal is written next to it (the phases of release_pending are there
\* for it), until a state is saved that was loaded before another write: by a
\* grant, a recorded spread or the booking itself.
FillsKept ==
  ~crossed => \A o \in DOMAIN orders : orders[o].status = "booked" =>
                \E i \in DOMAIN store.execs : store.execs[i].order = o

\* What a fill, a dismissal or a successor resolved is never open again,
\* although each fill is matched anew on every write and dated anew by its
\* second leg: as long as no write is lost and no record is antedated or
\* halfway, none takes the fill of another.
NeverReopens == [][InOrder' => store.resolved \cap Open(store', clock') = {}]_store

\* An open roll proposes to buy back the call the position is short, so what
\* autopilot loads it may act on: a fill booked while a pass was evaluating
\* resolves the record the pass then emits for the call that is gone.  A pass
\* that loads between the two legs and their application does emit such a
\* record, for the call that is gone: Halfway leaves it out.
OpenClaimIsCurrent ==
  InOrder => \A r \in OpenActions(store, clock) :
               store.recs[r].claim \in Rolls => store.recs[r].of = store.short

\* The code's comment: a record the operator dismissed while the market was
\* read is not released (recommendation_runner.py:494).
DismissedNotReleased ==
  [][\A r \in Ids(store) \cap Ids(store') :
       r \in store.dismissed /\ store.recs[r].settle = "PENDING_SETTLE" =>
         store'.recs[r].settle # "RELEASED"]_vars

\* Passes run at the slots of the day, and time goes on.
FairSpec == Spec /\ WF_vars(PassStep) /\ WF_vars(Tick)

\* A deferred record does not wait for ever: it is released, self-cancelled or
\* expired, also while the book is frozen.  (A state saved over the release
\* defers it again, for the next pass.)
EveryDeferredEnds ==
  \A r \in 1..MaxRecs : r \in Pending(store) ~> (r \notin Pending(store) \/ crossed)

=============================================================================
