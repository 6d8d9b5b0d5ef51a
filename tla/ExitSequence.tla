---------------------------- MODULE ExitSequence ---------------------------
(***************************************************************************)
(* Getting out of a covered position (src/backend/executor.py,             *)
(* exit_position and the orders it places).                                *)
(*                                                                         *)
(* An exit buys every short call back and sells the shares: on one ticket  *)
(* when the shape allows it, else leg by leg, each waited for to its fill. *)
(* A click and the circuit-breaker pass may run it at the same time; the   *)
(* sweep polls and cancels the same orders; the operator may sell a new    *)
(* call on a free lot.  The broker fills, rejects or cancels each order    *)
(* when it likes, and its answer to a placement may be lost.               *)
(*                                                                         *)
(* A call is one contract, a lot the shares that cover it.  Order polls    *)
(* book and forget an order in one step: what happens between two pollers  *)
(* of one order, and at a crash, is the subject of LiveOrders.  Equity     *)
(* orders are transmitted (EQUITY_ORDER_PLACEMENT_ENABLED).                *)
(***************************************************************************)
EXTENDS Integers, Sequences, FiniteSets, SequencesExt

CONSTANTS
  Exits,        \* threads that may run exit_position
  Calls,        \* option contracts
  StrikeOf,     \* [Calls -> strikes]
  MaxLots,
  MaxOrders,    \* bound on orders
  MaxTroubles   \* bound on lost answers, failed polls and refused cancels

ASSUME ExitAssumption ==
  /\ IsFiniteSet(Calls) /\ DOMAIN StrikeOf = Calls
  /\ {MaxLots, MaxOrders, MaxTroubles} \subseteq Nat

VARIABLES
  held,      \* the account: its short calls and its lots of shares
  order,     \* Seq(Order): the broker's orders, in the order they were placed
  book,      \* the position in state.json: its legs, in order, and its lots
  pending,   \* orders with a pending record
  lost,      \* orders whose answer was lost: live, and without a record
  exit,      \* [Exits -> a run of exit_position]
  crossed,   \* history: a call sale and an exit were under way together
  troubles

vars == <<held, order, book, pending, lost, exit, crossed, troubles>>

Alive == {"working", "canceling"}
Order == [kind : {"unwind", "close", "sell", "open"}, calls : SUBSET Calls,
          lots : 0..MaxLots, status : Alive \union {"filled", "dead"}]
Orders == DOMAIN order
IsAlive(o) == order[o].status \in Alive

(* leg is what the run is about to place or waits for; todo the calls read  *)
(* and not yet bought back; said the outcome of the last run.               *)
Resting == [pc |-> "idle", leg |-> "none", todo |-> << >>, read |-> {},
            order |-> 0, ticket |-> 0, said |-> "none"]

Init ==
  /\ \E calls \in SUBSET Calls, lots \in 1..MaxLots :
       /\ Cardinality(calls) <= lots
       /\ held = [calls |-> calls, lots |-> lots]
       /\ book = [calls |-> SetToSeq(calls), lots |-> lots]
  /\ order = << >> /\ pending = {} /\ lost = {}
  /\ exit = [e \in Exits |-> Resting]
  /\ crossed = FALSE /\ troubles = 0

Trouble == troubles < MaxTroubles /\ troubles' = troubles + 1
Calm == UNCHANGED troubles

---------------------------------------------------------------------------
(* The broker.  It fills no closing order the account cannot deliver on.    *)

BrokerFills(o) ==
  /\ IsAlive(o)
  /\ order' = [order EXCEPT ![o].status = "filled"]
  /\ IF order[o].kind = "open"
       THEN held' = [held EXCEPT !.calls = @ \union order[o].calls]
       ELSE /\ order[o].calls \subseteq held.calls /\ order[o].lots <= held.lots
            /\ held' = [calls |-> held.calls \ order[o].calls, lots |-> held.lots - order[o].lots]
  /\ UNCHANGED <<book, pending, lost, exit, crossed, troubles>>
(* Rejected, expired, or cancelled: a cancel that was asked for, or one at  *)
(* the broker's own site.                                                   *)
BrokerKills(o) ==
  /\ IsAlive(o)
  /\ order' = [order EXCEPT ![o].status = "dead"]
  /\ UNCHANGED <<held, book, pending, lost, exit, crossed, troubles>>
BrokerStep == \E o \in Orders : BrokerFills(o) \/ BrokerKills(o)

---------------------------------------------------------------------------
(* Booking a fill.  A close drops the first leg of its strike.              *)

Without(legs, c) ==
  LET same == {i \in DOMAIN legs : StrikeOf[legs[i]] = StrikeOf[c]} IN
  IF same = {} THEN legs ELSE RemoveAt(legs, Min(same))
_close_short(legs, calls) == FoldLeft(Without, legs, SetToSeq(calls))
_reduce_shares(lots, n) == IF lots > n THEN lots - n ELSE 0

Booked(o) ==
  IF order[o].kind = "open"
    THEN [book EXCEPT !.calls = @ \o SetToSeq(order[o].calls)]
    ELSE [calls |-> _close_short(book.calls, order[o].calls),
          lots |-> _reduce_shares(book.lots, order[o].lots)]

(* Of a dead or filled order the record goes, of a live one it stays.       *)
(* A bug: a cancel in flight is taken for done.                             *)
DropCanceling(o) ==
  /\ book' = IF o \in pending /\ order[o].status = "filled" THEN Booked(o) ELSE book
  /\ pending' = IF order[o].status = "working" THEN pending ELSE pending \ {o}
order_status(o) ==
  /\ book' = IF o \in pending /\ order[o].status = "filled" THEN Booked(o) ELSE book
  /\ pending' = IF IsAlive(o) THEN pending ELSE pending \ {o}

---------------------------------------------------------------------------
(* The sweep and the operator.                                              *)

settle_pending_orders(o) ==
  /\ o \in pending /\ ~IsAlive(o)
  /\ order_status(o)
  /\ UNCHANGED <<held, order, lost, exit, crossed, troubles>>
cancel_stale_orders(o) ==
  /\ o \in pending /\ order[o].status = "working"
  /\ order' = [order EXCEPT ![o].status = "canceling"]
  /\ UNCHANGED <<held, book, pending, lost, exit, crossed, troubles>>

(* Someone is getting out, or may be: an exit runs, or a closing order is   *)
(* alive, not booked yet, or lost.                                          *)
Leaving ==
  \/ \E e \in Exits : exit[e].pc # "idle"
  \/ \E o \in Orders : order[o].kind # "open" /\ (IsAlive(o) \/ o \in pending \union lost)
CallSales == {o \in pending : order[o].kind = "open"}

Enter(kind, calls, lots) ==
  /\ Len(order) < MaxOrders
  /\ order' = Append(order, [kind |-> kind, calls |-> calls, lots |-> lots, status |-> "working"])
(* The operator sells a call on a free lot; one such order at a time.       *)
_sell_short(c) ==
  /\ c \notin Range(book.calls) \union held.calls
  /\ CallSales = {} /\ Len(book.calls) < book.lots
  /\ Enter("open", {c}, 0)
  /\ pending' = pending \union {Len(order')}
  /\ crossed' = (crossed \/ Leaving)
  /\ UNCHANGED <<held, book, lost, exit, troubles>>

---------------------------------------------------------------------------
(* exit_position.                                                           *)

Now(e, run) == exit' = [exit EXCEPT ![e] = run]
Legs(run, todo) ==
  [run EXCEPT !.pc = "place", !.todo = todo, !.order = 0,
              !.leg = IF todo # << >> THEN "close" ELSE "sell"]
Ends(run, said) == [Resting EXCEPT !.said = said]

OneForOne == book.calls # << >> /\ book.lots = Len(book.calls)
Ticketable == OneForOne /\ \A i, j \in DOMAIN book.calls :
                StrikeOf[book.calls[i]] = StrikeOf[book.calls[j]] => i = j
Open == book.calls # << >> \/ book.lots > 0

(* Without a price for the ticket the legs are taken at once.               *)
Begin(e) ==
  /\ exit[e].pc = "idle" /\ Open
  /\ LET run == [Resting EXCEPT !.pc = "place", !.read = Range(book.calls)] IN
     \/ Ticketable /\ Now(e, [run EXCEPT !.leg = "unwind"])
     \/ Now(e, Legs(run, book.calls))
  /\ crossed' = (crossed \/ CallSales # {})
  /\ UNCHANGED <<held, order, book, pending, lost, troubles>>

(* The position is read again and the legs are taken one by one.            *)
FallThrough(run) == Legs([run EXCEPT !.read = Range(book.calls)], book.calls)
(* What the caller is told of a leg that did not fill.                      *)
(* A bug: the next leg is tried.                                            *)
GoesOn(run) ==
  IF run.leg = "close" THEN Legs(run, Tail(run.todo)) ELSE Ends(run, "covered")
(* A bug: the legs are taken after a ticket that did not fill.              *)
LegsOut(run) == IF run.leg = "unwind" THEN FallThrough(run) ELSE Ends(run, "covered")
Stopped(run) == Ends(run, IF run.leg = "sell" THEN "uncovered" ELSE "covered")
(* A leg that never reached the broker, or died there.                      *)
Failed(run) == IF run.leg = "unwind" THEN FallThrough(run) ELSE Stopped(run)

(* What execute() would send for the leg, read from the position now.       *)
Wanted(run) ==
  CASE run.leg = "unwind" -> [kind |-> "unwind", calls |-> Range(book.calls), lots |-> book.lots]
    [] run.leg = "close" -> [kind |-> "close", calls |-> {Head(run.todo)}, lots |-> 0]
    [] run.leg = "sell" -> [kind |-> "sell", calls |-> {}, lots |-> book.lots]
Sent(run) ==
  /\ run.pc = "place"
  /\ run.leg = "unwind" => OneForOne
  /\ run.leg = "sell" => book.lots > 0
  /\ Enter(Wanted(run).kind, Wanted(run).calls, Wanted(run).lots)

Placed(e) ==
  LET id == Len(order') IN
  /\ Sent(exit[e])
  /\ pending' = pending \union {id}
  /\ Now(e, [exit[e] EXCEPT !.pc = "wait", !.order = id,
                            !.ticket = IF exit[e].leg = "unwind" THEN id ELSE @])
  /\ Calm /\ UNCHANGED <<held, book, lost, crossed>>
(* The broker has the order; the answer does not arrive.                    *)
AnswerLost(e) ==
  LET id == Len(order') IN
  /\ Sent(exit[e]) /\ Trouble
  /\ lost' = lost \union {id}
  /\ Now(e, [Failed(exit[e]) EXCEPT !.ticket = IF exit[e].leg = "unwind" THEN id ELSE @])
  /\ UNCHANGED <<held, book, pending, crossed>>
(* No price, a failed preview, a shape that changed.                        *)
Refused(e) ==
  /\ exit[e].pc = "place" /\ ~(exit[e].leg = "sell" /\ book.lots = 0)
  /\ Now(e, Failed(exit[e]))
  /\ Calm /\ UNCHANGED <<held, order, book, pending, lost, crossed>>
NothingToSell(e) ==
  /\ exit[e].pc = "place" /\ exit[e].leg = "sell" /\ book.lots = 0
  /\ Now(e, Ends(exit[e], "ok"))
  /\ Calm /\ UNCHANGED <<held, order, book, pending, lost, crossed>>

(* A leg is over when its fill is booked by this poll.                      *)
(* A bug: a position is taken to hold one call.                             *)
FilledOne(run) == IF run.leg = "close" THEN Legs(run, << >>) ELSE Ends(run, "ok")
Filled(run) ==
  IF run.leg = "close" THEN Legs(run, Tail(run.todo)) ELSE Ends(run, "ok")
_run_leg_to_fill(e) ==
  LET o == exit[e].order IN
  /\ exit[e].pc = "wait" /\ o \in pending /\ ~IsAlive(o)
  /\ order_status(o)
  /\ Now(e, IF order[o].status = "filled" THEN Filled(exit[e]) ELSE Failed(exit[e]))
  /\ Calm /\ UNCHANGED <<held, order, lost, crossed>>
PollRaises(e) ==
  /\ exit[e].pc = "wait" /\ exit[e].order \in pending /\ Trouble
  /\ Now(e, Ends(exit[e], "raised"))
  /\ UNCHANGED <<held, order, book, pending, lost, crossed>>

(* The wait is over: cancel, and stop whatever comes of it.                 *)
CancelSent(e) ==
  LET o == exit[e].order IN
  /\ exit[e].pc = "wait" /\ o \in pending /\ IsAlive(o)
  /\ order' = [order EXCEPT ![o].status = "canceling"]
  /\ Now(e, [exit[e] EXCEPT !.pc = "confirm"])
  /\ Calm /\ UNCHANGED <<held, book, pending, lost, crossed>>
CancelRefused(e) ==
  /\ exit[e].pc = "wait" /\ exit[e].order \in pending /\ IsAlive(exit[e].order) /\ Trouble
  /\ Now(e, Stopped(exit[e]))
  /\ UNCHANGED <<held, order, book, pending, lost, crossed>>

(* It settled, or someone else settled it, since the last poll; or the      *)
(* window for the cancel closes, the order settled or not.                  *)
_cancel_unfilled_leg(e) ==
  LET o == exit[e].order IN
  /\ \/ exit[e].pc = "confirm"
     \/ exit[e].pc = "wait" /\ ~(o \in pending /\ IsAlive(o))
  /\ order_status(o)
  /\ Now(e, Stopped(exit[e]))
  /\ Calm /\ UNCHANGED <<held, order, lost, crossed>>

ExitStep(e) ==
  \/ Placed(e) \/ AnswerLost(e) \/ Refused(e) \/ NothingToSell(e)
  \/ _run_leg_to_fill(e) \/ PollRaises(e)
  \/ CancelSent(e) \/ CancelRefused(e) \/ _cancel_unfilled_leg(e)
Next ==
  \/ BrokerStep
  \/ \E o \in Orders : settle_pending_orders(o) \/ cancel_stale_orders(o)
  \/ \E c \in Calls : _sell_short(c)
  \/ \E e \in Exits : Begin(e) \/ ExitStep(e)
Spec == Init /\ [][Next]_vars

---------------------------------------------------------------------------
(* Properties.                                                              *)

TypeOK ==
  /\ held \in [calls : SUBSET Calls, lots : 0..MaxLots]
  /\ order \in Seq(Order) /\ Len(order) <= MaxOrders
  /\ book.calls \in Seq(Calls) /\ book.lots \in 0..MaxLots
  /\ pending \subseteq Orders /\ lost \subseteq Orders \ pending
  /\ \A e \in Exits : exit[e].pc = "wait" => exit[e].order \in Orders \ lost
  /\ troubles \in 0..MaxTroubles

(* No short call is without its shares ("a naked short, the one shape this  *)
(* must never pass through"), whatever fills, dies, is cancelled or lost,   *)
(* and however often and from where the exit is run.                        *)
Naked == Cardinality(held.calls) > held.lots
NeverNaked == ~Naked
(* The same, as long as no call is being sold while someone is getting out. *)
NakedOnlyIfCrossed == Naked => crossed

(* The legs are not taken on top of a ticket that may still fill, unless    *)
(* its answer was lost ("never leg out on top of it").                      *)
NeverLegsOutOnTop ==
  \A e \in Exits : exit[e].leg \in {"close", "sell"} /\ exit[e].ticket # 0 =>
    ~IsAlive(exit[e].ticket) \/ exit[e].ticket \in lost

(* An exit that reports success has left nothing of what it read, unless a  *)
(* call was being sold meanwhile.                                           *)
OkMeansOut ==
  [][\A e \in Exits : exit[e].pc # "idle" /\ exit'[e].said = "ok" /\ ~crossed =>
       exit[e].read \intersect held'.calls = {} /\ held'.lots = 0]_vars

(* With every order settled and no answer lost, the book is the account:    *)
(* no fill is dropped or booked twice between exit, sweep and cancel.       *)
BookIsAccount ==
  pending = {} /\ lost = {} /\ ~crossed =>
    /\ book.lots = held.lots
    /\ \A s \in Range(StrikeOf) :
         Cardinality({i \in DOMAIN book.calls : StrikeOf[book.calls[i]] = s})
           = Cardinality({c \in held.calls : StrikeOf[c] = s})

(* What the caller reads of a stopped exit ("position still covered") is    *)
(* so: the calls it read are still there.                                   *)
CoveredMeansCovered ==
  [][\A e \in Exits : exit[e].pc # "idle" /\ exit'[e].said = "covered" =>
       exit[e].read \subseteq held'.calls]_vars

=============================================================================
