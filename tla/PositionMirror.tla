--------------------------- MODULE PositionMirror ---------------------------
(***************************************************************************)
(* One ticker's position, the execution log it mirrors, and the broker     *)
(* both are about (src/backend/executor.py, reconcile.py,                  *)
(* position_heal.py).                                                      *)
(*                                                                         *)
(* The log is append-only; the position is a mirror updated one execution  *)
(* at a time.  Every booking is two writes, an append and then a load ..   *)
(* apply .. save, and a crash may fall in between.  Reconciliation fetches *)
(* the broker's holdings, compares them with the position when the answer  *)
(* is there, and freezes the position on a difference.  position_heal      *)
(* replays the log in date order and repairs the mirror where the broker's *)
(* last holdings agree with the log.                                       *)
(*                                                                         *)
(* The book is the shares-primary one: lots of 100 shares, the calls       *)
(* written on them and a cash-secured put.  Prices, cost bases and the     *)
(* legacy long calls are left out.                                         *)
(***************************************************************************)
EXTENDS Integers, Sequences, FiniteSets, FiniteSetsExt, SequencesExt, TLC

CONSTANTS
  Strikes, Expiries,
  Puts,             \* TRUE: the operator also writes puts
  MaxLots,          \* lots the broker's account ever holds
  MaxEvents,        \* trades and settlements at the broker
  MaxTroubles       \* corrections by the operator, crashes and failed runs

ASSUME MirrorAssumption ==
  /\ Strikes \subseteq Nat \ {0} /\ IsFiniteSet(Strikes)
  /\ Expiries \subseteq Nat \ {0} /\ IsFiniteSet(Expiries)
  /\ Puts \in BOOLEAN
  /\ {MaxLots, MaxEvents, MaxTroubles} \subseteq Nat

(* An instrument of the ticker.  Expiry 0 is an expiry nobody recorded.     *)
Contracts == [strike : Strikes, exp : Expiries]
Equity == [strike |-> 0, exp |-> 0]
Put == [strike |-> 0, exp |-> 1]
PutAsCall == [strike |-> 0, exp |-> 2]   \* a call with the put's strike and expiry
Inst == Contracts \union {Equity, Put, PutAsCall}
Nothing == [i \in Inst |-> 0]

ShareSales == {"sell_shares", "close_shares_assigned"}
Trades == {"buy_shares", "sell_shares", "sell_short", "close_short",
           "put_opened", "put_closed", "put_assigned"}

VARIABLES
  history,      \* what happened at the broker, in order
  broker,       \* [Inst -> Nat]: contracts and lots it holds
  expday,       \* [Expiries -> Nat]: the day it passed, 0 before
  itm,          \* [Expiries -> SUBSET Strikes]: strikes the close was at or above
  log,          \* state["executions"] of the ticker
  pos,          \* the position: status, shares, calls, puts, review
  report,       \* reconciliation.last
  resolutions,  \* reconciliation.resolutions: stable ids
  held,         \* position_drift.held
  job,          \* the writes left of the operation in progress
  fetched,      \* the holdings reconciliation has yet to compare, if any
  deliveries,   \* history: deliveries booked since the report
  fixes, mishaps

vars == <<history, broker, expday, itm, log, pos, report, resolutions, held,
          job, fetched, deliveries, fixes, mishaps>>
market == <<history, broker, expday, itm>>
recon == <<report, resolutions, deliveries>>
book == <<log, pos, recon, held>>
bounds == <<fixes, mishaps>>

Bounded == fixes + Cardinality(mishaps) < MaxTroubles
Mishap(kind) ==
  /\ kind \notin mishaps /\ Bounded
  /\ mishaps' = mishaps \union {kind}
Repairing == Bounded /\ fixes' = fixes + 1

None == "none"
NoReport == [ok |-> FALSE, diffs |-> << >>, view |-> Nothing]
Init ==
  /\ history = << >> /\ broker = Nothing
  /\ expday = [e \in Expiries |-> 0] /\ itm = [e \in Expiries |-> {}]
  /\ log = << >>
  /\ pos = [status |-> None, shares |-> 0, calls |-> << >>, puts |-> 0, review |-> {}]
  /\ report = NoReport
  /\ resolutions = {} /\ held = {}
  /\ job = << >> /\ fetched = << >>
  /\ deliveries = 0
  /\ fixes = 0 /\ mishaps = {}

---------------------------------------------------------------------------
(* The broker.  Calls are covered, a put is sold on an empty account, nothing   *)
(* trades after its expiry.                                                 *)

\* The sum of a function: so many units of each member of its domain.
Total(f) == Cardinality(UNION {{x} \X (1..f[x]) : x \in DOMAIN f})
Written(holdings) == Total([c \in Contracts |-> holdings[c]])

Happens(act, c, change) ==
  /\ Len(history) < MaxEvents
  /\ history' = Append(history, [act |-> act, c |-> c])
  /\ broker' = [i \in Inst |-> broker[i] + change[i]]
  /\ UNCHANGED <<expday, itm, book, job, fetched, bounds>>

Past(e) == expday[e] > 0
Of(i, n) == [Nothing EXCEPT ![i] = n]

BuyLot == broker[Equity] < MaxLots /\ Happens("buy_shares", Equity, Of(Equity, 1))
SellLot ==
  /\ Written(broker) < broker[Equity]
  /\ Happens("sell_shares", Equity, Of(Equity, -1))
SellCall(c) ==
  /\ Written(broker) < broker[Equity]
  /\ ~Past(c.exp)
  /\ Happens("sell_short", c, Of(c, 1))
BuyCallBack(c) ==
  /\ broker[c] > 0 /\ ~Past(c.exp)
  /\ Happens("close_short", c, Of(c, -1))
OpenPut == Puts /\ broker = Nothing /\ Happens("put_opened", Put, Of(Put, 1))
ClosePut == broker[Put] > 0 /\ Happens("put_closed", Put, Of(Put, -1))
AssignPut ==
  /\ broker[Put] > 0 /\ broker[Equity] < MaxLots
  /\ Happens("put_assigned", Put, [Of(Put, -1) EXCEPT ![Equity] = 1])

(* An expiry passes with the close at or above some strikes; the contracts  *)
(* leave the account one by one afterwards.                                 *)
Expire(e) ==
  /\ ~Past(e)
  /\ expday' = [expday EXCEPT ![e] = 2 * Len(history) + 1]
  /\ \E through \in SUBSET Strikes :
       /\ \A s, t \in Strikes : t \in through /\ s < t => s \in through
       /\ itm' = [itm EXCEPT ![e] = through]
  /\ UNCHANGED <<history, broker, book, job, fetched, bounds>>
CalledAway(c) == c.strike \in itm[c.exp]
Settle(c) ==
  /\ broker[c] > 0 /\ Past(c.exp)
  /\ IF CalledAway(c) THEN Happens("called_away", c, [Of(c, -1) EXCEPT ![Equity] = -1])
                      ELSE Happens("expired", c, Of(c, -1))

BrokerStep ==
  \/ BuyLot \/ SellLot \/ OpenPut \/ ClosePut \/ AssignPut
  \/ \E c \in Contracts : SellCall(c) \/ BuyCallBack(c) \/ Settle(c)
  \/ \E e \in Expiries : Expire(e)

---------------------------------------------------------------------------
(* The log and its replay in date order.                                    *)

(* Trade i of the broker's history is dated 2i, a settlement on the day of  *)
(* its expiry, right after the trades that preceded it.                     *)
Execution(day, act, c, n, why) ==
  [day |-> day, act |-> act, c |-> c, n |-> n, why |-> why, void |-> FALSE]

derived_executions == {k \in DOMAIN log : ~log[k].void}
(* Executions of one moment keep the order they were booked in. *)
_history_order_key(j, k) == log[j].day < log[k].day \/ (log[j].day = log[k].day /\ j < k)
(* A bug: replaying the log as it was written. *)
LatestWritten(ks) == Max(ks)
Latest(ks) == CHOOSE k \in ks : \A j \in ks \ {k} : _history_order_key(j, k)
InDateOrder(replay(_, _), start) ==
  MapThenFoldSet(LAMBDA e, acc : replay(acc, e), start, LAMBDA k : log[k], Latest, derived_executions)

_SHARE_ACTIONS == {"buy_shares"} \union ShareSales
ReplayLot(count, e) ==
  IF e.act \notin _SHARE_ACTIONS THEN count
  ELSE IF e.act = "buy_shares" THEN count + e.n
  ELSE IF e.n < count THEN count - e.n ELSE 0
replay_shares_from_log == InDateOrder(ReplayLot, 0)

(* The first n legs of q that satisfy P are taken out. *)
Without(q, P(_), n) ==
  FoldLeft(LAMBDA acc, leg : IF acc.remaining > 0 /\ P(leg) THEN [acc EXCEPT !.remaining = @ - 1]
                             ELSE [acc EXCEPT !.kept = Append(@, leg)],
           [kept |-> << >>, remaining |-> n], q).kept

(* A close pairs with its own expiry; one that never recorded an expiry     *)
(* pairs with any of its strike.                                            *)
Pairs(close, leg) ==
  /\ leg.strike = close.strike
  /\ close.exp = 0 \/ leg.exp = close.exp

ReplayCall(queue, e) ==
  CASE e.act = "sell_short" -> Append(queue, e.c)
    [] e.act = "close_short" -> Without(queue, LAMBDA leg : Pairs(e.c, leg), e.n)
    [] OTHER -> queue
replay_short_calls == InDateOrder(ReplayCall, << >>)

Count(legs, P(_)) == Cardinality({i \in DOMAIN legs : P(legs[i])})

---------------------------------------------------------------------------
(* The position.                                                            *)

Empty(p) == p.shares = 0 /\ p.calls = << >> /\ p.puts = 0
_close_if_empty(p) == IF Empty(p) THEN [p EXCEPT !.status = "closed"] ELSE p
_ensure_position(p) == IF p.status = None THEN [p EXCEPT !.status = "active"] ELSE p

(* Emptiness as the shares paths see it: they do not look at the puts. *)
CloseIfNoCalls(p) ==
  IF p.shares = 0 /\ p.calls = << >> THEN [p EXCEPT !.status = "closed"] ELSE p

(* A bug: any sale empties the shares. *)
SellAll(p, n) == CloseIfNoCalls([p EXCEPT !.shares = 0])
_reduce_shares(p, n) ==
  CloseIfNoCalls([p EXCEPT !.shares = IF n < @ THEN @ - n ELSE 0])

(* The mirror closes the first leg of the strike, whatever its expiry. *)
CloseLegs(p, strike, n) ==
  [p EXCEPT !.calls = Without(@, LAMBDA leg : leg.strike = strike, n)]

_apply_adjustment(p, e) ==
  IF e.c = Equity
  THEN LET q == [p EXCEPT !.shares = @ + e.n] IN CloseIfNoCalls(q)
  ELSE CloseLegs(p, e.c.strike, 1)

Reopened(p) == [p EXCEPT !.status = "active"]

_buy_shares(p, e) == Reopened([p EXCEPT !.shares = @ + e.n])
_sell_short(p, e) == Reopened([p EXCEPT !.calls = Append(@, e.c)])
_close_short(p, e) == CloseLegs(p, e.c.strike, e.n)
_put_opened(p) == [p EXCEPT !.puts = @ + 1]
_put_closed(p) == _close_if_empty([p EXCEPT !.puts = @ - 1])
_put_assigned(p) == Reopened([p EXCEPT !.puts = @ - 1, !.shares = @ + 1])

position_update(p, e) ==
  CASE e.act = "buy_shares" -> _buy_shares(p, e)
    [] e.act \in ShareSales -> _reduce_shares(p, e.n)
    [] e.act = "sell_short" -> _sell_short(p, e)
    [] e.act = "close_short" -> _close_short(p, e)
    [] e.act = "put_opened" -> _put_opened(p)
    [] e.act = "put_closed" -> _put_closed(p)
    [] e.act = "put_assigned" -> _put_assigned(p)
    [] e.act = "adjustment" -> _apply_adjustment(p, e)

---------------------------------------------------------------------------
(* Reconciliation.                                                          *)

(* The last establishing execution tells a live ticker from a paper one.  A *)
(* put is booked "logged" even when it was sold at the broker.              *)
_ticker_liveness ==
  LET last == SelectLastInSeq(log, LAMBDA e : e.act \in {"buy_shares", "put_opened"})
  IN  last > 0 /\ log[last].act = "buy_shares"

(* Contracts held short are counted as contracts, not as negative numbers.  *)
(* A leg is one contract, and legs are keyed by what they are: of two legs  *)
(* of one contract the comparison keeps one (expected_by_key).              *)
expected_view_from_state ==
  IF pos.status \in {None, "closed"} \/ ~_ticker_liveness THEN Nothing
  ELSE [i \in Inst |->
          CASE i = Equity -> pos.shares
            [] i = Put -> pos.puts
            [] OTHER -> IF \E k \in DOMAIN pos.calls : pos.calls[k] = i THEN 1 ELSE 0]

(* closes: the expiries whose close is in the cache.  Without it nothing is *)
(* taken for worthless.                                                     *)
Worthless(c, closes) ==
  c \in Contracts /\ Past(c.exp) /\ c.exp \in closes /\ ~CalledAway(c)

Classify(i, exp, brk, closes) ==
  IF exp # 0 /\ brk # 0 THEN "QUANTITY_MISMATCH"
  ELSE IF exp = 0 THEN "UNEXPECTED_AT_BROKER"
  ELSE IF Worthless(i, closes) THEN "EXPIRED_WORTHLESS_PENDING"
  ELSE "MISSING_AT_BROKER"

(* A diff's id is its place in the report: what the book expects comes      *)
(* first, calls before puts before shares.                                  *)
Rank(d) == <<IF d.exp # 0 THEN 0 ELSE 1, IF d.inst = Equity THEN 2 ELSE IF d.inst = Put THEN 1 ELSE 0,
             d.inst.strike, d.inst.exp>>
Before(a, b) ==
  \E k \in 1..4 : Rank(a)[k] < Rank(b)[k] /\ \A j \in 1..(k - 1) : Rank(a)[j] = Rank(b)[j]
Differences(broker_view, expected_view, closes) ==
  {[class |-> Classify(i, expected_view[i], broker_view[i], closes), inst |-> i,
    exp |-> expected_view[i], brk |-> broker_view[i]] :
      i \in {j \in Inst : expected_view[j] # broker_view[j]}}
Place(diffs, d) == Cardinality({x \in diffs : Before(x, d)}) + 1
Sorted(diffs) == [k \in 1..Cardinality(diffs) |-> CHOOSE d \in diffs : Place(diffs, d) = k]
reconcile(broker_view, expected_view, closes) ==
  Sorted(Differences(broker_view, expected_view, closes))

(* The class and the instrument, neither the quantities nor the occasion. *)
_stable_id(d) == [class |-> d.class, inst |-> d.inst]
Ids(diffs) == {_stable_id(diffs[k]) : k \in DOMAIN diffs}
Benign(id) == id.class = "EXPIRED_WORTHLESS_PENDING"

(* needs_review, with what it is for.  A closed position is never frozen.   *)
reevaluate_freezes(p, rep, res) ==
  IF p.status = None THEN p
  ELSE IF p.status = "closed" THEN [p EXCEPT !.review = {}]
  ELSE [p EXCEPT !.review = {id \in Ids(rep.diffs) : ~Benign(id) /\ id \notin res}]

Fetch ==
  /\ fetched = << >>
  /\ fetched' = <<broker>>
  /\ UNCHANGED <<market, book, job, bounds>>

(* A bug: the failed run re-evaluates the freezes like any other. *)
FailedRunLifts(p) == [p EXCEPT !.review = {}]
(* A failed call leaves a report without diffs and the freezes as they are. *)
FailedRun(p) == p
FetchFails ==
  /\ fetched = << >>
  /\ Mishap("fail")
  /\ report' = NoReport
  /\ pos' = FailedRun(pos)
  /\ deliveries' = 0
  /\ UNCHANGED <<market, log, resolutions, held, job, fetched, fixes>>

(* The answer is compared with the position as it is now.  The pre-market   *)
(* run then heals.                                                          *)
run_reconciliation ==
  /\ fetched # << >>
  /\ fetched' = << >>
  /\ \E closes \in SUBSET Expiries :
       report' = [ok |-> TRUE, view |-> Head(fetched),
                  diffs |-> reconcile(Head(fetched), expected_view_from_state, closes)]
  /\ pos' = reevaluate_freezes(pos, report', resolutions)
  /\ \/ job' = job
     \/ job = << >> /\ job' = <<[do |-> "heal"]>>
  /\ deliveries' = 0
  /\ UNCHANGED <<market, log, resolutions, held, bounds>>

---------------------------------------------------------------------------
(* Bookings: an append, then load .. apply .. save.                         *)

AppendStep(e) == [do |-> "append", e |-> e]
(* tidy: _close_if_empty follows; ids: diffs marked resolved in the same    *)
(* save; strict: a diff that left the report stops the save.                *)
ApplyStep(e, tidy, ids, strict) ==
  [do |-> "apply", e |-> e, tidy |-> tidy, ids |-> ids, strict |-> strict]
Booking(e, tidy) == <<AppendStep(e), ApplyStep(e, tidy, {}, FALSE)>>
HealStep == <<[do |-> "heal"]>>

Resolve(ids) ==
  resolutions' = resolutions \union {_stable_id(report.diffs[k]) : k \in ids \cap DOMAIN report.diffs}

append_execution ==
  /\ job # << >> /\ Head(job).do = "append"
  /\ log' = Append(log, Head(job).e)
  /\ deliveries' = deliveries + (IF Head(job).e.act = "close_shares_assigned" THEN 1 ELSE 0)
  /\ job' = Tail(job)
  /\ UNCHANGED <<market, pos, report, resolutions, held, fetched, bounds>>

(* A mark re-evaluates the freezes; a booking alone does not. *)
Applied(s, res) ==
  LET p == position_update(_ensure_position(pos), s.e)
      q == IF s.tidy THEN _close_if_empty(p) ELSE p
  IN  IF s.ids \cap DOMAIN report.diffs = {} THEN q ELSE reevaluate_freezes(q, report, res)
apply ==
  /\ job # << >> /\ Head(job).do = "apply"
  /\ LET s == Head(job)
         lost == s.strict /\ ~(s.ids \subseteq DOMAIN report.diffs)
     IN  IF lost THEN job' = << >> /\ UNCHANGED <<pos, resolutions>>
         ELSE /\ Resolve(s.ids)
              /\ pos' = Applied(s, resolutions')
              /\ job' = Tail(job)
  /\ UNCHANGED <<market, log, report, deliveries, held, fetched, bounds>>

mark_diff_resolved ==
  /\ job # << >> /\ Head(job).do = "mark"
  /\ Resolve(Head(job).ids)
  /\ pos' = IF Head(job).ids \cap DOMAIN report.diffs = {} THEN pos
            ELSE reevaluate_freezes(pos, report, resolutions')
  /\ job' = Tail(job)
  /\ UNCHANGED <<market, log, report, deliveries, held, fetched, bounds>>

Ready == job = << >>
Start(steps) ==
  /\ Ready
  /\ job' = steps
  /\ UNCHANGED <<market, book, fetched>>

(* The order poll (and the put ticket) books a trade; adoption books one    *)
(* and heals.  Any unbooked trade may be next: a fill lost by the poll is   *)
(* recovered days later.  A new put is refused while the position is frozen.*)
Unbooked(i) ==
  /\ history[i].act \in Trades
  /\ \A k \in DOMAIN log : log[k].day # 2 * i
PutTrade(act) == act \in {"put_opened", "put_closed", "put_assigned"}
TradeExecution(i) == Execution(2 * i, history[i].act, history[i].c, 1, "trade")
_commit(i) ==
  /\ Unbooked(i)
  /\ history[i].act = "put_opened" => pos.review = {}
  /\ history[i].act \in {"put_closed", "put_assigned"} => pos.puts > 0
  /\ Start(Booking(TradeExecution(i), ~PutTrade(history[i].act)))
  /\ UNCHANGED bounds
adopt_broker_trade(i) ==
  /\ Unbooked(i) /\ ~PutTrade(history[i].act)
  /\ Start(Booking(TradeExecution(i), TRUE) \o HealStep)
  /\ UNCHANGED bounds

---------------------------------------------------------------------------
(* Repairs by the operator, from the last report.                           *)

Fix(steps) == Start(steps) /\ Repairing /\ UNCHANGED mishaps
Diff(k) == report.diffs[k]
LegsAt(strike) == {i \in DOMAIN pos.calls : pos.calls[i].strike = strike}

(* Shares move to the broker's count, a call already tracked loses one      *)
(* contract; a leg the position does not have cannot be adjusted.           *)
_adjustment(k) ==
  LET d == Diff(k)
      equity == d.inst = Equity
      n == IF equity THEN d.brk - d.exp ELSE 1
      e == Execution(0, "adjustment", d.inst, n, "adjustment")
  IN  /\ pos.status # None
      /\ equity \/ (d.brk < d.exp /\ LegsAt(d.inst.strike) # {})
      /\ Fix(<<AppendStep(e), ApplyStep(e, FALSE, {k}, FALSE)>>)

(* What expired is booked on that day, what has no expiry or not yet expired now. *)
DayOf(exp) == IF exp \in Expiries /\ Past(exp) THEN expday[exp] ELSE 2 * MaxEvents + 2

(* The close takes the expiry of the first leg the mirror has there.  No    *)
(* look at whether the diff was already resolved.                           *)
FirstExpiry(strike) ==
  IF LegsAt(strike) = {} THEN 0 ELSE pos.calls[Min(LegsAt(strike))].exp
resolve_expiry(k) ==
  LET d == Diff(k)
      c == [strike |-> d.inst.strike, exp |-> FirstExpiry(d.inst.strike)]
      e == Execution(DayOf(d.inst.exp), "close_short", c, d.exp, "expired_worthless")
  IN  /\ d.class = "EXPIRED_WORTHLESS_PENDING"
      /\ Fix(<<AppendStep(e), ApplyStep(e, FALSE, {k}, TRUE)>>)

_is_share_reduction(d) == d.class \in {"MISSING_AT_BROKER", "QUANTITY_MISMATCH"} /\ d.brk < d.exp
Unresolved(d) == _stable_id(d) \notin resolutions

(* The assigned call: the only call diff among the ones asked for, else the *)
(* only leg.                                                                *)
CallDiffs(asked) ==
  {j \in DOMAIN report.diffs :
     Diff(j).inst \in asked /\ Diff(j).class \in {"MISSING_AT_BROKER", "QUANTITY_MISMATCH"}}
AssignedCall(asked) ==
  LET legs == {i \in DOMAIN pos.calls : pos.calls[i] \in asked}
  IN  IF Cardinality(CallDiffs(asked)) = 1 THEN {Diff(j).inst : j \in CallDiffs(asked)}
      ELSE IF Cardinality(legs) = 1 THEN {pos.calls[i] : i \in legs}
      ELSE {}
_commit_assignment(c, n) ==
  LET day == DayOf(c.exp)
      match == [strike |-> c.strike, exp |-> FirstExpiry(c.strike)]
      close == Execution(day, "close_short", match, n, "assigned")
      delivery == Execution(day, "close_shares_assigned", Equity, n, "assigned")
  IN  (IF LegsAt(c.strike) = {} THEN << >> ELSE Booking(close, FALSE)) \o Booking(delivery, FALSE)
record_called_away(k, asked) ==
  LET d == Diff(k)
      n == d.exp - d.brk
      first == IF CallDiffs(asked) = {} THEN {} ELSE {Min(CallDiffs(asked))}
  IN  /\ d.inst = Equity /\ _is_share_reduction(d) /\ Unresolved(d)
      /\ pos.shares >= n
      /\ Ready /\ Repairing
      /\ \E c \in AssignedCall(asked) :
           job' = _commit_assignment(c, n) \o <<[do |-> "mark", ids |-> {k} \union first]>> \o HealStep
      /\ UNCHANGED <<market, book, fetched, mishaps>>

acknowledge_diff(k) ==
  /\ Ready /\ Repairing
  /\ Resolve({k})
  /\ pos' = reevaluate_freezes(pos, report, resolutions')
  /\ UNCHANGED <<market, log, report, deliveries, held, job, fetched, mishaps>>

Rederived(p) == [p EXCEPT !.status = IF Empty(p) THEN "closed" ELSE "active"]

(* The broker's option legs, in any order, replace the calls.  Nothing asks *)
(* whether an option is a call.  The diffs the operator sees are resolved,  *)
(* those of the shares excepted.                                            *)
BrokerLegs ==
  LET short(c) == CASE c \in Contracts -> broker[c] [] c = PutAsCall -> broker[Put]
  IN  {q \in BoundedSeq(Contracts \union {PutAsCall}, MaxLots + 1) :
         \A c \in Contracts \union {PutAsCall} : Count(q, LAMBDA leg : leg = c) = short(c)}
rebuild_position_from_broker ==
  /\ pos.status # None
  /\ broker # Nothing \/ report.diffs # << >>
  /\ \E legs \in BrokerLegs :
       Fix(<<AppendStep(Execution(0, "position_rebuild", Equity, 0, "broker")),
             [do |-> "legs", legs |-> legs, ids |-> {k \in DOMAIN report.diffs : Diff(k).inst # Equity}]>>)
set_legs ==
  /\ job # << >> /\ Head(job).do = "legs"
  /\ Resolve(Head(job).ids)
  /\ pos' = reevaluate_freezes(Rederived([pos EXCEPT !.calls = Head(job).legs]), report, resolutions')
  /\ job' = Tail(job)
  /\ UNCHANGED <<market, log, report, deliveries, held, fetched, bounds>>

RebuiltShares(p) == Rederived([p EXCEPT !.shares = replay_shares_from_log])
RebuiltCalls(p) == Rederived([p EXCEPT !.calls = replay_short_calls])
rebuild_from_log ==
  /\ Ready /\ pos.status # None
  /\ Repairing
  /\ \E p \in {RebuiltShares(pos), RebuiltCalls(pos)} :
       pos' = reevaluate_freezes(p, report, resolutions)
  /\ UNCHANGED <<market, log, recon, held, job, fetched, mishaps>>

(* void_executions (v = TRUE) and restore_executions. *)
SetVoid(k, v) ==
  /\ Ready /\ Repairing
  /\ log[k].void # v
  /\ log' = [log EXCEPT ![k].void = v]
  /\ job' = HealStep
  /\ UNCHANGED <<market, pos, recon, held, fetched, mishaps>>

---------------------------------------------------------------------------
(* position_heal.                                                           *)

(* Same legs; the broker has one line per contract, the log a leg per sale, *)
(* and a line of two is not equal to two legs of one.                       *)
SameLegs(p, q) ==
  \A c \in Contracts \union {PutAsCall} :
    Count(p, LAMBDA l : l = c) = Count(q, LAMBDA l : l = c)
_calls_equal(legs, view) ==
  \A c \in Contracts : Count(legs, LAMBDA l : l = c) = view[c] /\ view[c] <= 1

SharesDrift == pos.shares # replay_shares_from_log
CallsDrift == ~SameLegs(pos.calls, replay_short_calls)
(* A bug: the log is taken without asking the broker. *)
Unconfirmed == TRUE
(* A bug: the broker is compared with the mirror, not with the log. *)
MirrorConfirmed == report.ok /\ report.view[Equity] = pos.shares
SharesConfirmed == report.ok /\ report.view[Equity] = replay_shares_from_log
CallsConfirmed == report.ok /\ _calls_equal(replay_short_calls, report.view)

heal ==
  /\ job # << >> /\ Head(job).do = "heal"
  /\ job' = Tail(job)
  /\ IF pos.status = None THEN held' = {} /\ UNCHANGED pos
     ELSE LET fixShares == SharesDrift /\ SharesConfirmed
              fixCalls == CallsDrift /\ CallsConfirmed
              p == IF fixShares THEN RebuiltShares(pos) ELSE pos
              q == IF fixCalls THEN RebuiltCalls(p) ELSE p
          IN  /\ pos' = IF fixShares \/ fixCalls THEN reevaluate_freezes(q, report, resolutions) ELSE pos
              /\ held' = (IF SharesDrift /\ ~SharesConfirmed THEN {"shares"} ELSE {})
                          \union (IF CallsDrift /\ ~CallsConfirmed THEN {"short_calls"} ELSE {})
  /\ UNCHANGED <<market, log, recon, fetched, bounds>>

Crash ==
  /\ job # << >> \/ fetched # << >>
  /\ Mishap("crash")
  /\ job' = << >> /\ fetched' = << >>
  /\ UNCHANGED <<market, book, fixes>>

---------------------------------------------------------------------------
JobStep == append_execution \/ apply \/ mark_diff_resolved \/ set_legs \/ heal
Repair ==
  \/ rebuild_from_log \/ rebuild_position_from_broker
  \/ \E k \in DOMAIN report.diffs :
       \/ _adjustment(k) \/ resolve_expiry(k) \/ acknowledge_diff(k)
       \/ \E asked \in {Contracts \union {PutAsCall}} \union {{c} : c \in Contracts} :
            record_called_away(k, asked)
  \/ \E k \in DOMAIN log, v \in BOOLEAN : SetVoid(k, v)
Next ==
  \/ BrokerStep
  \/ Fetch \/ FetchFails \/ run_reconciliation
  \/ \E i \in DOMAIN history : _commit(i) \/ adopt_broker_trade(i)
  \/ JobStep \/ Repair \/ Crash

Spec == Init /\ [][Next]_vars
(* The scheduler keeps reconciling and its morning run heals; an operation  *)
(* that was begun goes on.                                                  *)
MorningRun == run_reconciliation /\ job' # job
Fairness == WF_vars(Fetch) /\ SF_vars(MorningRun) /\ WF_vars(JobStep)
FairSpec == Spec /\ Fairness

---------------------------------------------------------------------------
(* Types. *)
Legs == Contracts \union {PutAsCall}
TypeOK ==
  /\ \A i \in Inst : broker[i] \in 0..MaxLots + 1
  /\ pos.status \in {None, "active", "closed"} /\ pos.shares \in Int /\ pos.puts \in 0..MaxEvents
  /\ pos.calls \in Seq(Legs)
  /\ resolutions \union pos.review \subseteq [class : STRING, inst : Inst]
  /\ held \subseteq {"shares", "short_calls"}
  /\ fixes + Cardinality(mishaps) <= MaxTroubles

(* What the log says happened, and when: each trade once, each settlement   *)
(* under its contract and on the day of its expiry.                         *)
Booked(acts, S(_)) ==
  Total([k \in {j \in DOMAIN log : log[j].act \in acts /\ S(log[j])} |-> log[k].n])
Happened(acts, S(_)) == Cardinality({i \in DOMAIN history : history[i].act \in acts /\ S(history[i].c)})
Settlement(e) ==
  \/ e.act = "close_short" /\ e.c \in Contracts /\ e.day = expday[e.c.exp]
  \/ e.act = "close_shares_assigned" /\ \E x \in Expiries : Past(x) /\ e.day = expday[x]
TrueLog ==
  /\ \A k \in DOMAIN log : ~log[k].void
  /\ \A k \in DOMAIN log : log[k].act \in {"close_short", "close_shares_assigned"} =>
       log[k].why = "trade" \/ Settlement(log[k])
  /\ \A i \in DOMAIN history : history[i].act \in Trades =>
       Cardinality({k \in DOMAIN log : log[k].day = 2 * i}) = 1
  /\ \A c \in Contracts :
       Booked({"close_short"}, LAMBDA e : e.c = c)
         = Happened({"close_short", "called_away", "expired"}, LAMBDA d : d = c)
  /\ \A x \in Expiries :
       Booked({"close_shares_assigned"}, LAMBDA e : e.day = expday[x])
         = Happened({"called_away"}, LAMBDA d : expday[d.exp] = expday[x])
PutFree == \A i \in DOMAIN history : ~PutTrade(history[i].act)

(* When the log holds what happened, each thing once, the replay is what    *)
(* the broker holds: in whatever order fills, adoptions and assignments     *)
(* were written (replay_shares_from_log, replay_short_calls).  Puts are     *)
(* left out: no replay reads an assigned put.                               *)
LogIsTruth ==
  TrueLog /\ PutFree =>
    /\ replay_shares_from_log = broker[Equity]
    /\ \A c \in Contracts : Count(replay_short_calls, LAMBDA leg : leg = c) = broker[c]

(* Booked in date order, no trade skipped, and left alone, the mirror is    *)
(* what the replay of the log gives: the shares, and the legs of every      *)
(* strike.  A buy-back whose sale is not booked takes a leg of another      *)
(* expiry off the mirror, and none off the replay.                          *)
InOrder == \A j, k \in DOMAIN log : j < k => log[j].day < log[k].day
NoneSkipped ==
  \A i, j \in DOMAIN history :
    i < j /\ history[i].act \in Trades /\ Unbooked(i) => \A k \in DOMAIN log : log[k].day # 2 * j
MirrorInStep ==
  Ready /\ fixes = 0 /\ "crash" \notin mishaps /\ PutFree /\ InOrder /\ NoneSkipped =>
    /\ pos.shares = replay_shares_from_log
    /\ \A s \in Strikes :
         Count(pos.calls, LAMBDA leg : leg.strike = s)
           = Count(replay_short_calls, LAMBDA leg : leg.strike = s)

(* A closed position holds nothing, so nothing is hidden from               *)
(* reconciliation.  Puts and share adjustments are left out: neither        *)
(* reopens a closed position.                                               *)
ClosedHoldsNothing ==
  pos.status = "closed" /\ PutFree /\ (\A k \in DOMAIN log : log[k].act # "adjustment") => Empty(pos)

\* What the account holds stays in sight: of the replay, and of reconciliation.
NothingHidden == LogIsTruth /\ ClosedHoldsNothing

(* A freeze stands until its diff is resolved, a successful run looks       *)
(* again, or the position closes: a failed run does not lift it             *)
(* (apply_report_to_state).  After a failed run the diffs are gone and any  *)
(* re-evaluation lifts it, hence the report in the premise.                 *)
FrozenUntilResolved ==
  [][report.ok /\ pos'.status # "closed" =>
       \A id \in pos.review :
         id \in pos'.review \/ id \in resolutions' \/ (report' # report /\ report'.ok)]_vars

(* A position that is what the broker holds is not changed by a heal whose  *)
(* report is current: a correction without a trade behind it stays.  A sold *)
(* put that was rebuilt as a call is not what the broker holds.             *)
HealKeepsCorrections ==
  [][heal /\ report.view = broker =>
       /\ pos.shares = broker[Equity] => pos'.shares = pos.shares
       /\ (\A c \in Legs : Count(pos.calls, LAMBDA leg : leg = c) = broker[c]) =>
            SameLegs(pos'.calls, pos.calls)]_vars

(* When the log ends up true, every trade whatever order it was booked in,  *)
(* the mirror ends up what the broker holds, nothing held back.  A contract *)
(* sold twice is left out: _calls_equal takes two legs of one for different *)
(* from the broker's line of two.                                           *)
Mirrored ==
  /\ pos.shares = broker[Equity]
  /\ \A c \in Contracts : Count(pos.calls, LAMBDA leg : leg = c) = broker[c]
  /\ held = {}
HealConverges ==
  <>[](TrueLog /\ PutFree /\ pos.status # None /\ (\A c \in Contracts : broker[c] <= 1)) => <>[]Mirrored

(* A divergence the previous successful run did not find freezes the        *)
(* position.  It does not when the same contract diverged before and was    *)
(* resolved: resolutions are never forgotten.                               *)
DivergenceFreezes ==
  [][run_reconciliation /\ report.ok /\ pos.status = "active" =>
       \A id \in Ids(report'.diffs) \ Ids(report.diffs) : Benign(id) \/ id \in pos'.review]_vars

(* With every trade booked by the app, no run reports one as unexpected at  *)
(* the broker.                                                              *)
AllBooked == \A i \in DOMAIN history : history[i].act \in Trades /\ ~Unbooked(i)
AppFillNotUnexpected ==
  [][run_reconciliation /\ Ready /\ fixes = 0 /\ mishaps = {} /\ AllBooked =>
       \A id \in Ids(report'.diffs) : id.class # "UNEXPECTED_AT_BROKER"]_vars

(* A report has one share diff, and it is booked as called away once.       *)
DeliveryBookedOnce == deliveries <= 1
=============================================================================
