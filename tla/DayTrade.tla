------------------------------ MODULE DayTrade ------------------------------
(***************************************************************************)
(* The day-trade sleeve of one account on one day (src/backend/daytrade):  *)
(* signals.py's state machine, the paper adapter and its trade log, the    *)
(* bar file, and the scheduler's jobs.                                     *)
(*                                                                         *)
(* No machine state is kept between two runs.  Each run rebuilds it from   *)
(* the signals journal, replays the candles after the last journaled event *)
(* of each symbol, saves the trade log and then appends its new events; it *)
(* reads the budget and the trial's progress afresh.  A run may fail and   *)
(* the process may stop, between the two writes too.                       *)
(*                                                                         *)
(* Candles are numbered; the one with number k starts when the clock shows *)
(* k, and number End starts as the window ends.  Only long trades: the     *)
(* short side mirrors them.  R-multiples are counted in quarters.          *)
(***************************************************************************)
EXTENDS Integers, Sequences, SequencesExt, FiniteSets, FiniteSetsExt, TLC

CONSTANTS
  N,            \* symbols of the screen, in pick order
  End,          \* candles of the window
  Tapes,        \* the days the market can have: tape[s][k] is a candle
  Budgets,      \* what the account's dry powder may be when a run reads it
  TrialLeft,    \* closed trades the paper trial still waits for
  MaxTrades, MaxLosses, DayStop,        \* DAYTRADE_MAX_TRADES_PER_DAY, ...
  MaxFaults     \* failed fetches and runs, crashes and rescans, taken together

Symbols == 1..N
Candles == 1..End
Candle == [open : Nat, high : Nat, low : Nat, close : Nat, volume : Nat]

ASSUME DayTradeAssumption ==
  /\ {N, End, MaxTrades, MaxLosses, DayStop} \subseteq Nat \ {0}
  /\ {TrialLeft, MaxFaults} \subseteq Nat
  /\ Budgets \subseteq Nat
  /\ Tapes \subseteq [Symbols -> [Candles -> Candle]]

Risk == 2                \* atr14 / DAYTRADE_STOP_ATR_DIVISOR, in ticks of price
PriorHigh == 10
Expiry == 2              \* DAYTRADE_ENTRY_EXPIRY_CANDLES
VolumeMult == <<3, 2>>   \* DAYTRADE_SETUP_VOLUME_MULT
FullTarget == 2 * Risk
TrailLoose == Risk
TrailTight == Risk \div 2
RiskPct == 10            \* per mille of the budget, as the next two
PositionPct == 15
DeployPct == 150

VARIABLES
  tape,         \* the day's candles, as the provider first shows each
  now,          \* number of the newest candle; End + 1 after the window's last minute
  picks,        \* the symbols in today's screen file
  logged,       \* [Symbols -> 0..End]: candles in the bar file
  last_fetch,   \* _last_bar_fetch
  finalized,    \* _last_signals_finalize_day is today
  journal,      \* signals.jsonl
  trades,       \* trades.json
  pc,           \* the scheduler thread: "idle", "signals", "replay" or "flushed"
  sym, day,     \* run_day: the machines and the day's guardrails
  adapter,      \* run_day: the adapter's copy of the trade log
  todo,         \* run_day: candles still to process, as <<symbol, number>>
  new_events,   \* run_day: events to append
  outages, fails, crashes, rescans,
  broken        \* history: the last run failed

machine == <<sym, day, adapter, todo, new_events>>
files == <<logged, journal, trades>>
jobs == <<last_fetch, finalized>>
faults == <<outages, fails, crashes, rescans, broken>>
vars == <<tape, now, picks, files, jobs, pc, machine, faults>>

TerminalKinds == {"stop_out", "breakeven_exit", "trail_stop", "time_cutoff"}

R4(x) == (4 * x) \div Risk        \* a move of the price, in quarters of R
HalfR4(x) == R4(Risk) \div 2 + R4(x) \div 2   \* half the size made 1R, half made x

NewSymbol ==
  [status |-> "watching", seen |-> 0, volume |-> 0, high |-> 0, setup_at |-> 0,
   waited |-> 0, entry |-> 0, stop |-> 0, half_at |-> 0, hwm |-> 0,
   tight |-> FALSE, size |-> 0, last_bar |-> 0]

NewDay(equity, enabled) ==
  [equity |-> equity, enabled |-> enabled, taken |-> 0, deployed |-> 0,
   losses |-> 0, r |-> 0, stopped |-> FALSE]

Event(s, kind, k) ==
  [symbol |-> s, event |-> kind, at |-> k, setup_at |-> 0, high |-> 0,
   price |-> 0, size |-> 0, r |-> 0]
Id(e) == <<e.symbol, e.event, e.at>>

block_reason == ~day.enabled \/ day.stopped \/ day.taken >= MaxTrades

record_trade_result(d, r) ==
  LET losses == d.losses + IF r < 0 THEN 1 ELSE 0
  IN [d EXCEPT !.r = @ + r, !.losses = losses,
               !.stopped = @ \/ losses >= MaxLosses \/ d.r + r >= DayStop]

-----------------------------------------------------------------------------
(* PaperAdapter: a fill that is already on file is not made again.         *)

enter(log, id, price, size, k) ==
  IF id \in DOMAIN log THEN log
  ELSE (id :> [price |-> price, size |-> size, at |-> k, exits |-> {},
               status |-> "open", r |-> 0]) @@ log

exit(log, id, kind, price, size, k, r) ==
  LET row == log[id]
      fill == [kind |-> kind, at |-> k, price |-> price, size |-> size]
      closed == [row EXCEPT !.status = "closed", !.r = r]
      booked == IF kind \in TerminalKinds THEN closed ELSE row
  IN IF \E x \in row.exits : x.kind = kind /\ x.at = k THEN log
     ELSE [log EXCEPT ![id] = [booked EXCEPT !.exits = @ \union {fill}]]

-----------------------------------------------------------------------------
(* A run starts: the machines from the journal, the trail from the candles. *)

\* In the order of the file: the code sorts by "datetime", a key no event has.
load_signals == journal

\* Events of a symbol that left the screen are not read.
Existing == SelectSeq(load_signals, LAMBDA e : e.symbol \in picks)
Own(events, s) == SelectSeq(events, LAMBDA e : e.symbol = s)

\* A fold that evaluates every intermediate value once.
Folded(op(_, _), start, seq) ==
  FoldLeft(LAMBDA acc, x : CHOOSE r \in {op(a, x) : a \in {acc}} : TRUE, start, seq)

Rehydrated(y, e) ==
  CASE e.event = "setup" ->
         [y EXCEPT !.status = "armed", !.high = e.high, !.setup_at = e.at, !.waited = 0]
    [] e.event \in {"expired", "entry_skipped"} \union TerminalKinds ->
         [y EXCEPT !.status = "watching"]
    [] e.event = "entry" ->
         [y EXCEPT !.status = "in_trade", !.entry = e.price, !.stop = e.price - Risk,
                   !.size = e.size, !.setup_at = e.setup_at, !.half_at = 0]
    [] e.event = "half_target" -> [y EXCEPT !.half_at = e.at, !.stop = y.entry]
    [] OTHER -> y

\* Mutant of Counted: a later run forgets the results.
CountedEntriesOnly(d, e) == IF e.event = "entry" THEN [d EXCEPT !.taken = @ + 1] ELSE d

Counted(d, e) ==
  CASE e.event = "entry" -> [d EXCEPT !.taken = @ + 1]
    [] e.event \in TerminalKinds -> record_trade_result(d, e.r)
    [] OTHER -> d

resume_at(own) == IF own = <<>> THEN 0 ELSE Last(own).at

_advance_trail(y, bar) ==
  LET hwm == Max({y.hwm, bar.high})
      tight == y.tight \/ hwm - y.entry >= FullTarget
      dist == IF tight THEN TrailTight ELSE TrailLoose
  IN [y EXCEPT !.hwm = hwm, !.tight = tight, !.stop = Max({@, hwm - dist, y.entry})]

\* Mutant of _restore_trail: the trail starts again at the next candle.
_trail_lost(s, y, resume) == y

\* The trail is not journaled: fold the candles since the half target again.
_restore_trail(s, y, resume) ==
  LET open == y.status = "in_trade" /\ y.half_at # 0
      again == IF open THEN resume - y.half_at + 1 ELSE 0
      fold(z, i) == LET k == y.half_at + i - 1
                    IN [_advance_trail(z, tape[s][k]) EXCEPT !.last_bar = k]
  IN Folded(fold, y, [i \in 1..again |-> i])

_rehydrate(s, own) ==
  _restore_trail(s, Folded(Rehydrated, NewSymbol, own), resume_at(own))

\* The candles on file after the last event of their symbol, by time and symbol.
Bars(resume) ==
  FlattenSeq([k \in Candles |->
    SelectSeq([s \in Symbols |-> <<s, k>>],
              LAMBDA b : b[1] \in picks /\ k <= logged[b[1]] /\ k > resume[b[1]])])

window_over == now >= End
entries_enabled == Cardinality({t \in DOMAIN trades : trades[t].status = "closed"})
                     < TrialLeft

run_day ==
  /\ pc = "signals"
  /\ pc' = "replay"
  /\ \E existing \in {Existing} :
       /\ sym' = [s \in Symbols |-> _rehydrate(s, Own(existing, s))]
       /\ \E equity \in Budgets :
            day' = Folded(Counted, NewDay(equity, entries_enabled), existing)
       /\ \E resume \in {[s \in Symbols |-> resume_at(Own(existing, s))]} :
            todo' = Bars(resume)
  /\ adapter' = trades
  /\ new_events' = <<>>
  /\ UNCHANGED <<tape, now, picks, files, jobs, faults>>

-----------------------------------------------------------------------------
(* The replay: one candle of one symbol after another.                     *)

S == todo[1][1]
K == todo[1][2]
Bar == tape[S][K]
At(status) == pc = "replay" /\ todo # <<>> /\ sym[S].status = status

\* The candle is done: the symbol's new machine, which has seen its volume.
Done(y, events) ==
  /\ sym' = [sym EXCEPT ![S] = [y EXCEPT !.seen = @ + 1, !.volume = @ + Bar.volume]]
  /\ todo' = Tail(todo)
  /\ new_events' = new_events \o events
  /\ UNCHANGED <<tape, now, picks, files, jobs, pc, faults>>

_setup_direction ==
  /\ sym[S].seen > 0
  /\ VolumeMult[2] * Bar.volume * sym[S].seen >= VolumeMult[1] * sym[S].volume
  /\ Bar.close > PriorHigh

Watch ==
  /\ At("watching") /\ ~_setup_direction
  /\ Done(sym[S], <<>>)
  /\ UNCHANGED <<day, adapter>>

SkipSetup ==
  /\ At("watching") /\ _setup_direction /\ block_reason
  /\ Done(sym[S], <<Event(S, "setup_skipped", K)>>)
  /\ UNCHANGED <<day, adapter>>

Arm ==
  /\ At("watching") /\ _setup_direction /\ ~block_reason
  /\ Done([sym[S] EXCEPT !.status = "armed", !.high = Bar.high, !.setup_at = K,
                         !.waited = 0],
          <<[Event(S, "setup", K) EXCEPT !.high = Bar.high]>>)
  /\ UNCHANGED <<day, adapter>>

_triggered == Bar.high >= sym[S].high
Waited == [sym[S] EXCEPT !.waited = @ + 1]
Note(kind) == [Event(S, kind, K) EXCEPT !.setup_at = sym[S].setup_at]
trade_id == <<S, sym[S].setup_at>>

Wait ==
  /\ At("armed") /\ ~_triggered /\ Waited.waited < Expiry
  /\ Done(Waited, <<>>)
  /\ UNCHANGED <<day, adapter>>

Expire ==
  /\ At("armed") /\ ~_triggered /\ Waited.waited >= Expiry
  /\ Done([Waited EXCEPT !.status = "watching"], <<Note("expired")>>)
  /\ UNCHANGED <<day, adapter>>

EntrySize(price) ==
  LET shares(money) == IF money > 0 THEN money \div (1000 * price) ELSE 0
  IN Min({shares(day.equity * PositionPct), (day.equity * RiskPct) \div (1000 * Risk),
          shares(day.equity * DeployPct - 1000 * day.deployed)})

SkipEntry ==
  /\ At("armed") /\ _triggered
  /\ block_reason \/ EntrySize(sym[S].high) = 0
  /\ Done([Waited EXCEPT !.status = "watching"], <<Note("entry_skipped")>>)
  /\ UNCHANGED <<day, adapter>>

_enter_trade ==
  /\ At("armed") /\ _triggered
  /\ ~block_reason /\ EntrySize(sym[S].high) > 0
  /\ adapter' = enter(adapter, trade_id, sym[S].high, EntrySize(sym[S].high), K)
  /\ LET fill == adapter'[trade_id]
     IN /\ Done([Waited EXCEPT !.status = "in_trade", !.entry = fill.price,
                               !.stop = fill.price - Risk, !.half_at = 0, !.hwm = 0,
                               !.tight = FALSE, !.size = fill.size, !.last_bar = K],
                <<[Note("entry") EXCEPT !.price = fill.price, !.size = fill.size]>>)
        /\ day' = [day EXCEPT !.taken = @ + 1, !.deployed = @ + fill.price * fill.size]

\* Mutant of Remaining: an odd share stays behind.
RemainingHalf(y) == IF y.half_at # 0 THEN y.size \div 2 ELSE y.size

Remaining(y) == IF y.half_at # 0 THEN y.size - y.size \div 2 ELSE y.size

\* _exit_fill and record_trade_result for the whole rest of symbol s.
Leave(s, kind, k, price, r) ==
  /\ adapter' = exit(adapter, <<s, sym[s].setup_at>>, kind, price, Remaining(sym[s]), k, r)
  /\ day' = record_trade_result(day, r)
Left(kind, price, r) ==
  /\ Leave(S, kind, K, price, r)
  /\ Done([sym[S] EXCEPT !.status = "watching"],
          <<[Note(kind) EXCEPT !.price = price, !.r = r]>>)

StopOut ==
  /\ At("in_trade") /\ sym[S].half_at = 0
  /\ Bar.low <= sym[S].stop
  /\ Left("stop_out", sym[S].stop, -R4(Risk))

Hold ==
  /\ At("in_trade") /\ sym[S].half_at = 0
  /\ Bar.low > sym[S].stop /\ Bar.high < sym[S].entry + Risk
  /\ Done([sym[S] EXCEPT !.last_bar = K], <<>>)
  /\ UNCHANGED <<day, adapter>>

\* Half leaves at 1R; the same candle is then looked at again for the rest.
HalfTarget ==
  LET y == sym[S]  price == y.entry + Risk
  IN /\ At("in_trade") /\ y.half_at = 0
     /\ Bar.low > y.stop /\ Bar.high >= price
     /\ adapter' = exit(adapter, trade_id, "half_target", price, y.size \div 2, K, R4(Risk))
     /\ sym' = [sym EXCEPT ![S] = [y EXCEPT !.half_at = K, !.stop = y.entry]]
     /\ new_events' = Append(new_events, [Note("half_target") EXCEPT !.price = price])
     /\ UNCHANGED <<tape, now, picks, files, jobs, pc, day, todo, faults>>

\* The rest rides the stop set by the candles before; a gap fills at the open.
TrailStop ==
  LET y == sym[S]  price == Min({y.stop, Bar.open})
  IN /\ At("in_trade") /\ y.half_at # 0
     /\ Bar.low <= y.stop
     /\ Left(IF y.stop # y.entry THEN "trail_stop" ELSE "breakeven_exit",
             price, HalfR4(price - y.entry))

Trail ==
  LET y == _advance_trail(sym[S], Bar)
  IN /\ At("in_trade") /\ sym[S].half_at # 0
     /\ Bar.low > sym[S].stop
     /\ Done([y EXCEPT !.last_bar = K],
             IF y.tight /\ ~sym[S].tight THEN <<Note("trail_tighten")>> ELSE <<>>)
     /\ UNCHANGED <<day, adapter>>

-----------------------------------------------------------------------------
(* The end of a run: the cutoff, the trade log, the journal.               *)

Uncut == {s \in Symbols : window_over /\ sym[s].status = "in_trade" /\ sym[s].last_bar # 0}
Replayed == pc = "replay" /\ todo = <<>>

_finalize_open_trades ==
  /\ Replayed /\ Uncut # {}
  /\ LET s == Min(Uncut)
         y == sym[s]
         price == tape[s][y.last_bar].close
         r == IF y.half_at # 0 THEN HalfR4(price - y.entry) ELSE R4(price - y.entry)
         ev == [Event(s, "time_cutoff", y.last_bar) EXCEPT
                  !.setup_at = y.setup_at, !.price = price, !.r = r]
     IN /\ Leave(s, "time_cutoff", y.last_bar, price, r)
        /\ sym' = [sym EXCEPT ![s].status = "watching"]
        /\ new_events' = Append(new_events, ev)
  /\ UNCHANGED <<tape, now, picks, files, jobs, pc, todo, faults>>

Forgotten ==
  /\ sym' = [s \in Symbols |-> NewSymbol] /\ day' = NewDay(0, FALSE)
  /\ adapter' = <<>> /\ todo' = <<>>

Completed == pc' = "idle" /\ broken' = FALSE

flush ==
  /\ Replayed /\ Uncut = {}
  /\ trades' = adapter
  /\ new_events' =
       SelectSeq(new_events, LAMBDA e : \A i \in DOMAIN journal : Id(journal[i]) # Id(e))
  /\ IF new_events' = <<>> THEN Completed ELSE pc' = "flushed" /\ UNCHANGED broken
  /\ Forgotten
  /\ UNCHANGED <<tape, now, picks, logged, journal, jobs, outages, fails, crashes, rescans>>

append_signals ==
  /\ pc = "flushed"
  /\ journal' = journal \o new_events
  /\ new_events' = <<>> /\ Completed
  /\ UNCHANGED <<tape, now, picks, logged, trades, jobs, sym, day, adapter, todo>>
  /\ UNCHANGED <<outages, fails, crashes, rescans>>

-----------------------------------------------------------------------------
Init ==
  /\ tape \in Tapes
  /\ now = 0
  /\ picks = Symbols
  /\ logged = [s \in Symbols |-> 0]
  /\ last_fetch = -1 /\ finalized = FALSE
  /\ journal = <<>> /\ trades = <<>>
  /\ pc = "idle" /\ new_events = <<>>
  /\ sym = [s \in Symbols |-> NewSymbol] /\ day = NewDay(0, FALSE)
  /\ adapter = <<>> /\ todo = <<>>
  /\ outages = 0 /\ fails = 0 /\ crashes = 0 /\ rescans = 0 /\ broken = FALSE

\* Time moves between two ticks; a tick keeps the time it started with.
Clock ==
  /\ pc = "idle" /\ now <= End
  /\ now' = now + 1
  /\ UNCHANGED <<tape, picks, files, jobs, pc, machine, faults>>

\* bars.ingest: every candle of today, or none for a symbol whose fetch fails.
_maybe_bar_ingest ==
  /\ pc = "idle" /\ now \in 1..End /\ last_fetch # now
  /\ last_fetch' = now
  /\ \E failed \in SUBSET picks :
       /\ outages' = outages + IF failed = {} THEN 0 ELSE 1
       /\ outages' + fails + crashes + rescans <= MaxFaults
       /\ logged' = [s \in Symbols |-> IF s \in picks \ failed THEN now ELSE logged[s]]
  /\ pc' = "signals"
  /\ UNCHANGED <<tape, now, picks, finalized, journal, trades, machine>>
  /\ UNCHANGED <<fails, crashes, rescans, broken>>

_maybe_finalize_signals ==
  /\ pc = "idle" /\ window_over /\ ~finalized
  /\ finalized' = TRUE
  /\ pc' = "signals"
  /\ UNCHANGED <<tape, now, picks, files, last_fetch, machine, faults>>

MayFail == outages + fails + crashes + rescans < MaxFaults

\* _run_signals swallows whatever goes wrong in a run; its caller has already
\* noted the fetch or the sweep as done.  A replay writes nothing, so a run that
\* fails in one is the run that fails before it.
_run_signals_fails ==
  /\ MayFail /\ pc \in {"signals", "flushed"}
  /\ fails' = fails + 1 /\ broken' = TRUE
  /\ pc' = "idle" /\ new_events' = <<>> /\ Forgotten
  /\ UNCHANGED <<tape, now, picks, files, jobs, outages, crashes, rescans>>

\* Mutant of Crash: the scheduler remembers that it swept, not whether it finished.
CrashKeepsDay ==
  /\ MayFail /\ pc # "replay"
  /\ crashes' = crashes + 1
  /\ last_fetch' = -1
  /\ pc' = "idle" /\ new_events' = <<>> /\ Forgotten
  /\ UNCHANGED <<tape, now, picks, files, finalized, outages, fails, rescans, broken>>

\* The process stops and starts again: the scheduler forgets what it did today.
\* In a replay nothing has been written since its start, and the crash is the
\* one before it.
Crash ==
  /\ MayFail /\ pc # "replay"
  /\ crashes' = crashes + 1
  /\ last_fetch' = -1 /\ finalized' = FALSE
  /\ pc' = "idle" /\ new_events' = <<>> /\ Forgotten
  /\ UNCHANGED <<tape, now, picks, files, outages, fails, rescans, broken>>

\* "Rescan now" replaces today's screen by what qualifies at the moment.
Rescan ==
  /\ MayFail /\ pc \in {"idle", "signals"}
  /\ rescans' = rescans + 1
  /\ picks' \in SUBSET Symbols
  /\ UNCHANGED <<tape, now, files, jobs, pc, machine, outages, fails, crashes, broken>>

Process ==
  \/ Watch \/ SkipSetup \/ Arm \/ Wait \/ Expire \/ SkipEntry \/ _enter_trade
  \/ StopOut \/ Hold \/ HalfTarget \/ TrailStop \/ Trail

Next ==
  \/ Clock \/ _maybe_bar_ingest \/ _maybe_finalize_signals \/ run_day \/ Process
  \/ _finalize_open_trades \/ flush \/ append_signals
  \/ _run_signals_fails \/ Crash \/ Rescan

Spec == Init /\ [][Next]_vars

-----------------------------------------------------------------------------
(* Properties.                                                             *)

Happened(kinds, i) == {j \in 1..i : journal[j].event \in kinds}
SumR(i) == MapThenSumSet(LAMBDA j : journal[j].r, Happened(TerminalKinds, i))

\* The guardrails of rule 7 bind the day and not the run: no entry is journaled
\* after the last slot is used, after the last loss the day may have or after
\* its target was once reached, whatever a symbol that lags behind brought in
\* later -- although every run counts again from the journal, after crashes,
\* failed runs, outages of single symbols and changes of the budget.  A rescan
\* may drop a symbol's events from the count: the property is about days
\* without one.
Guardrails ==
  pc = "idle" /\ rescans = 0 => \A i \in DOMAIN journal : journal[i].event = "entry" =>
    /\ Cardinality(Happened({"entry"}, i - 1)) < MaxTrades
    /\ Cardinality({j \in Happened(TerminalKinds, i - 1) : journal[j].r < 0}) < MaxLosses
    /\ \A j \in 0..(i - 1) : SumR(j) < DayStop

\* What one uninterrupted look at the tape gives for a trade entered at e.
Half(s, e, entry) ==
  {h \in (e + 1)..End :
     /\ tape[s][h].high >= entry + Risk
     /\ \A k \in (e + 1)..h : tape[s][k].low > entry - Risk
     /\ \A k \in (e + 1)..(h - 1) : tape[s][k].high < entry + Risk}
StopAt(s, entry, h, k) ==
  LET best(j) == Max({tape[s][i].high : i \in h..j})
      trail(j) == best(j) - IF best(j) - entry >= FullTarget THEN TrailTight
                            ELSE TrailLoose
  IN Max({entry} \union {trail(j) : j \in h..(k - 1)})
StopsOut(s, e, entry, k) ==
  LET h == Half(s, e, entry)
  IN IF \E i \in h : i <= k
     THEN \E i \in h : tape[s][k].low <= StopAt(s, entry, i, k)
     ELSE tape[s][k].low <= entry - Risk
ExitPrice(s, e, entry, k) ==
  IF \E i \in Half(s, e, entry) : i <= k
  THEN Min({tape[s][k].open, StopAt(s, entry, CHOOSE i \in Half(s, e, entry) : TRUE, k)})
  ELSE entry - Risk

\* A trade leaves where the tape says, however often the process was restarted
\* in between: at the first candle after its entry that reaches the stop the
\* candles before it had set, and at that stop or the gap below it; a cutoff
\* exit is at the close of a candle before which no stop was reached.
ExitFollowsTape ==
  pc = "idle" => \A i, j \in DOMAIN journal :
    LET entry == journal[i]  out == journal[j]  s == out.symbol
        hit(k) == StopsOut(s, entry.at, entry.price, k)
    IN /\ entry.event = "entry" /\ entry.symbol = s
       /\ out.event \in TerminalKinds /\ out.setup_at = entry.setup_at
       => /\ \A k \in (entry.at + 1)..(out.at - 1) : ~hit(k)
          /\ IF out.event = "time_cutoff"
             THEN out.price = tape[s][out.at].close
             ELSE hit(out.at) /\ out.price = ExitPrice(s, entry.at, entry.price, out.at)

\* The two logs tell one story.  A journaled fill is in the trade log, with its
\* price; and in a day without a crash or a failed run each row of the trade log is closed when
\* and only when the journal closed the trade, with the same result, and by
\* then has sold exactly the shares it bought.
LogsAgree ==
  /\ pc = "idle" => \A i \in DOMAIN journal :
       LET e == journal[i]  id == <<e.symbol, e.setup_at>>
       IN /\ e.event = "entry" => id \in DOMAIN trades /\ trades[id].price = e.price
          /\ e.event \in TerminalKinds \union {"half_target"} =>
               \E x \in trades[id].exits :
                 x.kind = e.event /\ x.at = e.at /\ x.price = e.price
  /\ crashes + fails = 0 /\ pc = "idle" => \A id \in DOMAIN trades :
       LET row == trades[id]
           ends == {i \in DOMAIN journal : /\ journal[i].event \in TerminalKinds
                                           /\ id = <<journal[i].symbol, journal[i].setup_at>>}
       IN /\ Cardinality(ends) = IF row.status = "closed" THEN 1 ELSE 0
          /\ \A i \in ends :
               /\ journal[i].r = row.r
               /\ MapThenSumSet(LAMBDA x : x.size, row.exits) = row.size

Open(s) ==
  {i \in DOMAIN journal :
     /\ journal[i].event = "entry" /\ journal[i].symbol = s
     /\ \A j \in DOMAIN journal : journal[j].symbol = s =>
          ~(journal[j].event \in TerminalKinds /\ journal[j].setup_at = journal[i].setup_at)}

\* The cutoff sweep leaves no trade behind: once the day's sweep has come to its
\* end -- a crash in it makes the next process sweep again, and runs before it
\* may have failed anywhere -- a trade of a symbol on the screen is still in the
\* market only if it was entered on the newest candle on file.  Two ways to stay
\* in the market are not ruled out, because the code has them: a sweep that
\* fails is not repeated, as its day is noted before it runs (broken), and for
\* a trade an earlier run entered on the newest candle the sweep has no candle
\* to leave at.
CutoffClosesAll ==
  pc = "idle" /\ finalized /\ ~broken /\ rescans = 0 =>
    \A s \in Symbols : \A i \in Open(s) : logged[s] <= journal[i].at

=============================================================================
