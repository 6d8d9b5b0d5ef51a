# A TLA+ model of rotation-dashboard

The program is a Flask back end (`src/backend`) with a React front end. It keeps the operator's
option positions in one JSON file per book, sends real orders to Schwab, and runs a scheduler thread
beside the request threads. Its core is the life of a live order: what may be sent, when a fill is
booked, when an order may be forgotten, and when the next one may follow. Around it are the parts that
decide on orders (recommendations, exits, alerts), those that compare the books with the account
(reconciliation, ingest) and the state file all of them write.

## 1. Inventory

| part | state it keeps | operations | talks to |
|---|---|---|---|
| order lifecycle rules (`order_lifecycle.py`) | none | `is_legal_transition`, `map_broker_status`, `check_resubmit` | called by the executor and by the grading |
| live order path (`executor.py`) | `pending_orders`, `order_locks`, executions, positions | place, poll (`order_status`), cancel, clear, freeze, sweeps, start-up reconcile | broker client, state store, alerts |
| atomic roll submission (`executor.py`) | `order_submissions`, roll pending records | `_place_live_roll`, `submission_status`, `_roll_order_status`, leg-imbalance freeze | same |
| exit sequencing (`executor.py`) | none of its own | `exit_position`: a ticket, or one leg to its fill and then the next | same |
| state store (`logging_handler.py`, `backups.py`, `migrations.py`) | `state.json`, an in-memory cache, the order journal, backups | `load_state`, `save_state`, `mutate_state`, reset, restore, demo switch | every other part |
| scheduler (`alert_scheduler.py`, `market_scheduler.py`) | last-run stamps, in memory | a daemon thread: stale-order sweep, alerts, settle of recommendations, day-trade jobs | executor, alerts, day trade |
| broker client (`schwab_api.py`) | tokens, rate-limit windows | place, submit, get, list, cancel | Schwab |
| reconciliation (`reconcile.py`, `position_heal.py`, `fill_verify.py`) | the last report, resolutions, freeze and review flags | compare the holdings with the positions, freeze, repair, heal | broker, store |
| transaction ingest (`transaction_ingest.py`) | the ledger of seen transactions, proposals | fetch, classify, adopt, reverse, void, release | broker, store |
| recommendations (`recommendation_*.py`, `trust_derive.py`) | records, dismissals, grants | emit, supersede, defer, release, auto-execute, dismiss; which are open is derived | executor, alerts |
| alerts (`alerts.py`, `webpush.py`) | active conditions, a capped log, switched-off types | run, raise, resolve, acknowledge, deliver | browsers |
| day-trade module (`daytrade/`) | bar file, signals journal, paper trade log | ingest bars, replay the signal machine, close at the cutoff | market data |
| accounts and gates | books, overrides | pre-trade checks | store |
| kill switch, circuit breaker, budgets | counters | classify prices, shed data tiers | executor, data fetching |
| trust and grading (`gate_telemetry.py`) | derived grades | grade an order's event log | lifecycle rules |
| scan, screening, ledgers, maintenance | caches, derived figures | numeric work over market data, file copies | store |

Hard behaviours. Request threads and the scheduler thread interleave at every broker call, and there
is no lock around an order's life: only single store helpers are atomic (`logging_handler._lock`).
`_commit`, the freezes and many request handlers load the state, change a private copy and save it
later. The broker fills and cancels asynchronously, a cancel may be refused, its reply or the reply to
a placement may be lost, and the process may die between any two writes. Fills reach the book by two
roads (the order poll and the account's transactions) in any order. `PROJECT.json` lists these as
hazards, each at its line, with the properties that would catch it.

What makes the parts correct:

* order path: no live order forgotten; no two live orders for one intent; a fill booked, once, and
  only if it happened; a lock released only by the broker and always releasable; review locks stay;
  every order settled in the end.
* rolls: one live order per `client_order_ref`; both legs booked in the same whole units; an unknown
  send resolved, and never shown as over while it may be live.
* exit: the short is closed before the shares are sold, no leg goes out on top of a live ticket, the
  book stays the account, and success means out.
* store: an acknowledged write survives a crash; no update is lost by a locked writer; what the
  operator goes back to after a mishap is there.
* reconciliation: drift freezes, and a freeze lasts until it is resolved; a closed position hides
  nothing; a heal converges and undoes no correction.
* ingest: each fill is booked once whichever road it takes, and none is left out; an undo is whole.
* recommendations: no fill lost next to a pass; a resolved record stays resolved; what autopilot acts
  on is about the present short; a deferral ends.
* alerts: a condition is paged once; an acknowledgement marks what was shown; the board follows the
  world, the put that expires today included.
* day trade: the day's guardrails hold across restarts; no restart changes an exit; trade log and
  journal agree; the cutoff leaves nothing open.

## 2. Plan

Done: `OrderLifecycle`, `LiveOrders`, `RollSubmission`, `StateStore` over `OrderLedger`,
`PositionMirror`, `TransactionIngest`, `ExitSequence`, `DayTrade`, `Recommendations` and `Alerts`
(section 3), and the proofs of section 6.

Left, in this order:

1. `IntentGate`, an abstract specification of one intent (open, busy, under review) that single-threaded
   `LiveOrders` implements.
2. More theorems: the four invariants of the day (section 6 says what stands in the way).
3. `cancel_broker_order` (the cancel of an order the app never recorded) and the legged roll.
4. Recommendations of events and entries; the circuit breaker's unattended exit.

## 3. The modules

Conventions. A thread or run is a label `pc` and the Python locals that survive a step; a label is the
point just before a broker call or a store access, in the order the code makes them, so any other
actor may move between two of them. History variables serve the properties only. A definition whose
comment starts with "Mutant:" or "A bug:" is a variant of the definition next to it with a plausible
bug; no action uses it. They show that each property can fail. Real mishaps (lost answers, crashes,
failed calls) are counted against a named bound.

### Orders

* `OrderLifecycle` holds the pure rules of `order_lifecycle.py` under their own names. Its `CASE`
  branches exclude each other, so the definitions mean the same to TLC and to the provers.
* `LiveOrders` is the order path of one ticker. `store` is the part of `state.json` the path touches:
  `pending` (pending_orders), `locks` (order_locks, one per intent), `execs` (how many execution records
  name an order), `applied` (how often its fill was applied to the position) and `review` (needs_review).
  `broker` is Schwab's own view. `order_status` is a subroutine with a return label, because
  `cancel_order` calls it from three places.

  | code | actions |
  |---|---|
  | `_execute`, `_guard_resubmit`, `_place_live`, `_record_placement` | `BeginPlace`, `GuardLock`, `GuardPending`, `Transmit`, `TransmitRefused`, `TransmitAckLost`, `SavePending`, `ReadPriorLock`, `SaveLock` |
  | `order_status`, `_commit`, `_settle_order` | `BeginPoll`, `OsGetPending`, `OsRead`, `OsReadFails`, `CommitAppend`, `CommitLoad`, `CommitSave`, `CommitPop`, `OsPop`, `SettleRead`, `SettleWrite` |
  | `cancel_order`, `_confirm_cancel`, `_finalize_cancel_terminal`, the freeze | `BeginCancel`, `CancelStatus`, `CancelStatusFails`, `DeleteAccepted`, `DeleteRefused`, `DeleteFails`, `RetryDelete`, `Confirm`, `Finalize`, `FinalizeFails`, `DuringCancel`, `PopPartial`, `PopClean`, `FreezeLoad`, `FreezeSave` |
  | `clear_unfilled_order` | `BeginClear`, `ClearRead`, `ClearUnverified`, `ClearGet`, `ClearPop` |
  | process death, `reconcile_pending_orders_on_startup` | `Crash`, `Restart`, `BootPoll` |
  | Schwab (external) | `BrokerFills`, `BrokerCancels`, `BrokerRejects`, `BrokerExpires` |

  History: `orphaned` (an order live at Schwab whose id the app never stored) and `forced` (one the
  operator cleared unverified). Left out: the position arithmetic of a commit ("applied once more"),
  prices, receipts, journals, alerts. One ticker: locks and pending records of different tickers share
  only the file, and a lost update of the whole file is already visible with one. A handler exception
  before its first write is the thread becoming idle.
* `LiveOrdersInv` states the inductive invariant `IInv` that `LiveOrders_proofs` proves for any threads;
  the second part of that module adds what holds with one thread. `MCLiveOrders` adds the thread symmetry
  that `two_pollers` uses.
* `RollSubmission` is the atomic roll of one ticker. `store.subs` are the submission records, one per
  `client_order_ref`; `store.pending` the pending records, with the units booked so far (`filled`) and
  whether the payload has strikes; `store.closed`, `store.opened` and `store.moved` count, per order, the
  units in its two execution records and the units the position was moved by. A broker order has two
  legs that fill apart and is `listed` some time after it was entered.

  | code | actions |
  |---|---|
  | `_place_live_roll`, `submit_order` | `BeginRoll`, `ReadSub`, `SaveSubmitting`, `SendAccepted`, `SendRejected`, `SendUnknown`, `AckId`, `AckRejected`, `AckUnknown`, `SavePending` |
  | `submission_status`, `resolve_unconfirmed_submissions` | `BeginCheck`, `Lookup`, `LookupFails`, `NotPlaced`, `Adopt`, `AdoptGet`, `AdoptSave`, `SyncSub` |
  | `order_status` of a roll, `_commit_roll`, `_freeze_for_leg_imbalance` | `BeginPoll`, `OsGet`, `OsRead`, `OsReadFails`, `BookClose`, `BookOpen`, `ApplyLoad`, `ApplySave`, `SavePart`, `Pop`, `FreezeLoad`, `FreezeSave`, `Sync` |
  | `cancel_order` of a roll | `BeginCancel`, `CxRead`, `CxReadFails`, `CxDelete`, `CxDeleteFails`, `CxConfirm`, `Finalize`, `FinalizeFails`, `CxPopPartial`, `CxPopClean`, then the freeze |
  | `clear_unfilled_order` | `BeginClear`, `ClearRead`, `ClearUnverified`, `ClearPop`, `ClearSub` |
  | process death, start-up sweep, `NOT_PLACED_AFTER_SECONDS` | `Crash`, `Restart`, `BootPoll`, `Age` |
  | Schwab (external) | `BrokerLists`, `BrokerFills`, `BrokerDies` |

  Time is kept as order. `floor` is how many orders had been entered when the record was stamped: the
  lookup looks at later ones only. The code's window opens 60 seconds earlier, so the model assumes that
  no order of the same two options was entered in the minute before (section 5 says what happens if one
  was). `aged` says that 90 seconds have passed. One assumption about Schwab is built into `Age`: an
  accepted order is listed within those 90 seconds (`config.py` says "almost immediately"). The roll is
  not among the intents with a resubmission lock, so `_settle_order` and the hard lock only log here. A
  frozen position refuses a roll. History variables: `forced` (cleared without verification) and
  `cleared` (cleared on an empty lookup); the operator has let go of those orders. `MCRollSubmission`
  gives every ticket a pair of options of its own (`LegsOf` may also let two tickets share one).
  `RollSubmissionInv` states the inductive invariant; `RollSubmission_proofs` goes through the actions
  and has the theorems.
* `ExitSequence` is `exit_position`, run by a click and by the circuit-breaker pass, which may meet. `held`
  is the account, `book` the position, `pending` the orders with a record, `lost` those whose answer
  never came. A call is one contract.

  | code | actions |
  |---|---|
  | `exit_position`, `_place_covered_live`, `_place_equity_live`, `_run_leg_to_fill`, `_cancel_unfilled_leg` | `Begin`, `Placed`, `AnswerLost`, `Refused`, `NothingToSell`, `_run_leg_to_fill`, `PollRaises`, `CancelSent`, `CancelRefused`, `_cancel_unfilled_leg` |
  | the sweeps and a new call sale | `settle_pending_orders`, `cancel_stale_orders`, `_sell_short` |
  | Schwab (external) | `BrokerFills`, `BrokerKills` |

  Assumed: equity orders are transmitted (`EQUITY_ORDER_PLACEMENT_ENABLED`); a poll books and forgets in
  one step (`LiveOrders` takes it apart), so there is no crash here; no partial fill of a leg. History:
  `crossed` (a call sale was under way while an exit left).

### The state file

* `OrderLedger` is what callers can rely on: a book is a set of updates. A locked writer adds one. An
  acknowledged update leaves the book only when an older content is put back (a load .. save section, an
  operation the mode was switched under, a reset, a restore, a lost file) or when the power goes while the
  book is `loose`, its last acknowledged write not durable.
* `StateStore` is the file. `target[b]` is what the path shows, `synced[b]` what a power cut leaves. A
  thread is at most in one operation; the lock's owner is `lock`. The fsync of the directory may fail:
  `_atomic_write` swallows the error and the caller has its answer all the same (`SyncDirectory`, which then
  makes the book loose). `_write` resolves the active path when it writes, so an operation the demo switch
  overtook puts one book over the other (`PutsBack`); the nightly job checks the book with `NightlyCheck` and
  copies whatever is active later (`astray`). A restore may replace a good file by any backup.

  | code | actions |
  |---|---|
  | `mutate_state` and the helpers that hold `_lock`; the unlocked load .. save sections | `Begin`, `Apply`, `Save`, `Replace`, `SyncSaved`, `WriteFails`; `Hold` in between for the second |
  | `load_state` with a migration, `snapshot_before_migration` | `SnapshotStart`, `SnapshotDone`, `SnapshotFails`, `SyncMigrated` |
  | `reset_book`, `restore_from_backup`, `set_demo_enabled` | `BeginReset`, `restore_from_backup`, `set_demo_enabled` |
  | `nightly_refresh`, `make_nightly_backup`, `rotate` | `NightlyCheck`, `NightlyStart`, `NightlyCopied`, `NightlyFails`, `Rotate` |
  | `append_order_journal`, `order_journal_entries` | `append_order_journal`, `AppendCut` |
  | kill, deploy, power cut, start, damage | `Kill`, `Stop`, `PowerCut`, `Boot`, `Booted`, `Damage` |

  `LedgerSpec` is the refinement: `OrderLedger` with `book[b]` read as `target[b].done`, what a reader finds.
  A damaged file reads as an empty book, which the ledger counts as a revert: the code refuses to load it,
  and the operator restores a backup or resets. `MaxActs` bounds what the operator and the disk do together
  (switches, resets, losses, restores over a good file), `MaxFaults` the mishaps, `MaxLines` the journal.

### The books and the account

* `PositionMirror` is one ticker of the shares-primary book: the broker's holdings, the append-only
  execution log, and the position that mirrors it one execution at a time.

  | code | actions |
  |---|---|
  | trades and settlements at Schwab (external) | `BuyLot`, `SellLot`, `SellCall`, `BuyCallBack`, `OpenPut`, `ClosePut`, `AssignPut`, `Expire`, `CalledAway`, `Settle` |
  | `_commit` of a fill, adoption of a trade | `_commit`, `adopt_broker_trade`, then the two writes `append_execution` and `apply` |
  | `run_reconciliation` | `Fetch`, `FetchFails`, `run_reconciliation` |
  | the operator's repairs | `_adjustment`, `resolve_expiry`, `acknowledge_diff`, `record_called_away`, `rebuild_position_from_broker`, `rebuild_from_log`, `SetVoid`, then `mark_diff_resolved` or `set_legs` |
  | `position_heal` after the morning run | `heal` |
  | process death | `Crash` |

  The comparison keys legs by what they are (`expected_by_key`), so two legs of one contract count once. A
  run may find the close of an expiry in the cache or not; without it a vanished call is MISSING, not
  worthless. A failed run leaves the freezes alone.

  Assumed: equity orders on, expiries are days, lots and legs are units, one operation at a time, the
  report's age is ignored, the morning heal finds no operation under way, a put is written on an empty
  account. Left out: the legacy long calls, the legs editor, `reverse_adoption` (in `TransactionIngest`)
  and a hand-recorded roll.
* `TransactionIngest` is how trades get into a book. A fill is one leg of an order and one row of the
  feed; `KeyOf` is its content (action, strike, expiry, quantity), which several fills may share. `marred` is a history: the fills whose double booking the code has no guard against, because the poll
  booked them during or after an adoption, a crash cut the adoption, or the rows of their order came or
  left the window one by one.

  | code | actions |
  |---|---|
  | the order poll of the app's own orders | `PollBooks`, `PollLost` |
  | `fetch_transactions`, `run_ingestion` | `fetch_transactions`, `DeepFetch`, `run_ingestion` |
  | `adopt_broker_trade`, leg by leg | `adopt_broker_trade`, `AdoptLeg`, `AdoptionDone` |
  | `reverse_adoption` | `reverse_adoption`, `ReverseLeg`, `ReversalDone` |
  | void, restore, release | `void_executions`, `restore_executions`, `release_ingested` |
  | process death; Schwab (external) | `Crash`; `BrokerFills`, `Posts`, `Ages` |

### Decisions

* `Recommendations` is one covered position, the pass over it and its autopilot. Which records are open is
  derived (`trust_derive.resolve`), so the model derives it too.

  | code | actions |
  |---|---|
  | `recommendation_runner.run` | `BeginPass`, `Release`, `Load`, `Emit`, `EmitFails`, `Stage` |
  | `_check_roll_defend_auto_execute` | `AutoLoad`, `Act` |
  | the order poll and the stale sweep; Schwab (external) | `BookClose`, `BookSell`, `BookLoad`, `BookSave`, `CancelStale`; `Fill` |
  | the operator | `HandRoll`, `DismissRead`, `DismissWrite`, `GrantRead`, `GrantWrite`, `SetEnabled` |
  | `_enforce_spread_quality` of any request | `SpreadRead`, `SpreadWrite` |
  | a freeze and its end; time | `Reconcile`; `Tick` |

  `_commit_roll` is four steps: the two legs are appended one by one, each under the lock, and then the state is
  loaded, both legs applied, and all of it saved, without the lock. The two legs are one entry of `execs`,
  dated by the later one. Three sections load and save the whole state: this one, `set_permission` and
  `_enforce_spread_quality`. `crossed` is a history: one of them saved over another write. The pass's own
  ticket carries no bid and ask, so `spread_monitor.record` has nothing to record and `Act` saves no state.

  Assumed: one pass per instant; a crash would lose only a pass's locals; the sending of a roll is one step
  (`RollSubmission` takes it apart). Left out: which trigger fires, entries, the breaker's unattended
  exit, pre-approval, the gap-emergency unlock.
* `Alerts` is the engine of one book and the scheduler that drives it. A condition is a number with an
  evaluator of its own.

  | code | actions |
  |---|---|
  | `_maybe_expiry_check`, the slot runs, `POST /api/alerts/run` | `ExpiryCheck`, `SlotRun`, `HttpRun`, then `SaveRun`, `Dispatch`, or `Raises` |
  | `record_event` | `RecordEvent`, `SaveEvent` |
  | the bell: `view`, `acknowledge`, `acknowledge_all`, `update_settings` | `view`, `acknowledge`, `acknowledge_all`, `update_settings`, each after `TapLoad` |
  | the world; process death | `Begins`, `Ends`; `Crash` |

  Assumed: one tap at a time; the host restarts the process at once; a slot may come at any tick. Left
  out: severities and texts, channels, the dry run, push subscriptions, the heartbeat.
* `DayTrade` is one account's day. No machine state is kept between two runs: each rebuilds it from the
  journal and replays the candles after it.

  | code | actions |
  |---|---|
  | `_maybe_bar_ingest`, `_maybe_finalize_signals` | `_maybe_bar_ingest`, `_maybe_finalize_signals` |
  | `run_day`, candle by candle | `run_day`, `Process` |
  | `_finalize_open_trades`, the adapter's `flush`, `append_signals` | the same names |
  | a run that raises anywhere | `_run_signals_fails` |
  | process death, a new screen; time | `Crash`, `Rescan`; `Clock` |

  `load_signals` gives the events in the order they were appended: store.py:280 sorts by `datetime`, a key no
  event has. `_run_signals` swallows every error; `broken` is a history: the last run failed.

  Assumed: long trades only (the short side mirrors them), every symbol has its ATR, the clock moves
  between two ticks of the scheduler, a crash in a replay is a crash before it (nothing is written).
  R-multiples are counted in quarters, `Risk` is two ticks of price.

## 4. Runs

`TypeOK` is an invariant of `serial` and a theorem; the other modules state theirs to document the
variables, and they hold on the same instances.

| run | instance | question |
|---|---|---|
| `serial` | 1 thread, 1 intent, 2 orders of 2 contracts, 2 faults, 1 crash, `FairSpec` (147 883 states) | `TypeOK`, `NeverForgotten`, `OneLiveOrder`, `FillCounted`, `ClosedLockOpens`, `BookedOnlyIfFilled`, `LockNeverFreesLive`, `ReviewLatched`, `EverySettled` |
| `roll_serial` | 1 thread, 1 ref, 2 orders of 2 units, 1 fault | `LiveRollsKnown`, `BooksMatchLegs`, `ImbalanceFrozen` |
| `roll_live` | 1 thread, 1 order of 1 unit, 2 faults, 1 crash, `FairSpec` | `NeverFalselyOver`, `EveryUnknownResolved`, `EveryRollSettled` |
| `exit` | 2 exits at once, 2 calls of different strikes, up to 2 lots, 3 orders, 1 trouble | `NakedOnlyIfCrossed`, `NeverLegsOutOnTop`, `BookIsAccount`, `OkMeansOut` |
| `store` | 2 threads, 2 updates, 2 books, 2 backups kept of 3, a journal of 1 line, 1 mishap, 1 act of the operator or the disk (2 556 187 states) | `Recoverable`, `LedgerSpec` |
| `mirror` | 1 strike and expiry, no puts, 1 lot, 3 events, 1 trouble | `NothingHidden`, `FrozenUntilResolved`, `HealKeepsCorrections` |
| `mirror_live` | with puts, 2 lots, 3 events, no trouble, `FairSpec` | `MirrorInStep`, `HealConverges` |
| `ingest` | 1 book, an app order and a leg bought by hand in 2 equal parts, 2 troubles, `FairSpec` | `EachFillOnce`, `UndoneWhole`, `EveryFillAccounted` |
| `recs` | 3 instants, the first behind the settle gate, 3 records, 2 orders, 1 request, `FairSpec` | `FillsKept`, `OpenClaimIsCurrent`, `NeverReopens`, `EveryDeferredEnds` |
| `alerts` | 2 conditions, one of an expiring put, a log of 2, 3 changes of the world, 1 call, 1 trouble, `FairSpec` (138 798 states) | `PagedOnce`, `MarksTheOneShown`, `ConditionsTracked` |
| `day` | 2 symbols, 6 candles, 12 days of prices, a budget that may be gone at any run, 2 faults (2 896 021 states) | `Guardrails`, `ExitFollowsTape`, `LogsAgree`, `CutoffClosesAll` |
| `two_pollers` | 2 threads, 1 order | TLC finds a counterexample: section 5 |

Bounds. Two orders show a second order following a first (the gate, the attempt cap of 2, the
overwritten lock). Quantity 2 is the least with a partial fill. Two DELETE attempts and two faults show
both a retry and the hard lock. `MaxBook` lets a fill be booked twice or more, so that the bound never
hides a double booking. One intent that no freeze blocks is enough in `serial`: a guard that refuses
only removes behaviours; an instance with a second, frozen intent and one with three orders agree.
Deadlock checking is off because every one of these systems may rest: every order used, every intent
frozen or capped, the day over.

For rolls, two orders under one ref show a send after a lost or ended one; two faults in `roll_live` lose
the answer and then fail a lookup, and the crash falls between. For exits, two calls of different
strikes are the least for which a leg can be bought back out of turn, and three orders let both runs
send and the sweep cancel. In `store` two threads meet in one book with two books to mix up, and three
copies exceed the two kept; one act is a switch, a reset, a loss or a restore at any moment of them; on the one journal
line an entry is cut and the next one written onto it. Three events of the mirror open, change and end a position. The three fills
of `ingest` are an order of the app and a leg bought by hand in two equal parts, which a crash can split and
the ledger must tell apart by their number. In `recs` an action stays valid for two
instants, so it is superseded, resolved or expires within three. A log of two alerts overflows at the
third. Two symbols compete for two trades and one loss in `day`; the tapes hold a stop, a half target, a
trail, a break-even, an expired and a late set-up.

`serial` and `roll_serial` let one thread at a time finish its handler. It is the program as it behaves
when the operator and the sweep do not meet. Most of their properties fail otherwise: `two_pollers` shows
it for one, and section 5 names others. `BookedOnce` (in `FillCounted`) and `ClosedLockOpens` speak of the
time before a crash, and `roll_serial` has none for the same reason. What survives any interleaving,
crash and fault is proved in `LiveOrders_proofs`.

Fairness. Orders (`LiveOrders`, `RollSubmission`): a running thread takes its next step (the operating
system schedules it). The stale-order sweep comes back every scheduler tick while the process is up, so
a cancel of each pending order is taken up again and again: strong fairness, because a crash or a busy
thread disables it in between. The host restarts a dead process. Schwab in the end carries out a cancel
it has accepted. Nothing is assumed about fills, and faults and crashes are bounded by their counters.
For rolls the sweep also takes up every unanswered send again and again, time passes (`Age`) and Schwab
lists its orders; the sweep's 24-hour limit is not reached in a behaviour where threads keep running.
Ingest: the scheduler fetches and classifies again and again (weak fairness of `fetch_transactions` and
`run_ingestion`), and an adoption or reversal that was begun goes on. Mirror: the fetch recurs (weak), the
morning run that heals is taken again and again (strong, as an operation under way puts it off), and an
operation goes on. Recommendations: passes run at the slots of the day and time goes on. Alerts: a step
of a run follows the one before, and the expiry check recurs at every tick (strong: the lock is
taken in between); `ConditionsTracked` has as its premise that slot runs keep coming (`SlotsCome`). `day`,
`exit` and `store` have safety properties only.

## 5. Where the code departs from its own words

`two_pollers` is a run TLC finds a counterexample for, and a finding in `PROJECT.json` with the quoted
line: two `order_status` calls for one order book its fill twice (executor.py:4434 against 5304).

Seen while modelling and not kept as runs. Most can be replayed by checking the named definition, or by
changing one bound of a passing run. Line numbers without a file are those of `src/backend/executor.py`.

Orders.

* 4467: `order_status` codes a partly filled dead order CANCELED and opens the intent.
* 480: two placements of one intent pass the gate together (`OneLiveOrder` with two threads).
* 3156: `_commit` overwrites an execution another thread appended after its load.
* 4468: a crash between the pop and the settle leaves a lock without a record, which no sweep releases
  (`ClosedLockOpens` without its premise).
* 6044: two requests with the same `client_order_ref` both transmit (`OneLivePerRef` with two threads; with
  one thread it holds through crashes too).
* A recovered roll is booked without strikes, and the position keeps the old short. A roll ended by
  `cancel_order` leaves its ticket WORKING, and a check turns it UNKNOWN for good.
* 6105: a crash between the two writes after an acknowledged roll leaves a live order without a pending
  record (`LiveRollTracked` with `MaxCrashes` 1). Its id is in the submission, but nothing books its fill.
* 4376: a crash between the pop of a torn roll and its freeze loses the freeze (`ImbalanceFrozen` with
  `MaxCrashes` 1).
* 5286: a crash during a send leaves SUBMITTING, which the sweep does not look up.
* 5098 and 4779: an order that fills during its cancel is settled FILLED and then FILLED_DURING_CANCEL,
  and a cancel after a lost answer goes from LOCKED_UNKNOWN to CANCEL_REQUESTED. `LEGAL_TRANSITIONS` has
  neither edge.
* 517: the attempt cap, "within one app session" in `config.py`, counts over all sessions.
* 6245 and 6182: a lost roll id can be recovered as the order of another ticket for the same two
  options, or as an order entered, and cancelled, within the minute before the send.
* 5021: the operator's clear takes an empty lookup for an answer at any age; the 90 seconds bind only
  the sweep.
* 4941: `cancel_broker_order` closes every unanswered submission with the same legs.
* Exits: a call sale that fills while an exit is leaving can end naked (`NeverNaked`; `NakedOnlyIfCrossed`
  is what holds), and one that fills after the shares were sold (`CoveredMeansCovered`).

Store, books and account.

* logging_handler.py:213: the directory's fsync fails, the error is swallowed, and a power cut takes the
  acknowledged write. 219: the path is resolved again at the write, so a demo switch in between puts one book
  over the other. What a reset removed can come back with a save that began before it (maintenance.py:46).
  `LedgerSpec` names these three as the ways an acknowledged update is lost, and no other.
* maintenance.py:155 and backups.py:127: the nightly job checks that the live book is active and copies what is
  active later, which may be the demo book (`NightlyKept` without `~astray`). A journal line cut short takes
  the entry written onto it with it.
* reconcile.py:780: resolutions are kept by class and instrument for ever, so a new divergence of an
  instrument whose earlier one was resolved freezes nothing (`DivergenceFreezes`). A buy-back booked while
  the fetch is in flight is reported as unexpected (`AppFillNotUnexpected`). A crash between a delivery and
  its mark lets a second click book it again (`DeliveryBookedOnce`). A rebuild from the broker's option legs
  takes a sold put for a call (executor.py:1607), and the next heal takes that leg off again.
* executor.py:5674: the mirror closes the first leg of the strike, whatever its expiry; the replay (1984)
  only a leg of the close's own expiry. A buy-back booked before its sale therefore leaves the two with
  different legs, hence the premise `NoneSkipped` of `MirrorInStep`. Two legs of one contract are one key of the
  comparison (reconcile.py:426), so a position in step with the account shows a false mismatch.
* transaction_ingest.py:604: the comment at 584 counts executions so that "a genuinely-new second identical leg
  is not swallowed by one booked leg". That holds within one order, as `EachFillOnce` states it; a second order
  with the same content as an execution on the log is taken for it and never offered.
* transaction_ingest.py:566 against `reverse_adoption` (executor.py:2516, "so a corrected re-ingest is
  possible"): the counts include voided and reversed executions, so the next ingestion records the row of a
  reversed adoption as the app's and never offers it again. `EveryFillAccounted` lets such a row pass (`Struck`).
* A proposal not acted on for seven days leaves the feed's window and is dropped by
  the next ingestion (`OfferedUntilActedOn`). With two books over one account no fill is booked in both
  (`OneBook`), restores excepted.

Recommendations.

* A record stamped before a fill its evaluation knew can claim a later one (trust_derive
  `_still_claimable`), which reopens another: `Antedated`. A pass that loads while `_commit_roll` is between its
  first append and its save (executor.py:6576-6585) knows the fill and the old short, and emits an open roll of
  a call that is gone: `Halfway`. Hence the premise `InOrder`. A dismissed PENDING_SETTLE record is still RELEASED
  (`DismissedNotReleased`, recommendation_runner.py:494).
* `set_permission`, `set_auto_exit_permission`, `_enforce_spread_quality` and the end of `_commit_roll`
  (executor.py:6580) load and save without the lock and can lose a fill, a dismissal or an autopilot OFF, or
  reopen what a write in between resolved, hence `crossed`.
* Two rolls can be in flight for one short; a dismissed card is emitted anew and may be executed
  unattended; an automatic order the stale sweep cancels is not tried again; an own fill after an
  all-clear counts as COVERAGE_MISS; event edges are consumed during a gap or a cooldown; the execution
  window is checked with the clock of the pass's start.

Alerts.

* A record's id comes from the length of the log and repeats once the log is full (`ALERT_LOG_MAX`), so an
  acknowledgement marks others and a resolution lands on the wrong entry. `acknowledge_all` marks
  alerts raised after the bell was read.
* A tap that saves over a run's write pages again, or drops an alert from the board while its mandatory
  check counts as done (hence `crossed`).
* A failed evaluator resolves its conditions, and they page again. A crash between the save and the
  dispatch is never paged, and a failed delivery is not retried.
* heartbeat.py says "a persistently broken evaluator pages too" and `_maybe_expiry_check` "A FAILURE HERE
  PAGES", but `evaluate` swallows an evaluator's exception.

Day trade.

* scheduler.py:271 notes the day before the sweep runs and 241 swallows its error: a cutoff sweep that fails is
  never repeated and its trades stay open (`CutoffClosesAll` without `~broken`).
* store.py:277 promises the events in candle order and the sort at 280 leaves them as they were appended, so
  a symbol that lags behind is counted after the others; `Guardrails` holds in that order.
* A rescan that drops a symbol forgets its trades, and the day's guardrails are exceeded; an entry on the
  newest candle is never closed by the cutoff sweep (signals.py:380), against the comment at 235; a crash between `flush` and
  `append_signals` at the cutoff leaves two terminal exits (signals.py:48).
* A crash together with a changed budget or a finished trial leaves an open row without a journaled
  entry. The volume baseline restarts after each journaled event (config.py:785), `deployed` is not
  rehydrated, a torn append loses a terminal event of the same candle, and a candle logged while it was
  forming is never refreshed.

## 6. Proofs

All theorems hold for every value of the constants the modules' assumptions admit: any number of
threads, orders, calls, books, faults and crashes. Each safety proof has the same shape. `IInv` is an
inductive invariant that TLC checked on small instances before it was proved; one lemma per action, or
per group of actions that touch the same state, shows that a step preserves it; the temporal theorem
combines `Init`, the step and the implication.

`LiveOrders_proofs` (any interleaving, from `ConstantsAssumption` alone): `TypeCorrect`
(`TypeOK`), `NoInventedFill` (`BookedOnlyIfFilled`), `LockReleasedByBroker` (`LockNeverFreesLive`). Neither
safety property is inductive. A thread writes to the file what it read at the broker several steps
before, and `_commit` and the freeze write back whole copies of the file. `IInv` adds what a thread knows
at each label (`LocalOK`: at the booking labels its order is FILLED, at the settling labels a terminal
code means a dead order) and that every private copy is as sound as the file (`StoreOK`). Everything it
says is stable, because a dead order stays dead (`BrokerGrows`, `StoreStable`, `LocalStable`), and that is
why it survives any interleaving and any lost update.

Its second part (hypothesis `OneThread`: one thread of control at a time):
`SerialNeverForgets`, `SerialOneLiveOrder`, `SerialCountsFills`, `SerialLocksOpen`, `SerialReviewLatched`. With two
threads these properties are false in the code (a commit, freeze or settle saves over what another
thread wrote, section 5), so the hypothesis is the weakest one under which they can be stated. With one
thread a private copy is the file, and the invariant can say where an order's record and lock are at
every label: a live order has its record, or the thread that is about to write it; an intent's lock
names its only order that may live; a lock is in a code that opens only behind a dead order. The counts
and the locks that must open have a part of their own that speaks of the time before a crash.

`RollSubmission_proofs` (hypotheses `OneThread` and `OwnPair`: no two tickets roll the same pair of
options): `NeverFalselyOverAlways` and `OneLivePerRefAlways`, through any number
of lost answers and crashes; `LiveRollsKnownAlways`, `BooksMatchLegsAlways` and `ImbalanceFrozenAlways` under
`MaxCrashes = 0`. Every hypothesis marks a departure of section 5: two threads transmit one ref twice
(6044), a lookup takes the order of another ticket with the same legs (6245), and a crash between two
writes leaves an order without its record (6105, 4376). A ref may be sent again, so its orders are told
apart by `floor`, the order ids used up when its record was stamped. `IInv` says that what was entered
below the floor is dead or let go, and that above it there is at most one order (`RefOK`, `OrderOK`); a
live order above it is named by the record, or the record has no id and is in a code that is not over. A
lookup that comes back empty settles NOT_PLACED only for an aged record, whose orders are all listed.
`CInv`, for the time before a crash, says of each order without a pending record that it ended well (both
legs equal and booked, or the position frozen) or that a thread or the sweep is about to look at it, and
what the books hold at each booking label.


`ExitSequence_proofs` (no hypothesis; several calls may share a strike): `ExitNeverNaked`,
`NotOnTopOfATicket`, `BookIsTheAccount`, `SuccessMeansOut`. A fill is booked by dropping the first leg of the
strike it closes, so book and account drift apart whenever another call of that strike filled. The
invariant says why this does not happen while no call sale is under way: the only close that can still
fill is of the book's first leg, a run's list is the book for as long as its head is held, at most one
purchase waits to be booked, and the shares go all at once or not at all. Booking a ticket is a fold over
its calls; the fold lemmas are proved by looking at the least index where they would fail (`Smallest`),
which needs no induction scheme.

`StateStore_proofs` (no hypothesis: the mode may be switched at any moment and any fsync may fail):
`ImplementsLedger`, `Spec => LedgerSpec`, step by step, and `AckedHeldAlways`, a reader finds every acknowledged
update that was not put back. What the path shows and what a power cut leaves differ in a loose book and
at the labels of the one thread that owns the lock, between its rename and its fsync; the invariant says that
an acknowledged update is in the first, and in the second unless the book is loose (`Safe`). The copy a
thread holds is the book it loaded, as it still stands, plus its update; or for an unlocked section some
earlier content plus it (`Written`). The book it loaded need not be the one it writes: `SaveOlder` and `Revert`
of the ledger take the content of any book.

`RecoverableAlways`, `Spec => []Recoverable`, by a second invariant: at most one nightly job runs (`OneNightly`),
the copies are as they should be (`BackupsOK`) and so is the journal (`JournalOK`). Whoever is copying has its torn file in the directory, newer than every nightly copy, and
whoever is about to write a migrated book has the book it replaces among the copies (`Copies`). All that is
newer than the last nightly copy is torn, and that copy is there or at least `Keep` newer ones are
(`LastNightly`): when a rotation drops it, the newest one dropped with it would have fewer than `Keep` above
it, unless `Keep` remain (`RotationKeeps`). In the journal the entries lost are at most the cut lines whose
newline is missing no more (`JournalOK`); `JournalLossBounded` alone is not inductive, because the entry a
last, ragged line will take with it is not written yet. Nothing is promised of the copies after a power cut,
nor of the nightly one once a job has copied the demo book.

`Alerts_proofs` (no hypothesis): `PagedOnceAlways` and `MarksTheOneShownAlways`. Whoever holds the run lock
computes from the board as it is, unless a tap crossed it; a condition that holds and was paged is on the
board, and one about to be paged has not been paged since it began. For the second, `Counted` ties the id, the
length of the log plus one, to the number of records ever made: they are equal as long as the log keeps every
record, and the write that fills it is the last whose ids are fresh. The places a run gives its new alerts are
1, 2, .. without a gap (`Places`).

`TransactionIngest_proofs` (no hypothesis; any number of fills may share action, strike, expiry and quantity):
`EachFillOnceAlways` and `UndoneWholeAlways`, for any books, orders, fills, crashes and corrections. The log is
compared with the feed by content alone, so "not lost" is a matter of numbers: of the content of a row the
ledger skips, the log holds as many executions as the row's order has legs with it (`Covered`), or one the
operator struck out; a pass over the groups of one ingestion counts what is booked once for each leg. Neither
property is inductive. The rows of an unmarred order come, leave the window and are offered together (`Fed`,
`Offered`), hence its fills are booked in a book all or none, but for the adoption under way (`Grouped`); an
adoption that is not refused then finds none of them on the log, and `Adopting` says so leg by leg. For the
undo, the ledger names every execution of an adopted fill (`Recorded`), and what a reversal has left to do
covers what still counts (`Reversing`). `MatchedIsCovered` is the lemma on the comparison by counts,
`Polled` and `Listed` those on what the poll appends.

`Recommendations_proofs` (no hypothesis beyond the properties' own premises): `FillsKeptAlways`,
`NeverReopensAlways`, `OpenClaimIsCurrentAlways`, for any market, any number of passes, orders, rolls by hand,
dismissals and freezes, and any validity of a record. Resolutions are no state of the code: `recompute` derives
them anew from all fills at every write, so a record could lose on a later write what answered it.
`Fewer` is why it does not. Each fill takes one record that was live when it happened, by an order of
preference; taking a record out of the claims (a dismissal, a successor) moves the fill on to another record,
that one's fill to a third, and so on, and no record that had a fill is left without one, but the one taken
out. The proof follows the two runs of the fold side by side, fill by fill: what the one took, the other
took too, the records taken out excepted. `Coherent` says of the file that its records are dated in order, that
each unanswered one has expired before the next was written (`OnlyClaim`: so a fill finds at most one that is
its own), and that no fill it did not know fell into its time. `Prior` says of the copy a pass evaluates that
it is the file, but for fills and dismissals since: `Emitting` then writes over it without reopening anything.
While a roll is half booked its fill has the date of the leg bought back and gets that of the leg sold, so it is
matched anew; `HalfBooked` therefore keeps the state without that fill (`Before`) coherent as well, for the fill
to be booked on it again. `InOrder` (no state saved over another write, no record antedated or from a pass that
loaded in the middle of a booking) is the premise of the two properties; all three
departures are real (section 5).

`PositionMirror_proofs` (no hypothesis beyond the properties' own premises): `FrozenUntilResolvedAlways`,
`HealKeepsCorrectionsAlways`, `MirrorInStepAlways`, `NothingHiddenAlways`. The replays fold over the log in date order, a close over
the legs of its strike; `ReplayOn` and `OneTaken` give what one more entry and one removal do, again by the
least place where the fold would differ. A freeze is always one of the last good report's diffs (`Frozen`),
so no re-evaluation under that report lifts it. A heal writes what the replay gives and only where the report
has the same, which is what the position already was. For the mirror, the hard step is a close: the mirror
takes the first leg of the strike, the replay the first leg of the contract, and a replay that has none takes
nothing. `Covered` says that the account never bought back what was not sold, and `Along` that with no trade
skipped the replay of the log holds exactly what was sold and not yet bought back up to the last trade
booked (`Follows`); so the replay has the leg, and both lose one of the strike (`Advance`). `Along` also says
which of a trade's two writes is still to come, as the two counts differ between the append and the save.

`NothingHiddenAlways` compares two sums, the log's and the account's, and the difficulty is that a replay does
not subtract: a sale of more lots than are left leaves none, and a close takes only the legs there are. So the
replay is the sum of its entries only if it never goes below nothing on the way, on every part of the log that
is closed downwards in date order (`LotsSum`, `CallsSum`). `Account` has what this needs of the market: what the
broker holds of a contract is what was sold less what was bought back or settled (`Counted`), each trade of a
contract comes before its expiry (`Dated`), and on every day the lots bought and not yet sold or delivered
cover the calls that were in the money by then and are not settled (`Paid`). The last is the inductive form
of "calls are covered", since an assignment is booked on the day of the expiry, however late the broker
delivers and whatever was traded meanwhile. `Kept` says where every entry of the log and every entry that an
operation has yet to append comes from (`Told`: a trade of the history, a settlement, a correction), and that
a closed position is bare while no put and no share adjustment was booked. `Facts` is what follows for a log
that satisfies `TrueLog`; `TradesByDay`, `SettledSum` and `DeliveredIs` count its entries up to a day against
the history, `LotsFit` and `CallsFit` are the bounds, `LotsTrue` and `CallsTrue` the sums.

Only model-checked. Liveness (`EverySettled`, `EveryUnknownResolved`, `EveryRollSettled`, `HealConverges`,
`EveryFillAccounted`, `EveryDeferredEnds`, `ConditionsTracked`) is out of the prover's reach.
`Guardrails`, `LogsAgree` and `CutoffClosesAll` say what a whole log sums up to after it was filtered or
flattened day by day. `ExitFollowsTape` is not proved either.

## 7. Not modelled

`cancel_broker_order`, the legged roll and the recommendations of events and entries are planned
(section 2). Pure decisions over a snapshot are left out because nothing interleaves in them: the
account gates and cross-book checks (the settle gate is in `Recommendations`), the circuit breaker and kill
switch, which classify prices anew at every pass, and the data budget, which counts a day's calls under
one lock. Screening, scoring, ledgers, the scoreboard and the statistics are numeric; migrations and
audits are one-off rewrites (their backup and write are in `StateStore`). Delivery of alerts, HTTP,
tokens, rate limits and the user interface are I/O. What each modelled component leaves out is in its
entry in `PROJECT.json` and in section 3.
