------------------------- MODULE TransactionIngest -------------------------
(***************************************************************************)
(* How trades of the broker's account get into a book                      *)
(* (src/backend/transaction_ingest.py, cross_book.py and the adoption part *)
(* of executor.py).                                                        *)
(*                                                                         *)
(* The order poll books the fills of the app's own orders.  Ingestion      *)
(* reads the account's transactions, confirms those the log already holds  *)
(* by their content and offers the others to the operator, who adopts them *)
(* leg by leg.  A ledger of transaction ids keeps a trade from being seen  *)
(* twice.  Adoptions can be reversed, executions voided and restored,      *)
(* ledger entries released; two books may watch one account.               *)
(*                                                                         *)
(* A fill is one leg of an order and one row of the transactions feed.     *)
(* What a booking does to the position is PositionMirror's subject.        *)
(***************************************************************************)
EXTENDS Integers, Sequences, FiniteSets, SequencesExt

CONSTANTS
  Books,
  Orders,       \* orders of the broker's account
  AppOrders,    \* those the app placed
  HomeOf,       \* [AppOrders -> Books]: the book that placed it
  Fills,
  OrderOf,      \* [Fills -> Orders]
  KeyOf,        \* [Fills -> keys]: action, strike, expiry and quantity
  Closing,      \* fills that close a leg
  Whole,        \* orders whose rows appear in the feed together
  MaxTroubles   \* bound on crashes, lost polls, aged rows and corrections

ASSUME IngestAssumption ==
  /\ AppOrders \subseteq Orders /\ Whole \subseteq Orders
  /\ HomeOf \in [AppOrders -> Books]
  /\ OrderOf \in [Fills -> Orders] /\ Closing \subseteq Fills
  /\ DOMAIN KeyOf = Fills
  /\ IsFiniteSet(Fills) /\ IsFiniteSet(Books) /\ MaxTroubles \in Nat

VARIABLES
  filled,     \* orders the broker has filled
  posted,     \* fills the transactions feed has a row for
  aged,       \* rows that have left the standing window of the feed
  watched,    \* app orders the order poll still has a pending record of
  feed,       \* [Books -> rows fetched and not yet classified]
  log,        \* [Books -> Seq(Execution)]: state["executions"]
  ledger,     \* [Books -> transaction -> entry]: ingested_transactions
  proposals,  \* [Books -> SUBSET Proposal]: ingestion.proposals
  job,        \* the adoption or reversal in progress, if any
  marred,     \* history: fills doubled by what adoption cannot see
  troubles

vars == <<filled, posted, aged, watched, feed, log, ledger, proposals, job, marred, troubles>>
account == <<filled, posted, aged>>
book == <<log, ledger, proposals>>

NotFetched == [rows |-> {}, here |-> FALSE]
Idle == [op |-> "none"]
FillsOf(o) == {f \in Fills : OrderOf[f] = o}

Init ==
  /\ filled = {} /\ posted = {} /\ aged = {}
  /\ watched = AppOrders
  /\ feed = [b \in Books |-> NotFetched]
  /\ log = [b \in Books |-> << >>]
  /\ ledger = [b \in Books |-> << >>]
  /\ proposals = [b \in Books |-> {}]
  /\ job = Idle
  /\ marred = {} /\ troubles = 0

Trouble == troubles < MaxTroubles /\ troubles' = troubles + 1

---------------------------------------------------------------------------
(* What a book's executions say.                                            *)

(* A voided or reversed execution stays on the log and counts no more.      *)
Live(e) == ~e.excluded /\ ~e.reversed
derived_executions(b) == {i \in DOMAIN log[b] : Live(log[b][i])}
OnLog(b, f) == \E i \in DOMAIN log[b] : log[b][i].fill = f
Holds(b, f) == \E i \in derived_executions(b) : log[b][i].fill = f

(* The multiset of keys of all executions, voided and reversed ones too.    *)
existing_execution_keys(b) ==
  [k \in Range(KeyOf) |-> Cardinality({i \in DOMAIN log[b] : KeyOf[log[b][i].fill] = k})]
(* A bug: one execution answers for every leg with its key.                 *)
AnyBooked(b, legs) == \A f \in legs : existing_execution_keys(b)[KeyOf[f]] > 0
_group_already_booked(b, legs) ==
  \A k \in Range(KeyOf) :
    Cardinality({f \in legs : KeyOf[f] = k}) <= existing_execution_keys(b)[k]

IsApp(b, legs) == _group_already_booked(b, legs)

(* Another book holds the row or its order in a live execution.  The poll's *)
(* executions carry the order by their receipt, adopted ones carry both.    *)
broker_ids(b) ==
  {<<"order", OrderOf[log[b][i].fill]>> : i \in derived_executions(b)}
  \union {<<"txn", log[b][i].fill>> :
            i \in {j \in derived_executions(b) : log[b][j].source = "broker_manual"}}
held_elsewhere(b, legs) ==
  \E other \in Books \ {b} : \E f \in legs :
    <<"txn", f>> \in broker_ids(other) \/ <<"order", OrderOf[f]>> \in broker_ids(other)

Execution(f, source) == [fill |-> f, source |-> source, excluded |-> FALSE, reversed |-> FALSE]
append_execution(b, f, source) == log' = [log EXCEPT ![b] = Append(@, Execution(f, source))]

---------------------------------------------------------------------------
(* The account and the order poll.                                          *)

BrokerFills(o) ==
  /\ o \notin filled
  /\ filled' = filled \union {o}
  /\ UNCHANGED <<posted, aged, watched, feed, book, job, marred, troubles>>

(* Rows of an order appear, and later age, all at once or one by one.       *)
RowsOf(o) ==
  IF o \in Whole THEN {FillsOf(o)} ELSE SUBSET FillsOf(o) \ {{}}
Posts(o, rows) ==
  /\ o \in filled /\ rows \intersect posted = {}
  /\ posted' = posted \union rows
  /\ marred' = IF rows # FillsOf(o) THEN marred \union FillsOf(o) ELSE marred
  /\ UNCHANGED <<filled, aged, watched, feed, book, job, troubles>>
(* Rows become older than INGESTION_LOOKBACK_DAYS.                          *)
Ages(o, rows) ==
  /\ rows \subseteq posted \ aged /\ Trouble
  /\ aged' = aged \union rows
  /\ marred' = IF rows # FillsOf(o) THEN marred \union FillsOf(o) ELSE marred
  /\ UNCHANGED <<filled, posted, watched, feed, book, job>>

(* The poll books a filled order; it looks at no transaction.               *)
PollBooks(o) ==
  /\ o \in watched \intersect filled
  /\ watched' = watched \ {o}
  /\ LET executions == {Execution(f, "app") : f \in FillsOf(o)} IN
     log' = [log EXCEPT ![HomeOf[o]] = @ \o SetToSeq(executions)]
  /\ marred' = marred \union
       {f \in FillsOf(o) : (\E b \in Books : OnLog(b, f)) \/ (job.op = "adopt" /\ f \in job.legs)}
  /\ UNCHANGED <<account, feed, ledger, proposals, job, troubles>>

(* Polling dies between submission and fill: the pending record is gone.    *)
PollLost(o) ==
  /\ o \in watched /\ Trouble
  /\ watched' = watched \ {o}
  /\ UNCHANGED <<account, feed, book, job, marred>>

---------------------------------------------------------------------------
(* Ingestion: the fetch, then classification and persisting under the       *)
(* store's lock on a fresh copy of the state.                               *)

Fetched(b, rows) ==
  /\ ~feed[b].here
  /\ feed' = [feed EXCEPT ![b] = [rows |-> rows, here |-> TRUE]]
  /\ UNCHANGED <<account, watched, book, job, marred, troubles>>
fetch_transactions(b) == Fetched(b, posted \ aged)
(* The operator's one-off pull reaches further back.                        *)
DeepFetch(b) == aged # {} /\ Fetched(b, posted)

Group(rows, o) == rows \intersect FillsOf(o)
Fresh(b, rows, o) == Group(rows, o) \ DOMAIN ledger[b]
NewGroups(b, rows) == {o \in Orders : Fresh(b, rows, o) # {}}
(* A proposal names the fresh rows and carries every leg of the group.      *)
Proposal(b, rows, o) ==
  [order |-> o, txns |-> Fresh(b, rows, o), legs |-> Group(rows, o)]

Entry(source, ids, o) == [source |-> source, execution_ids |-> ids, proposal |-> o]
(* Append-only: an entry already there is kept.                             *)
record_ingested(b, rows, entry) ==
  LET new == rows \ DOMAIN ledger[b] IN
  [f \in DOMAIN ledger[b] \union new |-> IF f \in new THEN entry ELSE ledger[b][f]]

(* A bug: an offered row is recorded as ingested too.                       *)
RecordAll(b, rows) ==
  /\ ledger' = [ledger EXCEPT ![b] = record_ingested(b, rows, Entry("app", {}, "none"))]
  /\ proposals' = [proposals EXCEPT ![b] = {}]
_persist_report(b, rows) ==
  LET matched == {o \in NewGroups(b, rows) : IsApp(b, Group(rows, o))}
      open == NewGroups(b, rows) \ matched
      confirmed == UNION {Fresh(b, rows, o) : o \in matched}
  IN /\ ledger' = [ledger EXCEPT ![b] = record_ingested(b, confirmed, Entry("app", {}, "none"))]
     /\ proposals' = [proposals EXCEPT ![b] = {Proposal(b, rows, o) : o \in open}]

run_ingestion(b) ==
  /\ feed[b].here
  /\ _persist_report(b, feed[b].rows)
  /\ feed' = [feed EXCEPT ![b] = NotFetched]
  /\ UNCHANGED <<account, watched, log, job, marred, troubles>>

---------------------------------------------------------------------------
(* Adoption: the guards, one write per leg, the ledger last.                *)

DropProposal(b, o) ==
  proposals' = [proposals EXCEPT ![b] = {p \in @ : p.order # o}]

(* Everything the proposal offers was booked meanwhile.                     *)
(* A bug: the state as it was when the proposal surfaced is trusted.        *)
NeverStale(b, p) == FALSE
Stale(b, p) == _group_already_booked(b, p.legs)

Refuse(b, p) ==
  /\ Stale(b, p)
  /\ ledger' = [ledger EXCEPT ![b] = record_ingested(b, p.legs, Entry("app", {}, "none"))]
  /\ DropProposal(b, p.order)
  /\ UNCHANGED <<log, job>>
StartAdoption(b, p) ==
  /\ ~Stale(b, p)
  /\ job' = [op |-> "adopt", book |-> b, order |-> p.order, legs |-> p.legs,
             left |-> p.legs, ids |-> {}]
  /\ UNCHANGED book
adopt_broker_trade(b, p) ==
  /\ job = Idle /\ p \in proposals[b]
  /\ ~held_elsewhere(b, p.legs)
  /\ Refuse(b, p) \/ StartAdoption(b, p)
  /\ UNCHANGED <<account, watched, feed, marred, troubles>>

NewId(b) == Len(log[b]) + 1
(* Closing legs are booked first.                                           *)
NextLegs == IF job.left \intersect Closing # {} THEN job.left \intersect Closing ELSE job.left
AdoptLeg(f) ==
  /\ job.op = "adopt" /\ f \in NextLegs
  /\ append_execution(job.book, f, "broker_manual")
  /\ job' = [job EXCEPT !.left = @ \ {f}, !.ids = @ \union {NewId(job.book)}]
  /\ UNCHANGED <<account, watched, feed, ledger, proposals, marred, troubles>>
AdoptionDone ==
  /\ job.op = "adopt" /\ job.left = {}
  /\ ledger' = [ledger EXCEPT ![job.book] =
       record_ingested(job.book, job.legs, Entry("broker_manual", job.ids, job.order))]
  /\ DropProposal(job.book, job.order)
  /\ job' = Idle
  /\ UNCHANGED <<account, watched, feed, log, marred, troubles>>

(* Reversal: the executions the ledger names, last one first, the ledger    *)
(* last.  The record each reversal appends is left out.                     *)
AdoptedRows(b, o) ==
  {f \in DOMAIN ledger[b] : ledger[b][f].source = "broker_manual" /\ ledger[b][f].proposal = o}
(* A bug: the executions of one row of the adoption only.                   *)
OneOf(b, o) ==
  {i \in UNION {ledger[b][f].execution_ids : f \in AdoptedRows(b, o)} :
     log[b][i].fill = CHOOSE f \in AdoptedRows(b, o) : TRUE}
AdoptedExecutions(b, o) == UNION {ledger[b][f].execution_ids : f \in AdoptedRows(b, o)}
reverse_adoption(b, o) ==
  LET live == {i \in AdoptedExecutions(b, o) : ~log[b][i].reversed} IN
  /\ job = Idle /\ live # {}
  /\ job' = [op |-> "reverse", book |-> b, order |-> o, legs |-> AdoptedRows(b, o),
             left |-> live, ids |-> {}]
  /\ UNCHANGED <<account, watched, feed, book, marred, troubles>>
ReverseLeg ==
  /\ job.op = "reverse" /\ job.left # {}
  /\ LET last == Max(job.left) IN
     /\ log' = [log EXCEPT ![job.book][last].reversed = TRUE]
     /\ job' = [job EXCEPT !.left = @ \ {last}]
  /\ UNCHANGED <<account, watched, feed, ledger, proposals, marred, troubles>>
ReversalDone ==
  /\ job.op = "reverse" /\ job.left = {}
  /\ ledger' = [ledger EXCEPT ![job.book] =
                  [f \in DOMAIN ledger[job.book] \ job.legs |-> ledger[job.book][f]]]
  /\ job' = Idle
  /\ UNCHANGED <<account, watched, feed, log, proposals, marred, troubles>>

---------------------------------------------------------------------------
(* Corrections by the operator, and crashes.                                *)

SetExcluded(b, i, excluded) ==
  /\ job = Idle /\ log[b][i].excluded # excluded
  /\ log' = [log EXCEPT ![b][i].excluded = excluded]
  /\ UNCHANGED <<account, watched, feed, ledger, proposals, job>>
void_executions(b, i) == SetExcluded(b, i, TRUE) /\ Trouble /\ UNCHANGED marred
(* Another book may have adopted the trade since it was voided here.        *)
restore_executions(b, i) ==
  /\ SetExcluded(b, i, FALSE)
  /\ marred' = marred \union
       {f \in {log[b][i].fill} : \E other \in Books \ {b} : OnLog(other, f)}
  /\ UNCHANGED troubles
release_ingested(b, f) ==
  /\ job = Idle /\ f \in DOMAIN ledger[b] /\ Trouble
  /\ ledger' = [ledger EXCEPT ![b] = [g \in DOMAIN @ \ {f} |-> @[g]]]
  /\ UNCHANGED <<account, watched, feed, log, proposals, job, marred>>

(* The process dies: what was in flight is gone, the stores stay.           *)
Crash ==
  /\ job # Idle /\ Trouble
  /\ job' = Idle
  /\ feed' = [b \in Books |-> NotFetched]
  /\ marred' = IF job.left # job.legs THEN marred \union job.legs ELSE marred
  /\ UNCHANGED <<account, watched, book>>

AppStep ==
  \/ \E o \in AppOrders : PollBooks(o) \/ PollLost(o)
  \/ \E b \in Books :
       \/ fetch_transactions(b) \/ DeepFetch(b) \/ run_ingestion(b)
       \/ \E p \in proposals[b] : adopt_broker_trade(b, p)
       \/ \E o \in Orders : reverse_adoption(b, o)
       \/ \E i \in DOMAIN log[b] : void_executions(b, i) \/ restore_executions(b, i)
       \/ \E f \in Fills : release_ingested(b, f)
  \/ \E f \in Fills : AdoptLeg(f)
  \/ AdoptionDone \/ ReverseLeg \/ ReversalDone \/ Crash
BrokerStep ==
  \E o \in Orders :
    \/ BrokerFills(o)
    \/ \E rows \in RowsOf(o) : Posts(o, rows) \/ Ages(o, rows)
Next == AppStep \/ BrokerStep
Spec == Init /\ [][Next]_vars

(* The scheduler ingests on its interval; a running operation goes on.      *)
Fairness ==
  /\ \A b \in Books : WF_vars(fetch_transactions(b)) /\ WF_vars(run_ingestion(b))
  /\ WF_vars(\E f \in Fills : AdoptLeg(f)) /\ WF_vars(AdoptionDone)
  /\ WF_vars(ReverseLeg) /\ WF_vars(ReversalDone)
FairSpec == Spec /\ Fairness

---------------------------------------------------------------------------
(* Properties.                                                              *)

TypeOK ==
  /\ filled \subseteq Orders /\ posted \subseteq Fills /\ aged \subseteq posted
  /\ watched \subseteq AppOrders /\ marred \subseteq Fills
  /\ \A b \in Books :
       /\ feed[b].rows \subseteq posted
       /\ \A i \in DOMAIN log[b] : log[b][i].fill \in Fills
       /\ DOMAIN ledger[b] \subseteq posted
       /\ \A f \in DOMAIN ledger[b] : ledger[b][f].execution_ids \subseteq DOMAIN log[b]
       /\ \A p \in proposals[b] : p.txns # {} /\ p.txns \subseteq p.legs
  /\ troubles \in 0..MaxTroubles

(* What the log must hold for a row the ledger skips: as many executions    *)
(* with its key that count as the row's order has legs with that key, or    *)
(* one the operator has voided or reversed.                                 *)
Twins(f) ==
  IF OrderOf[f] \in Whole THEN {g \in FillsOf(OrderOf[f]) : KeyOf[g] = KeyOf[f]} ELSE {f}
Counting(b, k) == Cardinality({i \in derived_executions(b) : KeyOf[log[b][i].fill] = k})
Struck(b, k) ==
  \E i \in DOMAIN log[b] : KeyOf[log[b][i].fill] = k /\ ~Live(log[b][i])
Held(b, f) == Struck(b, KeyOf[f]) \/ Counting(b, KeyOf[f]) >= Cardinality(Twins(f))

(* Ingestion loses sight of a row only when the log holds its content, and  *)
(* of the identical legs of one order only when it holds one execution for  *)
(* each of them ("consuming counts so a genuinely-new second identical leg  *)
(* is not swallowed by one booked leg"), crashes between the legs included. *)
(* The code promises no more, and neither does this: an execution of        *)
(* another order with the same key answers for the row as well, and so does *)
(* one the operator has since voided or reversed.                           *)
NothingBuried ==
  \A b \in Books : \A f \in DOMAIN ledger[b] : Held(b, f)

(* A fill counts once in a book, however the poll, ingestion, adoption and  *)
(* corrections fall, unless the poll books it during or after its adoption, *)
(* a crash cuts an adoption, or its order's rows came or went one by one.   *)
BookedOnce ==
  \A b \in Books : \A f \in Fills \ marred :
    Cardinality({i \in derived_executions(b) : log[b][i].fill = f}) <= 1

\* A fill of the broker is neither lost to the ledger nor counted twice.
EachFillOnce == NothingBuried /\ BookedOnce

(* A fill counts in one book only, whichever books watch the account,       *)
(* unless one restores or polls a trade the other has adopted meanwhile.    *)
OneBook ==
  \A f \in Fills \ marred : Cardinality({b \in Books : Holds(b, f)}) <= 1

(* When an undo reports success, nothing of the adoption counts any more.   *)
UndoneWhole ==
  [][job.op = "reverse" /\ job' = Idle /\ ledger' # ledger =>
       \A f \in job.legs \ marred : ~Holds(job.book, f)]_vars

(* A posted row ends up on the log or on offer, again after every lost      *)
(* poll, crash and correction, as long as it stays in the window.  Not so a *)
(* row whose execution the operator has voided, or reversed by              *)
(* reverse_adoption: the next ingestion confirms it against the dead        *)
(* execution and never offers it again, although reverse_adoption says "so  *)
(* a corrected re-ingest is possible".  Held lets those rows pass.          *)
EveryFillAccounted ==
  \A b \in Books : \A f \in Fills :
    (f \in posted) ~> (f \in aged \/ Held(b, f)
                       \/ \E p \in proposals[b] : f \in p.txns)

(* What was put on offer stays there until it is on the log ("Out-of-band       *)
(* proposals are NOT recorded as ingested until the operator adopts them,   *)
(* so they keep surfacing until acted on").                                 *)
OfferedUntilActedOn ==
  [][\A b \in Books : \A f \in Fills :
       (\E p \in proposals[b] : f \in p.txns) =>
         \/ Held(b, f)'
         \/ \E p \in proposals'[b] : f \in p.txns]_vars
=============================================================================
