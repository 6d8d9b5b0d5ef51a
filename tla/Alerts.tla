------------------------------- MODULE Alerts -------------------------------
(***************************************************************************)
(* The alert engine of one book (src/backend/alerts.py) and the scheduler  *)
(* that drives it (alert_scheduler.py).                                    *)
(*                                                                         *)
(* A run loads the state, asks every evaluator which conditions hold,      *)
(* raises those that are new, resolves those that ended, saves, and only   *)
(* then hands the new alerts to the channels.  Runs and one-off events are *)
(* serialized by _run_lock; the operator's taps load and save without it.  *)
(* What the scheduler has run today it keeps in memory only.               *)
(*                                                                         *)
(* A condition is one fingerprint with an evaluator of its own; they are   *)
(* numbered in the order of EVALUATORS.  Severities, texts, channels and   *)
(* the dry run are left out: dispatch makes one attempt and never raises.  *)
(***************************************************************************)
EXTENDS Naturals, Sequences, FiniteSets, SequencesExt, FiniteSetsExt

CONSTANTS
  N,            \* conditions
  Mandatory,    \* those of a put that expires today
  LogMax,       \* config.ALERT_LOG_MAX
  MaxFlips,     \* bound: how often conditions begin or end
  MaxCalls,     \* bound: runs over HTTP, events and taps, taken together
  MaxTroubles   \* bound: evaluators that fail, runs that raise, crashes

Conditions == 1..N

ASSUME AlertAssumption ==
  /\ {N, LogMax} \subseteq Nat \ {0} /\ Mandatory \subseteq Conditions
  /\ {MaxFlips, MaxCalls, MaxTroubles} \subseteq Nat

VARIABLES
  holds,      \* the conditions that are true of the book and the market
  expired,    \* the mandatory ones that have ended: a put expires once
  store,      \* state["alerts"]: active, log and the disabled types
  lock,       \* _run_lock's owner
  job,        \* [Actors -> the run or event under way]
  tap,        \* the operator's request under way
  checked,    \* _mandatory_run
  raised,     \* history: how many records were made, to tell them apart
  pages,      \* history: how often each condition was paged since it began
  excused,    \* history: conditions an evaluator missed or the operator switched
  crossed,    \* history: a tap and another write overlapped
  reissued,   \* history: an id was given on a full log
  flips, calls, troubles

vars == <<holds, expired, store, lock, job, tap, checked,
          raised, pages, excused, crossed, reissued, flips, calls, troubles>>
world == <<holds, expired, flips>>
engine == <<store, lock, job>>
history == <<raised, pages, excused, crossed, reissued>>

Actors == {"tick", "http", "event"}
Free == "free"
NoJob == [pc |-> "idle"]
NoTap == [pc |-> "idle"]
Event == 0       \* the fingerprint of a one-off event: no condition

\* A record; no is history and tells raisings with one id apart.
Rec(f, id, no) == [fp |-> f, id |-> id, no |-> no, status |-> "active", ack |-> FALSE]

Init ==
  /\ holds = {} /\ expired = {}
  /\ store = [active |-> << >>, log |-> << >>, muted |-> {}]
  /\ lock = Free /\ job = [a \in Actors |-> NoJob] /\ tap = NoTap
  /\ checked = {} /\ raised = 0 /\ pages = [f \in Conditions |-> 0]
  /\ excused = {} /\ crossed = FALSE /\ reissued = FALSE
  /\ flips = 0 /\ calls = 0 /\ troubles = 0

-----------------------------------------------------------------------------
(* What a run computes from the state it loaded.                           *)

\* A bug: the id comes from what is active, not from the history.
NextIdOfActive(s, i) == Cardinality(DOMAIN s.active) + i

\* The id of the i-th record appended to a loaded state.
NextId(s, i) == Len(s.log) + i

Capped(log) == SubSeq(log, Max({1, Len(log) - LogMax + 1}), Len(log))

\* The candidates that are not active yet.
Fired(s, candidates) == candidates \ DOMAIN s.active

\* In the order of the evaluators, where the alert of f comes among the new ones.
Place(new, f) == Cardinality({g \in new : g <= f})
NewRecord(s, new, f) == Rec(f, NextId(s, Place(new, f)), raised + Place(new, f))
NewRecords(s, new) ==
  [i \in 1..Cardinality(new) |-> NewRecord(s, new, CHOOSE f \in new : Place(new, f) = i)]

\* A resolution is mirrored onto the first log entry with the record's id.
Mirrored(log, ids) ==
  LET first(k) == \A j \in 1..(k - 1) : log[j].id # log[k].id
  IN [k \in DOMAIN log |-> IF log[k].id \in ids /\ first(k)
                           THEN [log[k] EXCEPT !.status = "resolved"] ELSE log[k]]

\* The state a run writes back.
Merged(s, candidates) ==
  LET new == Fired(s, candidates)
      ended == {s.active[f].id : f \in DOMAIN s.active \ candidates}
  IN [s EXCEPT
       !.active = [f \in candidates |-> IF f \in new THEN NewRecord(s, new, f) ELSE s.active[f]],
       !.log = Capped(Mirrored(s.log \o NewRecords(s, new), ended))]

Appended(s) ==
  [s EXCEPT !.log = Capped(Append(s.log,
     [Rec(Event, NextId(s, 1), raised + 1) EXCEPT !.status = "event"]))]

-----------------------------------------------------------------------------
(* Runs and events.  A run holds the lock until its alerts are delivered.  *)
(* An event delivers after it let go of the lock, which touches nothing.   *)

\* A bug: two runs may be under way at once.
LockUnused == TRUE

LockFree == lock = Free

\* Which evaluators fail is seen in the same step as what the others find.
Start(a, kind, keys) ==
  /\ job[a].pc = "idle" /\ LockFree
  /\ lock' = a
  /\ \E broken \in SUBSET (IF kind = "event" THEN {} ELSE holds) :
       /\ IF broken = {} THEN UNCHANGED troubles
          ELSE troubles < MaxTroubles /\ troubles' = troubles + 1
       /\ excused' = excused \union broken
       /\ job' = [job EXCEPT ![a] =
            [pc |-> "loaded", kind |-> kind, keys |-> keys, copy |-> store,
             found |-> (holds \ store.muted) \ broken, fresh |-> {}]]
  /\ UNCHANGED <<world, store, tap, raised, pages, crossed, reissued>>

ExpiryDue == (Mandatory \intersect holds) \ checked

\* A bug: the check counts as done before it has run.
ExpiryCheckCounted ==
  /\ ExpiryDue # {} /\ Start("tick", "run", {})
  /\ checked' = checked \union ExpiryDue
  /\ UNCHANGED calls

ExpiryCheck ==
  /\ ExpiryDue # {} /\ Start("tick", "run", ExpiryDue)
  /\ UNCHANGED <<checked, calls>>

\* A slot of the day may come at any tick; it is run once, even if it raises.
SlotRun ==
  /\ Start("tick", "run", {})
  /\ UNCHANGED <<checked, calls>>

Called(a, kind) ==
  /\ calls < MaxCalls /\ calls' = calls + 1
  /\ Start(a, kind, {})
  /\ UNCHANGED checked
HttpRun == Called("http", "run")
RecordEvent == Called("event", "event")

Issued(a, n) ==
  /\ raised' = raised + n
  /\ reissued' = (reissued \/ (n > 0 /\ Len(job[a].copy.log) = LogMax))
  /\ UNCHANGED <<world, tap, checked, pages, excused, crossed, calls, troubles>>

SaveRun(a) ==
  LET j == job[a] IN
  /\ j.pc = "loaded" /\ j.kind = "run"
  /\ store' = Merged(j.copy, j.found)
  /\ job' = [job EXCEPT ![a].pc = "saved", ![a].fresh = Fired(j.copy, j.found)]
  /\ Issued(a, Cardinality(Fired(j.copy, j.found)))
  /\ UNCHANGED lock

SaveEvent(a) ==
  /\ job[a].pc = "loaded" /\ job[a].kind = "event"
  /\ store' = Appended(job[a].copy)
  /\ job' = [job EXCEPT ![a] = NoJob] /\ lock' = Free
  /\ Issued(a, 1)

Dispatch(a) ==
  /\ job[a].pc = "saved"
  /\ pages' = [f \in Conditions |-> pages[f] + (IF f \in job[a].fresh THEN 1 ELSE 0)]
  /\ checked' = checked \union job[a].keys
  /\ job' = [job EXCEPT ![a] = NoJob] /\ lock' = Free
  /\ UNCHANGED <<world, store, tap, raised, excused, crossed, reissued, calls, troubles>>

\* The state file cannot be written: the run raises, an event is swallowed.
Raises(a) ==
  /\ job[a].pc = "loaded"
  /\ troubles < MaxTroubles /\ troubles' = troubles + 1
  /\ lock' = Free /\ job' = [job EXCEPT ![a] = NoJob]
  /\ UNCHANGED <<world, store, tap, checked, history, calls>>

-----------------------------------------------------------------------------
(* The operator: sees the board, taps, and the server loads and saves.     *)

Records(s) == Range(s.active) \union Range(s.log)

Requests ==
  {[op |-> "ack", id |-> r.id, no |-> r.no] : r \in Records(store)}
    \union {[op |-> "all"]} \union {[op |-> "switch", fp |-> f] : f \in Conditions}

view ==
  /\ tap.pc = "idle" /\ calls < MaxCalls /\ calls' = calls + 1
  /\ \E q \in Requests : tap' = [pc |-> "shown", request |-> q]
  /\ UNCHANGED <<world, engine, checked, history, troubles>>

TapLoad ==
  /\ tap.pc = "shown"
  /\ tap' = [pc |-> "loaded", request |-> tap.request, copy |-> store]
  /\ UNCHANGED <<world, engine, checked, history, calls, troubles>>

Seen(s, ids) ==
  LET mark(r) == IF r.id \in ids THEN [r EXCEPT !.ack = TRUE] ELSE r
  IN [s EXCEPT !.active = [f \in DOMAIN @ |-> mark(@[f])],
               !.log = [k \in DOMAIN @ |-> mark(@[k])]]

Unseen(s) == {r.id : r \in {a \in Range(s.active) : ~a.ack}}

TapSave(s) ==
  /\ store' = s /\ tap' = NoTap
  /\ crossed' = (crossed \/ tap.copy # store \/ \E a \in Actors : job[a].pc = "loaded")
  /\ UNCHANGED <<world, lock, job, checked, raised, pages, reissued, calls, troubles>>

Asked(op) == tap.pc = "loaded" /\ tap.request.op = op

\* An id that nobody has raises, an empty bell returns: the file stays.
Idle ==
  /\ \/ Asked("ack") /\ tap.request.id \notin {r.id : r \in Records(tap.copy)}
     \/ Asked("all") /\ Unseen(tap.copy) = {}
  /\ tap' = NoTap
  /\ UNCHANGED <<world, engine, checked, history, calls, troubles>>

acknowledge ==
  /\ Asked("ack") /\ tap.request.id \in {r.id : r \in Records(tap.copy)}
  /\ TapSave(Seen(tap.copy, {tap.request.id}))
  /\ UNCHANGED excused

acknowledge_all ==
  /\ Asked("all") /\ Unseen(tap.copy) # {}
  /\ TapSave(Seen(tap.copy, Unseen(tap.copy)))
  /\ UNCHANGED excused

update_settings ==
  /\ Asked("switch")
  /\ LET f == tap.request.fp
     IN /\ TapSave([tap.copy EXCEPT !.muted = SymDiff(@, {f})])
        /\ excused' = excused \union {f}

-----------------------------------------------------------------------------
(* The world, and the death of the process.                                *)

Flip(f) ==
  /\ flips < MaxFlips /\ flips' = flips + 1
  /\ holds' = SymDiff(holds, {f})
  /\ UNCHANGED <<engine, tap, checked, raised, crossed, reissued, calls, troubles>>

Begins(f) ==
  /\ f \notin holds \union expired /\ Flip(f)
  /\ pages' = [pages EXCEPT ![f] = 0] /\ excused' = excused \ {f}
  /\ UNCHANGED expired

Ends(f) ==
  /\ f \in holds /\ Flip(f)
  /\ expired' = expired \union ({f} \intersect Mandatory)
  /\ UNCHANGED <<pages, excused>>

\* What the scheduler has run is forgotten; a page not sent yet never is.
Crash ==
  /\ troubles < MaxTroubles /\ troubles' = troubles + 1
  /\ lock' = Free /\ job' = [a \in Actors |-> NoJob] /\ tap' = NoTap
  /\ checked' = {}
  /\ UNCHANGED <<world, store, history, calls>>

Next ==
  \/ ExpiryCheck \/ SlotRun \/ HttpRun \/ RecordEvent
  \/ \E a \in Actors : SaveRun(a) \/ SaveEvent(a) \/ Dispatch(a) \/ Raises(a)
  \/ view \/ TapLoad \/ acknowledge \/ acknowledge_all \/ update_settings \/ Idle
  \/ \E f \in Conditions : Begins(f) \/ Ends(f)
  \/ Crash

Spec == Init /\ [][Next]_vars

\* Threads finish what they began.  The tick looks for due checks every time
\* round, before it looks for slots, so no number of slot runs keeps it away.
JobStep == \E a \in Actors : SaveRun(a) \/ SaveEvent(a) \/ Dispatch(a)
FairSpec == Spec /\ SF_vars(ExpiryCheck) /\ WF_vars(JobStep)

-----------------------------------------------------------------------------
(* Properties.                                                             *)

(* What the engine keeps of the alerts is well formed. *)
TypeOK ==
  /\ holds \subseteq Conditions /\ store.muted \subseteq Conditions
  /\ DOMAIN store.active \subseteq Conditions
  /\ \A f \in DOMAIN store.active : store.active[f].fp = f
  /\ Len(store.log) <= LogMax
  /\ lock \in Actors \union {Free} /\ checked \subseteq Mandatory

(* "A condition fires once when it trips, not on every scheduled run": the   *)
(* channels get it at most once until it ends, whoever starts the runs and   *)
(* whatever dies between them.  An evaluator that fails resolves its         *)
(* condition, and a tap that overlaps a run can undo its write; those page   *)
(* again.                                                                    *)
PagedOnce ==
  crossed \/ \A f \in Conditions \ excused : pages[f] <= 1

(* An acknowledgement marks SEEN the alert the operator was shown and no     *)
(* other ("mark one alert SEEN"), as long as an id names one record: not     *)
(* after a lost update, nor once the log is full.                            *)
Unread(s, t, no) ==
  {f \in DOMAIN t.active : /\ t.active[f].ack /\ t.active[f].no # no
                           /\ ~(f \in DOMAIN s.active /\ s.active[f].ack)}
MarksTheOneShown ==
  [][crossed' \/ reissued \/ (acknowledge => Unread(store, store', tap.request.no) = {})]_vars

(* As long as slots come, what stays true is on the board in the end and     *)
(* what stays false is not: through failed evaluators, runs that raise,      *)
(* lost updates and crashes.  A put that expires today is paged, or at       *)
(* least gets on the board, even if no slot comes any more, unless its       *)
(* evaluator failed or the operator switched it off: a check that raised is  *)
(* repeated at the next tick, one that has run is not needed again.          *)
Shows(f) == f \in DOMAIN store.active
SlotsCome == []<><<SlotRun>>_vars
ConditionsTracked ==
  \A f \in Conditions :
    /\ SlotsCome /\ <>[](f \in holds \ store.muted) => <>[]Shows(f)
    /\ SlotsCome /\ <>[](f \notin holds) => <>[]~Shows(f)
    /\ f \in Mandatory \intersect holds
         ~> Shows(f) \/ pages[f] > 0 \/ f \notin holds \/ f \in excused \union store.muted
=============================================================================
