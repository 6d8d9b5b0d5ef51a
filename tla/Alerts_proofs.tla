---------------------------- MODULE Alerts_proofs ----------------------------
(***************************************************************************)
(* No condition is paged twice, and an acknowledgement marks the alert     *)
(* that was shown, for any number of conditions, calls, failures and       *)
(* crashes and any length of the log.                                      *)
(*                                                                         *)
(* PagedOnce is not inductive: what keeps a second page away is the board  *)
(* of active alerts, which a run reads when it starts and writes back some *)
(* steps later.  The invariant ties the two together: who holds the lock   *)
(* has the board as it is, what was paged and still holds is on it, and a  *)
(* run that is about to page a condition is the first to do so.  On it     *)
(* rests the second invariant: until the log is full it holds one entry    *)
(* for every record made, so that the id of a record is its number.        *)
(***************************************************************************)
EXTENDS Alerts, FiniteSetTheorems, TLAPS

JobFields == {"pc", "kind", "keys", "copy", "found", "fresh"}
Shape ==
  /\ DOMAIN store = {"active", "log", "muted"}
  /\ DOMAIN job = Actors
  /\ \A a \in Actors : job[a].pc # "idle" => DOMAIN job[a] = JobFields
  /\ pages \in [Conditions -> Nat]

\* Runs and events exclude each other, and read what they will write over.
Exclusive == \A a \in Actors : job[a].pc # "idle" => lock = a
Current == \A a \in Actors : job[a].pc = "loaded" => job[a].copy = store
OnBoard == \A a \in Actors : job[a].pc = "saved" => job[a].fresh \subseteq DOMAIN store.active

Running(a) == job[a].pc = "loaded" /\ job[a].kind = "run"
Paged(f) == f \in holds \ store.muted /\ pages[f] > 0

\* What is known of a condition whose evaluator worked since it began.
Known(f) ==
  /\ pages[f] <= 1
  /\ Paged(f) => f \in DOMAIN store.active
  /\ \A a \in Actors :
       /\ Running(a) /\ Paged(f) => f \in job[a].found
       /\ Running(a) /\ f \in Fired(store, job[a].found) => pages[f] = 0
       /\ job[a].pc = "saved" /\ f \in job[a].fresh => pages[f] = 0

Sound == Shape /\ Exclusive /\ Current /\ OnBoard /\ \A f \in Conditions \ excused : Known(f)
IInv == crossed \/ Sound

LEMMA NobodyIsFree == Free \notin Actors
  BY DEF Free, Actors

(* At the start nothing is paged and nobody runs. *)
LEMMA InitSound == Init => Sound
  BY DEF Init, Sound, Shape, Exclusive, Current, OnBoard, Known, Running, Paged, Fired, NoJob

(* A run or event begins: the lock was free, so no other is under way, and  *)
(* what was paged and still holds is on the board it reads.                 *)
LEMMA StartSound ==
  ASSUME NEW a \in Actors, NEW kind \in {"run", "event"}, NEW keys, Sound, Start(a, kind, keys)
  PROVE  Sound'
<1>1. \A b \in Actors : job[b].pc = "idle"
  BY NobodyIsFree DEF Sound, Exclusive, Start, LockFree
<1>2. PICK broken : /\ excused' = excused \union broken
                    /\ job' = [job EXCEPT ![a] =
                         [pc |-> "loaded", kind |-> kind, keys |-> keys, copy |-> store,
                          found |-> (holds \ store.muted) \ broken, fresh |-> {}]]
  BY DEF Start
<1>3. /\ store' = store /\ pages' = pages /\ holds' = holds /\ lock' = a
  BY DEF Start, world
<1>4. /\ job'[a] = [pc |-> "loaded", kind |-> kind, keys |-> keys, copy |-> store,
                    found |-> (holds \ store.muted) \ broken, fresh |-> {}]
      /\ \A b \in Actors \ {a} : job'[b].pc = "idle"
      /\ DOMAIN job' = Actors
  BY <1>1, <1>2 DEF Sound, Shape
<1>5. Shape' /\ Exclusive' /\ Current' /\ OnBoard'
  BY <1>3, <1>4 DEF Sound, Shape, JobFields, Exclusive, Current, OnBoard
<1>6. ASSUME NEW f \in Conditions \ excused' PROVE Known(f)'
  <2>1. f \notin broken /\ Known(f) /\ pages[f] \in Nat
    BY <1>2 DEF Sound, Shape
  <2>2. /\ pages'[f] <= 1
        /\ Paged(f)' => f \in DOMAIN store'.active
    BY <1>3, <2>1 DEF Known, Paged
  <2>3. Paged(f)' => f \in job'[a].found
    BY <1>3, <1>4, <2>1 DEF Paged
  <2>4. f \in Fired(store', job'[a].found) => pages'[f] = 0
    BY <1>3, <1>4, <2>1 DEF Known, Paged, Fired
  <2> QED
    BY <1>4, <2>2, <2>3, <2>4 DEF Known, Running
<1> QED
  BY <1>5, <1>6 DEF Sound

(* A run replaces the board by what it found on the board as it is.         *)
LEMMA SaveRunSound ==
  ASSUME NEW a \in Actors, Sound, SaveRun(a) PROVE Sound'
<1> DEFINE found == job[a].found
<1>1. /\ job[a].pc = "loaded" /\ job[a].kind = "run" /\ job[a].copy = store
      /\ \A b \in Actors \ {a} : job[b].pc = "idle"
  BY DEF SaveRun, Sound, Current, Exclusive
<1>2. /\ store' = Merged(store, found)
      /\ job' = [job EXCEPT ![a].pc = "saved", ![a].fresh = Fired(store, found)]
      /\ lock' = lock /\ pages' = pages /\ holds' = holds /\ excused' = excused
  BY <1>1 DEF SaveRun, Issued, world
<1>3. /\ DOMAIN store' = {"active", "log", "muted"}
      /\ store'.muted = store.muted /\ DOMAIN store'.active = found
  BY <1>2 DEF Merged, Sound, Shape
<1>4. /\ job'[a].pc = "saved" /\ job'[a].fresh = Fired(store, found)
      /\ DOMAIN job'[a] = JobFields /\ DOMAIN job' = Actors
      /\ \A b \in Actors \ {a} : job'[b] = job[b]
  BY <1>1, <1>2 DEF Sound, Shape, JobFields
<1>5. Shape' /\ Exclusive' /\ Current' /\ OnBoard'
  BY <1>1, <1>2, <1>3, <1>4 DEF Sound, Shape, Exclusive, Current, OnBoard, Fired
<1>6. ASSUME NEW f \in Conditions \ excused' PROVE Known(f)'
  BY <1>1, <1>2, <1>3, <1>4 DEF Sound, Known, Running, Paged
<1> QED
  BY <1>5, <1>6 DEF Sound

(* Whoever ends gives the lock back; an event has touched the log only.     *)
LEMMA SaveEventSound ==
  ASSUME NEW a \in Actors, Sound, SaveEvent(a) PROVE Sound'
<1>1. /\ job[a].copy = store /\ \A b \in Actors \ {a} : job[b].pc = "idle"
  BY DEF SaveEvent, Sound, Current, Exclusive
<1>2. /\ store' = Appended(store) /\ job' = [job EXCEPT ![a] = NoJob]
      /\ pages' = pages /\ holds' = holds /\ excused' = excused
  BY <1>1 DEF SaveEvent, Issued, world
<1>3. /\ DOMAIN store' = {"active", "log", "muted"}
      /\ store'.muted = store.muted /\ store'.active = store.active
  BY <1>2 DEF Appended, Sound, Shape
<1>4. DOMAIN job' = Actors /\ \A b \in Actors : job'[b].pc = "idle"
  BY <1>1, <1>2 DEF Sound, Shape, NoJob
<1> QED
  BY <1>2, <1>3, <1>4 DEF Sound, Shape, Exclusive, Current, OnBoard, Known, Running, Paged

(* The page goes out for what the run has put on the board itself.          *)
LEMMA DispatchSound ==
  ASSUME NEW a \in Actors, Sound, Dispatch(a) PROVE Sound'
<1>1. /\ job[a].pc = "saved" /\ \A b \in Actors \ {a} : job[b].pc = "idle"
  BY DEF Dispatch, Sound, Exclusive
<1>2. /\ pages' = [f \in Conditions |-> pages[f] + (IF f \in job[a].fresh THEN 1 ELSE 0)]
      /\ job' = [job EXCEPT ![a] = NoJob]
      /\ store' = store /\ holds' = holds /\ excused' = excused
  BY DEF Dispatch, world
<1>3. DOMAIN job' = Actors /\ \A b \in Actors : job'[b].pc = "idle"
  BY <1>1, <1>2 DEF Sound, Shape, NoJob
<1>4. Shape' /\ Exclusive' /\ Current' /\ OnBoard'
  BY <1>2, <1>3 DEF Sound, Shape, Exclusive, Current, OnBoard
<1>5. ASSUME NEW f \in Conditions \ excused' PROVE Known(f)'
  <2>1. Known(f) /\ pages[f] \in Nat
    BY <1>2 DEF Sound, Shape
  <2>2. CASE f \in job[a].fresh
    BY <1>1, <1>2, <1>3, <2>1, <2>2 DEF Known, Running, Paged, Sound, OnBoard
  <2>3. CASE f \notin job[a].fresh
    BY <1>1, <1>2, <1>3, <2>1, <2>3 DEF Known, Running, Paged
  <2> QED
    BY <2>2, <2>3
<1> QED
  BY <1>4, <1>5 DEF Sound


(* A run that raises and a process that dies give the lock back and leave   *)
(* the board as it was.                                                     *)
LEMMA AbandonSound ==
  ASSUME Sound, \/ \E a \in Actors : Raises(a)
                \/ Crash
  PROVE  Sound'
<1>1. /\ store' = store /\ pages' = pages /\ holds' = holds /\ excused' = excused
      /\ DOMAIN job' = Actors /\ \A b \in Actors : job'[b].pc = "idle"
  <2>1. CASE Crash
    BY <2>1 DEF Crash, world, history, NoJob
  <2>2. ASSUME NEW a \in Actors, Raises(a)
        PROVE  \A b \in Actors \ {a} : job[b].pc = "idle"
    BY <2>2 DEF Raises, Sound, Exclusive
  <2> QED
    BY <2>1, <2>2 DEF Raises, Sound, Shape, world, history, NoJob
<1> QED
  BY <1>1 DEF Sound, Shape, Exclusive, Current, OnBoard, Known, Running, Paged

(* What an acknowledgement keeps of a state: it marks records, no more.     *)
LEMMA SeenKeeps ==
  ASSUME NEW s, NEW ids, DOMAIN s = {"active", "log", "muted"}
  PROVE  /\ DOMAIN Seen(s, ids) = {"active", "log", "muted"}
         /\ Seen(s, ids).muted = s.muted
         /\ DOMAIN Seen(s, ids).active = DOMAIN s.active
  BY DEF Seen

(* A tap that overlapped no other write found the state it writes back, and *)
(* no run is between its load and its save.                                 *)
LEMMA TapSaveAlone ==
  ASSUME NEW s, TapSave(s), ~crossed'
  PROVE  /\ ~crossed /\ tap.copy = store /\ store' = s
         /\ \A a \in Actors : job[a].pc # "loaded"
         /\ job' = job /\ lock' = lock /\ pages' = pages /\ holds' = holds
  BY DEF TapSave, world

LEMMA AcknowledgeSound ==
  ASSUME Sound, acknowledge \/ acknowledge_all, ~crossed' PROVE Sound'
<1>1. PICK ids : TapSave(Seen(tap.copy, ids)) /\ excused' = excused
  BY DEF acknowledge, acknowledge_all
<1>2. /\ DOMAIN store' = {"active", "log", "muted"}
      /\ store'.muted = store.muted /\ DOMAIN store'.active = DOMAIN store.active
  BY <1>1, TapSaveAlone, SeenKeeps DEF Sound, Shape
<1>3. Shape' /\ Exclusive' /\ Current' /\ OnBoard'
  BY <1>1, <1>2, TapSaveAlone DEF Sound, Shape, Exclusive, Current, OnBoard
<1>4. ASSUME NEW f \in Conditions \ excused' PROVE Known(f)'
  BY <1>1, <1>2, TapSaveAlone DEF Sound, Known, Running, Paged
<1> QED
  BY <1>3, <1>4 DEF Sound

(* Switching a type on or off excuses its condition and leaves the others   *)
(* as they were.                                                            *)
LEMMA SwitchSound ==
  ASSUME Sound, update_settings, ~crossed' PROVE Sound'
<1> DEFINE f0 == tap.request.fp
<1>1. /\ TapSave([tap.copy EXCEPT !.muted = SymDiff(@, {f0})])
      /\ excused' = excused \union {f0}
  BY DEF update_settings
<1>2. /\ DOMAIN store' = {"active", "log", "muted"}
      /\ store'.muted = SymDiff(store.muted, {f0}) /\ store'.active = store.active
  <2>1. /\ store' = [tap.copy EXCEPT !.muted = SymDiff(tap.copy.muted, {f0})]
        /\ tap.copy = store
    BY <1>1, TapSaveAlone
  <2> QED
    BY <2>1 DEF Sound, Shape
<1>3. Shape' /\ Exclusive' /\ Current' /\ OnBoard'
  BY <1>1, <1>2, TapSaveAlone DEF Sound, Shape, Exclusive, Current, OnBoard
<1>4. ASSUME NEW f \in Conditions \ excused' PROVE Known(f)'
  <2>1. f # f0 /\ Known(f)
    BY <1>1 DEF Sound
  <2>2. f \in store'.muted <=> f \in store.muted
    BY <1>2, <2>1 DEF SymDiff
  <2> QED
    BY <1>1, <1>2, <2>1, <2>2, TapSaveAlone DEF Known, Running, Paged
<1> QED
  BY <1>3, <1>4 DEF Sound

(* A condition that begins was not paged in this life and is excused no     *)
(* longer: what a run has read does not know of it.                         *)
LEMMA BeginsSound ==
  ASSUME NEW f0 \in Conditions, Sound, Begins(f0) PROVE Sound'
<1>1. /\ store' = store /\ job' = job /\ lock' = lock
      /\ pages' = [pages EXCEPT ![f0] = 0] /\ excused' = excused \ {f0}
      /\ holds' = SymDiff(holds, {f0})
  BY DEF Begins, Flip, engine
<1>2. Shape' /\ Exclusive' /\ Current' /\ OnBoard'
  BY <1>1 DEF Sound, Shape, Exclusive, Current, OnBoard
<1>3. ASSUME NEW f \in Conditions \ excused' PROVE Known(f)'
  <2>1. CASE f = f0
    <3>1. pages'[f] = 0
      BY <1>1, <2>1 DEF Sound, Shape
    <3> QED
      BY <3>1 DEF Known, Paged
  <2>2. CASE f # f0
    <3>1. Known(f) /\ pages'[f] = pages[f] /\ (f \in holds' <=> f \in holds)
      BY <1>1, <2>2 DEF Sound, Shape, SymDiff
    <3> QED
      BY <1>1, <3>1 DEF Known, Running, Paged
  <2> QED
    BY <2>1, <2>2
<1> QED
  BY <1>2, <1>3 DEF Sound

(* A condition that ends may stay on the board until the next run.          *)
LEMMA EndsSound ==
  ASSUME NEW f0 \in Conditions, Sound, Ends(f0) PROVE Sound'
<1>1. /\ store' = store /\ job' = job /\ lock' = lock /\ pages' = pages
      /\ excused' = excused /\ holds' = SymDiff(holds, {f0}) /\ f0 \in holds
  BY DEF Ends, Flip, engine
<1>2. ASSUME NEW f PROVE Paged(f)' => Paged(f)
  BY <1>1 DEF Paged, SymDiff
<1>3. Shape' /\ Exclusive' /\ Current' /\ OnBoard'
  BY <1>1 DEF Sound, Shape, Exclusive, Current, OnBoard
<1>4. ASSUME NEW f \in Conditions \ excused' PROVE Known(f)'
  BY <1>1, <1>2 DEF Sound, Known, Running
<1> QED
  BY <1>3, <1>4 DEF Sound

(* Looking at the board, and a tap that finds nothing to do, change neither *)
(* the engine nor the world.                                                *)
LEMMA LookSound ==
  ASSUME Sound, view \/ TapLoad \/ Idle \/ UNCHANGED vars PROVE Sound'
<1>1. /\ store' = store /\ job' = job /\ lock' = lock /\ pages' = pages
      /\ excused' = excused /\ holds' = holds
  BY DEF view, TapLoad, Idle, vars, world, engine, history
<1> QED
  BY <1>1 DEF Sound, Shape, Exclusive, Current, OnBoard, Known, Running, Paged

(* Once an update is lost, it stays lost.                                   *)
LEMMA CrossedStays == [Next]_vars /\ crossed => crossed'
  BY DEF Next, vars, ExpiryCheck, SlotRun, HttpRun, RecordEvent, Called, Start, SaveRun,
     SaveEvent, Issued, Dispatch, Raises, view, TapLoad, acknowledge, acknowledge_all,
     update_settings, TapSave, Idle, Begins, Ends, Flip, Crash, history

LEMMA IInvStep == IInv /\ [Next]_vars => IInv'
<1> SUFFICES ASSUME Sound, [Next]_vars, ~crossed' PROVE Sound'
  BY CrossedStays DEF IInv
<1>1. CASE ExpiryCheck \/ SlotRun \/ HttpRun \/ RecordEvent
  BY <1>1, StartSound DEF ExpiryCheck, SlotRun, HttpRun, RecordEvent, Called, Actors
<1>2. ASSUME NEW a \in Actors, SaveRun(a) \/ SaveEvent(a) \/ Dispatch(a) \/ Raises(a)
      PROVE  Sound'
  BY <1>2, SaveRunSound, SaveEventSound, DispatchSound, AbandonSound
<1>3. CASE acknowledge \/ acknowledge_all \/ update_settings
  BY <1>3, AcknowledgeSound, SwitchSound
<1>4. ASSUME NEW f \in Conditions, Begins(f) \/ Ends(f) PROVE Sound'
  BY <1>4, BeginsSound, EndsSound
<1>5. CASE Crash
  BY <1>5, AbandonSound
<1>6. CASE view \/ TapLoad \/ Idle \/ UNCHANGED vars
  BY <1>6, LookSound
<1> QED
  BY <1>1, <1>2, <1>3, <1>4, <1>5, <1>6 DEF Next

(* As long as no tap crossed another write, the runs exclude each other,    *)
(* and what was paged and still holds is on the board.                      *)
THEOREM Inductive == Spec => []IInv
<1>1. Init => IInv
  BY InitSound DEF IInv
<1> QED
  BY <1>1, IInvStep, PTL DEF Spec

(* Nothing is paged twice before it ends, whoever starts the runs and       *)
(* whatever dies between their steps, as long as its evaluator works and no *)
(* tap crosses another write.                                               *)
THEOREM PagedOnceAlways == Spec => []PagedOnce
<1>1. IInv => PagedOnce
  BY DEF IInv, Sound, Known, PagedOnce
<1> QED
  BY <1>1, Inductive, PTL

-----------------------------------------------------------------------------
(* An acknowledgement marks the alert that was shown.  A tap carries an id, *)
(* which is the length of the log plus one: an id tells one record because  *)
(* the log holds one entry for every record ever made, until it is full.    *)

Record ==
  [fp : Conditions \union {Event}, id : Nat, no : Nat,
   status : {"active", "resolved", "event"}, ack : BOOLEAN]
Kept == [DOMAIN store.active -> Record]

Numbered(records) == \A k \in DOMAIN records : records[k].id = records[k].no
Counted == Len(store.log) <= LogMax /\ (Len(store.log) < LogMax => Len(store.log) = raised)
Typed ==
  /\ raised \in Nat /\ holds \subseteq Conditions
  /\ store.active \in Kept /\ store.log \in Seq(Record)
  /\ \A a \in Actors : job[a].pc = "loaded" => job[a].found \subseteq Conditions
Asks == tap.pc # "idle" /\ tap.request.op = "ack" => tap.request.id = tap.request.no

OneEach == Typed /\ Counted /\ Numbered(store.active) /\ Numbered(store.log) /\ Asks
IdsTell == crossed \/ reissued \/ OneEach

LEMMA MaxWithOne ==
  ASSUME NEW x \in Int PROVE Max({1, x}) = IF x > 1 THEN x ELSE 1
<1>1. \E m \in {1, x} : \A y \in {1, x} : m >= y
  OBVIOUS
<1>2. Max({1, x}) \in {1, x} /\ \A y \in {1, x} : Max({1, x}) >= y
  BY <1>1 DEF Max
<1> QED
  BY <1>2

(* The cap drops the oldest entries and no more than it must.               *)
LEMMA CappedIs ==
  ASSUME NEW log \in Seq(Record)
  PROVE  /\ Capped(log) \in Seq(Record) /\ Len(Capped(log)) <= LogMax
         /\ Len(Capped(log)) < LogMax => Len(Capped(log)) = Len(log)
         /\ Numbered(log) => Numbered(Capped(log))
<1> DEFINE n == Len(log)
           m == Max({1, n - LogMax + 1})
<1>1. LogMax \in Nat \ {0} /\ n \in Nat
  BY AlertAssumption
<1>2. m = IF n - LogMax + 1 > 1 THEN n - LogMax + 1 ELSE 1
  BY <1>1, MaxWithOne
<1>3. m \in 1..(n + 1)
  BY <1>1, <1>2
<1>4. Capped(log) = SubSeq(log, m, n)
  BY DEF Capped
<1> HIDE DEF m
<1>5. /\ SubSeq(log, m, n) \in Seq(Record) /\ Len(SubSeq(log, m, n)) = n - m + 1
      /\ \A k \in 1..(n - m + 1) : SubSeq(log, m, n)[k] = log[m + k - 1]
  BY <1>1, <1>3
<1>6. Numbered(log) => Numbered(Capped(log))
  BY <1>1, <1>3, <1>4, <1>5 DEF Numbered
<1>7. Capped(log) \in Seq(Record) /\ Len(Capped(log)) = n - m + 1
  BY <1>4, <1>5
<1> HIDE DEF n
<1>8. m = IF n > LogMax THEN n - LogMax + 1 ELSE 1
  BY <1>1, <1>2
<1>9. /\ n - m + 1 <= LogMax
      /\ n - m + 1 < LogMax => n - m + 1 = n
  BY <1>1, <1>8
<1> QED
  BY <1>6, <1>7, <1>9 DEF n

(* Resolving an entry keeps its numbers.                                    *)
LEMMA MirroredIs ==
  ASSUME NEW log \in Seq(Record), NEW ids
  PROVE  /\ Mirrored(log, ids) \in Seq(Record) /\ Len(Mirrored(log, ids)) = Len(log)
         /\ Numbered(log) => Numbered(Mirrored(log, ids))
<1>1. \A r \in Record : /\ [r EXCEPT !.status = "resolved"] \in Record
                        /\ [r EXCEPT !.status = "resolved"].id = r.id
                        /\ [r EXCEPT !.status = "resolved"].no = r.no
  BY DEF Record
<1>2. DOMAIN Mirrored(log, ids) = 1..Len(log)
  BY DEF Mirrored
<1>3. \A k \in 1..Len(log) : log[k] \in Record
  OBVIOUS
<1>4. \A k \in 1..Len(log) : /\ Mirrored(log, ids)[k] \in Record
                             /\ Mirrored(log, ids)[k].id = log[k].id
                             /\ Mirrored(log, ids)[k].no = log[k].no
  BY <1>1, <1>3 DEF Mirrored
<1>5. Mirrored(log, ids) = [k \in 1..Len(log) |-> Mirrored(log, ids)[k]]
  BY DEF Mirrored
<1>6. Mirrored(log, ids) \in [1..Len(log) -> Record]
  BY <1>4, <1>5
<1> HIDE DEF Mirrored
<1>7. Mirrored(log, ids) \in Seq(Record) /\ Len(Mirrored(log, ids)) = Len(log)
  BY <1>6
<1>8. Numbered(log) => Numbered(Mirrored(log, ids))
  BY <1>2, <1>4 DEF Numbered
<1> QED
  BY <1>7, <1>8

LEMMA Finitely ==
  ASSUME NEW new \in SUBSET Conditions
  PROVE  IsFiniteSet(new) /\ new \subseteq Nat /\ Cardinality(new) \in Nat
<1>1. N \in Nat
  BY AlertAssumption
<1>2. IsFiniteSet(1..N)
  BY <1>1, FS_Interval
<1>3. new \in SUBSET (1..N) /\ new \subseteq Nat
  BY <1>1 DEF Conditions
<1>4. IsFiniteSet(new)
  BY <1>2, <1>3, FS_Subset
<1> QED
  BY <1>3, <1>4, FS_CardinalityType

(* A run numbers its new alerts behind the log it read.                     *)
LEMMA NewRecordIs ==
  ASSUME NEW s, NEW new \in SUBSET Conditions, NEW f \in Conditions,
         Len(s.log) = raised, raised \in Nat
  PROVE  NewRecord(s, new, f) \in Record /\ NewRecord(s, new, f).id = NewRecord(s, new, f).no
<1>1. Place(new, f) \in Nat
  <2>1. IsFiniteSet(new)
    BY Finitely
  <2>2. IsFiniteSet({g \in new : g <= f})
    BY <2>1, FS_Subset
  <2> QED
    BY <2>2, FS_CardinalityType DEF Place
<1> QED
  BY <1>1 DEF NewRecord, Rec, NextId, Record

(* The new alerts take the places 1, 2, .. without a gap.                   *)
LEMMA Places ==
  ASSUME NEW new \in SUBSET Conditions, NEW i \in 1..Cardinality(new)
  PROVE  \E f \in new : Place(new, f) = i
<1> DEFINE n == Cardinality(new)
           upto(f) == {g \in new : g <= f}
           place == [f \in new |-> Place(new, f)]
<1>1. IsFiniteSet(new) /\ new \subseteq Nat
  BY Finitely
<1>2. n \in Nat /\ IsFiniteSet(1..n) /\ Cardinality(1..n) = n
  BY <1>1, FS_CardinalityType, FS_Interval
<1>3. ASSUME NEW f \in new
      PROVE  Place(new, f) \in 1..n /\ IsFiniteSet(upto(f)) /\ Place(new, f) = Cardinality(upto(f))
  <2>1. upto(f) \in SUBSET new /\ f \in upto(f)
    BY <1>1
  <2>2. IsFiniteSet(upto(f)) /\ Cardinality(upto(f)) <= n /\ Cardinality(upto(f)) \in Nat
    BY <1>1, <2>1, FS_Subset, FS_CardinalityType
  <2>3. Cardinality(upto(f)) # 0
    BY <2>1, <2>2, FS_EmptySet
  <2>4. Place(new, f) = Cardinality(upto(f))
    BY DEF Place
  <2> HIDE DEF upto
  <2> QED
    BY <1>2, <2>2, <2>3, <2>4
<1>4. ASSUME NEW f \in new, NEW g \in new, f < g
      PROVE  Place(new, f) # Place(new, g)
  <2>0. f \in Nat /\ g \in Nat /\ \A h \in new : h \in Nat
    BY <1>1
  <2>1. \A h \in new : h <= f => h <= g
    BY <1>4, <2>0
  <2>2. g <= g /\ ~(g <= f)
    BY <1>4, <2>0
  <2>4. upto(f) \in SUBSET upto(g) /\ upto(f) # upto(g)
    BY <2>1, <2>2
  <2> HIDE DEF upto
  <2>3. Cardinality(upto(g)) # Cardinality(upto(f))
    BY <1>3, <2>4, FS_Subset
  <2> QED
    BY <1>3, <2>3
<1>5. \A f, g \in new : f # g => Place(new, f) # Place(new, g)
  BY <1>1, <1>4
<1>6. place \in [new -> 1..n] /\ \A f, g \in new : place[f] = place[g] => f = g
  BY <1>3, <1>5
<1> HIDE DEF place, n
<1>7. place \in Injection(new, 1..n)
  BY <1>6 DEF Injection, IsInjective
<1>8. place \in Surjection(new, 1..n)
  BY <1>2, <1>7, FS_Injection DEF n
<1>9. \E f \in new : place[f] = i
  BY <1>8 DEF Surjection, n
<1> QED
  BY <1>9 DEF place

LEMMA NewRecordsAre ==
  ASSUME NEW s, NEW new \in SUBSET Conditions, s.log \in Seq(Record), Numbered(s.log),
         Len(s.log) = raised, raised \in Nat
  PROVE  /\ s.log \o NewRecords(s, new) \in Seq(Record)
         /\ Len(s.log \o NewRecords(s, new)) = raised + Cardinality(new)
         /\ Numbered(s.log \o NewRecords(s, new))
<1> DEFINE n == Cardinality(new)
           t == NewRecords(s, new)
<1>1. n \in Nat
  BY Finitely
<1>2. t = [i \in 1..n |-> t[i]] /\ DOMAIN t = 1..n
  BY DEF NewRecords
<1>3. ASSUME NEW i \in 1..n
      PROVE  t[i] \in Record /\ t[i].id = t[i].no
  <2> DEFINE f == CHOOSE f \in new : Place(new, f) = i
  <2>1. f \in new
    BY Places
  <2>2. t[i] = NewRecord(s, new, f)
    BY DEF NewRecords
  <2> HIDE DEF f, t
  <2>3. f \in Conditions
    BY <2>1
  <2> QED
    BY <2>2, <2>3, NewRecordIs
<1> HIDE DEF t, n
<1>4. t \in Seq(Record) /\ Len(t) = n
  BY <1>1, <1>2, <1>3
<1>5. /\ s.log \o t \in Seq(Record) /\ Len(s.log \o t) = Len(s.log) + n
      /\ \A k \in 1..(Len(s.log) + n) :
           (s.log \o t)[k] = IF k <= Len(s.log) THEN s.log[k] ELSE t[k - Len(s.log)]
  BY <1>1, <1>4
<1>6. \A k \in 1..(Len(s.log) + n) : (s.log \o t)[k].id = (s.log \o t)[k].no
  <2>1. \A k \in 1..Len(s.log) : s.log[k].id = s.log[k].no
    BY DEF Numbered
  <2>2. \A k \in 1..(Len(s.log) + n) : k \in 1..Len(s.log) \/ k - Len(s.log) \in 1..n
    BY <1>1
  <2> QED
    BY <1>1, <1>3, <1>5, <2>1, <2>2
<1>7. Numbered(s.log \o t)
  BY <1>1, <1>5, <1>6 DEF Numbered
<1> QED
  BY <1>5, <1>7 DEF t, n

(* A run puts its records behind the log it read, which is the log as it    *)
(* is, and keeps the records of what is still active.                       *)
LEMMA SaveRunTells ==
  ASSUME NEW a \in Actors, Sound, OneEach, SaveRun(a), ~reissued'
  PROVE  OneEach'
<1> DEFINE found == job[a].found
           new == Fired(store, found)
           ended == {store.active[f].id : f \in DOMAIN store.active \ found}
           all == store.log \o NewRecords(store, new)
<1>1. /\ job[a].pc = "loaded" /\ job[a].copy = store
      /\ \A b \in Actors \ {a} : job[b].pc = "idle"
  BY DEF SaveRun, Sound, Current, Exclusive
<1>2. /\ store' = Merged(store, found) /\ job' = [job EXCEPT ![a].pc = "saved", ![a].fresh = new]
      /\ raised' = raised + Cardinality(new) /\ tap' = tap /\ holds' = holds
      /\ Cardinality(new) > 0 => Len(store.log) # LogMax
  BY <1>1 DEF SaveRun, Issued, world
<1>3. /\ DOMAIN store = {"active", "log", "muted"} /\ DOMAIN job = Actors
      /\ DOMAIN job[a] = JobFields
      /\ found \subseteq Conditions /\ new \in SUBSET Conditions
      /\ raised \in Nat /\ store.active \in Kept /\ store.log \in Seq(Record)
  BY <1>1 DEF Sound, Shape, OneEach, Typed, Fired
<1>4. Cardinality(new) \in Nat /\ IsFiniteSet(new)
  BY <1>3, Finitely
<1>5. /\ store'.active = [f \in found |-> IF f \in new THEN NewRecord(store, new, f) ELSE store.active[f]]
      /\ store'.log = Capped(Mirrored(all, ended))
  BY <1>2, <1>3 DEF Merged
<1>6. \A b \in Actors : job'[b].pc # "loaded"
  BY <1>1, <1>2, <1>3 DEF JobFields
<1> HIDE DEF found, new, ended, all
<1>7. /\ all \in Seq(Record) /\ Numbered(all)
      /\ Len(all) = Len(store.log) + Cardinality(new)
      /\ Len(store.log) <= LogMax /\ (Len(store.log) < LogMax => Len(store.log) = raised)
      /\ \A f \in new : NewRecord(store, new, f) \in Record /\ NewRecord(store, new, f).id = NewRecord(store, new, f).no
  <2>1. CASE Cardinality(new) = 0
    <3>1. new = {}
      BY <1>4, <2>1, FS_EmptySet
    <3>2. NewRecords(store, new) = << >>
      BY <2>1 DEF NewRecords
    <3>3. all = store.log
      BY <1>3, <3>2 DEF all
    <3> QED
      BY <1>3, <2>1, <3>1, <3>3 DEF OneEach, Counted
  <2>2. CASE Cardinality(new) # 0
    <3>1. Len(store.log) = raised
      BY <1>2, <1>3, <1>4, <2>2, AlertAssumption DEF OneEach, Counted
    <3>2. Numbered(store.log)
      BY DEF OneEach
    <3>3. /\ all \in Seq(Record) /\ Len(all) = raised + Cardinality(new) /\ Numbered(all)
      BY <1>3, <3>1, <3>2, NewRecordsAre DEF all
    <3> QED
      BY <1>3, <3>1, <3>3, NewRecordIs DEF OneEach, Counted
  <2> QED
    BY <2>1, <2>2
<1>8. /\ store'.log \in Seq(Record) /\ Numbered(store'.log) /\ Len(store'.log) <= LogMax
      /\ Len(store'.log) < LogMax => Len(store'.log) = Len(all)
  BY <1>5, <1>7, MirroredIs, CappedIs
<1>9. Len(store'.log) < LogMax => Len(store'.log) = raised'
  <2>1. Len(all) \in Nat /\ Len(store.log) \in Nat /\ LogMax \in Nat
    BY <1>3, <1>7, AlertAssumption
  <2> QED
    BY <1>2, <1>4, <1>7, <1>8, <2>1
<1>10. store'.active \in [DOMAIN store'.active -> Record] /\ Numbered(store'.active)
  <2>1. ASSUME NEW f \in found
        PROVE  store'.active[f] \in Record /\ store'.active[f].id = store'.active[f].no
    <3>1. f \in new \/ f \in DOMAIN store.active
      BY <2>1 DEF new, Fired
    <3>2. f \notin new => store.active[f] \in Record /\ store.active[f].id = store.active[f].no
      BY <1>3, <3>1 DEF OneEach, Numbered, Kept
    <3> QED
      BY <1>5, <1>7, <3>2
  <2>2. DOMAIN store'.active = found
    BY <1>5
  <2>3. store'.active = [f \in DOMAIN store'.active |-> store'.active[f]]
    BY <1>5
  <2> QED
    BY <2>1, <2>2, <2>3 DEF Numbered
<1>11. raised' \in Nat
  BY <1>2, <1>3, <1>4
<1>12. Asks'
  BY <1>2 DEF OneEach, Asks
<1>13. Typed'
  BY <1>2, <1>6, <1>8, <1>10, <1>11 DEF OneEach, Typed, Kept
<1> QED
  BY <1>8, <1>9, <1>10, <1>12, <1>13 DEF OneEach, Counted

LEMMA SaveEventTells ==
  ASSUME NEW a \in Actors, Sound, OneEach, SaveEvent(a), ~reissued'
  PROVE  OneEach'
<1> DEFINE r == [Rec(Event, NextId(store, 1), raised + 1) EXCEPT !.status = "event"]
           all == Append(store.log, r)
<1>1. /\ job[a].pc = "loaded" /\ job[a].copy = store
      /\ \A b \in Actors \ {a} : job[b].pc = "idle"
  BY DEF SaveEvent, Sound, Current, Exclusive
<1>2. /\ store' = Appended(store) /\ job' = [job EXCEPT ![a] = NoJob]
      /\ raised' = raised + 1 /\ tap' = tap /\ holds' = holds /\ Len(store.log) # LogMax
  <2>1. store' = Appended(store) /\ job' = [job EXCEPT ![a] = NoJob] /\ Issued(a, 1)
    BY <1>1 DEF SaveEvent
  <2>2. raised' = raised + 1 /\ tap' = tap /\ holds' = holds
    BY <2>1 DEF Issued, world
  <2>3. reissued' = (reissued \/ (1 > 0 /\ Len(store.log) = LogMax))
    BY <1>1, <2>1 DEF Issued
  <2>4. 1 > 0
    OBVIOUS
  <2> QED
    BY <2>1, <2>2, <2>3, <2>4
<1>3. /\ DOMAIN store = {"active", "log", "muted"} /\ DOMAIN job = Actors
      /\ raised \in Nat /\ store.active \in Kept /\ store.log \in Seq(Record)
      /\ Numbered(store.log) /\ Numbered(store.active)
  BY DEF Sound, Shape, OneEach, Typed
<1>4. Len(store.log) = raised
  BY <1>2, <1>3, AlertAssumption DEF OneEach, Counted
<1>5. store'.active = store.active /\ store'.log = Capped(all)
  BY <1>2, <1>3 DEF Appended
<1>6. \A b \in Actors : job'[b].pc # "loaded"
  BY <1>1, <1>2, <1>3 DEF NoJob
<1>7. r \in Record /\ r.id = r.no
  <2> DEFINE x == Rec(Event, NextId(store, 1), raised + 1)
  <2>1. x \in Record /\ x.id = x.no
    BY <1>3, <1>4 DEF Rec, NextId, Record
  <2>2. r = [x EXCEPT !.status = "event"]
    OBVIOUS
  <2> HIDE DEF r, x
  <2> QED
    BY <2>1, <2>2 DEF Record
<1> HIDE DEF r
<1>8. /\ all \in Seq(Record) /\ Len(all) = raised + 1
      /\ all[raised + 1] = r /\ \A k \in 1..raised : all[k] = store.log[k]
  <2> DEFINE log == store.log
  <2>1. log \in Seq(Record) /\ Len(log) = raised /\ r \in Record
    BY <1>3, <1>4, <1>7
  <2>2. all = Append(log, r)
    OBVIOUS
  <2> HIDE DEF log, all
  <2>3. /\ all \in Seq(Record) /\ Len(all) = Len(log) + 1
        /\ all[Len(log) + 1] = r /\ \A k \in 1..Len(log) : all[k] = log[k]
    BY <2>1, <2>2
  <2> QED
    BY <2>1, <2>3 DEF log
<1>9. Numbered(all)
  <2>1. DOMAIN all = 1..(raised + 1) /\ DOMAIN store.log = 1..raised
    BY <1>3, <1>4, <1>8
  <2> HIDE DEF all
  <2>2. \A k \in 1..(raised + 1) : k = raised + 1 \/ k \in 1..raised
    BY <1>3
  <2> QED
    BY <1>3, <1>7, <1>8, <2>1, <2>2 DEF Numbered
<1> HIDE DEF all
<1>10. /\ store'.log \in Seq(Record) /\ Numbered(store'.log) /\ Len(store'.log) <= LogMax
       /\ Len(store'.log) < LogMax => Len(store'.log) = raised'
  BY <1>2, <1>5, <1>8, <1>9, CappedIs
<1>11. Typed' /\ Asks'
  BY <1>2, <1>3, <1>5, <1>6, <1>10 DEF OneEach, Typed, Kept, Asks
<1> QED
  BY <1>3, <1>5, <1>10, <1>11 DEF OneEach, Counted

(* An operator's tap marks records and switches types; the records keep     *)
(* their numbers.                                                           *)
LEMMA SeenTells ==
  ASSUME NEW ids, Sound, OneEach, store' = Seen(store, ids),
         UNCHANGED <<job, holds, raised>>, tap' = NoTap
  PROVE  OneEach'
<1> DEFINE mark(r) == IF r.id \in ids THEN [r EXCEPT !.ack = TRUE] ELSE r
<1>1. /\ DOMAIN store = {"active", "log", "muted"}
      /\ store.active \in Kept /\ store.log \in Seq(Record)
      /\ Numbered(store.log) /\ Numbered(store.active)
  BY DEF Sound, Shape, OneEach, Typed
<1>2. /\ store'.active = [f \in DOMAIN store.active |-> mark(store.active[f])]
      /\ store'.log = [k \in DOMAIN store.log |-> mark(store.log[k])]
  BY <1>1 DEF Seen
<1>3. \A r \in Record : mark(r) \in Record /\ mark(r).id = r.id /\ mark(r).no = r.no
  BY DEF Record
<1> HIDE DEF mark
<1>4. store'.active \in [DOMAIN store'.active -> Record] /\ Numbered(store'.active)
  BY <1>1, <1>2, <1>3 DEF Kept, Numbered
<1>5. Len(store.log) \in Nat /\ DOMAIN store.log = 1..Len(store.log)
  BY <1>1
<1>6. store'.log \in [1..Len(store.log) -> Record] /\ Numbered(store'.log)
  BY <1>1, <1>2, <1>3, <1>5 DEF Numbered
<1>7. store'.log \in Seq(Record) /\ Len(store'.log) = Len(store.log)
  BY <1>5, <1>6
<1> QED
  BY <1>4, <1>6, <1>7 DEF OneEach, Typed, Kept, Counted, Asks, NoTap

LEMMA TapTells ==
  ASSUME Sound, OneEach, acknowledge \/ acknowledge_all \/ update_settings, ~crossed'
  PROVE  OneEach'
<1>1. CASE acknowledge \/ acknowledge_all
  <2>1. PICK ids : TapSave(Seen(tap.copy, ids))
    BY <1>1 DEF acknowledge, acknowledge_all
  <2>2. store' = Seen(store, ids) /\ UNCHANGED <<job, holds, raised>> /\ tap' = NoTap
    BY <2>1, TapSaveAlone DEF TapSave, world
  <2> QED
    BY <2>2, SeenTells
<1>2. CASE update_settings
  <2>1. PICK m : TapSave([tap.copy EXCEPT !.muted = m])
    BY <1>2 DEF update_settings
  <2>2. store' = [store EXCEPT !.muted = m] /\ UNCHANGED <<job, holds, raised>> /\ tap' = NoTap
    BY <2>1, TapSaveAlone DEF TapSave, world
  <2>3. store'.active = store.active /\ store'.log = store.log
    BY <2>2 DEF Sound, Shape
  <2> QED
    BY <2>2, <2>3 DEF OneEach, Typed, Kept, Counted, Asks, NoTap
<1> QED
  BY <1>1, <1>2

(* What the operator is shown comes from the store.                         *)
LEMMA ViewTells ==
  ASSUME OneEach, view PROVE OneEach'
<1>1. PICK q \in Requests : tap' = [pc |-> "shown", request |-> q]
  BY DEF view
<1>2. UNCHANGED <<store, job, holds, raised>>
  BY DEF view, world, engine, history
<1>3. \A r \in Records(store) : r.id = r.no
  BY DEF OneEach, Numbered, Records, Range
<1>4. q.op = "ack" => q.id = q.no
  BY <1>1, <1>3 DEF Requests
<1>5. Asks'
  BY <1>1, <1>4 DEF Asks
<1> QED
  BY <1>2, <1>5 DEF OneEach, Typed, Kept, Counted

(* The steps that leave the records alone.                                  *)
LEMMA QuietTells ==
  ASSUME OneEach, UNCHANGED <<store, raised>>, holds' \subseteq Conditions,
         \A a \in Actors : job'[a].pc = "loaded" => job'[a].found \subseteq Conditions,
         tap'.pc = "idle" \/ (tap'.request = tap.request /\ tap.pc # "idle") \/ tap' = tap
  PROVE  OneEach'
  BY DEF OneEach, Typed, Kept, Counted, Asks

LEMMA ReissuedStays == [Next]_vars /\ reissued => reissued'
  BY DEF Next, vars, ExpiryCheck, SlotRun, HttpRun, RecordEvent, Called, Start, SaveRun,
     SaveEvent, Issued, Dispatch, Raises, view, TapLoad, acknowledge, acknowledge_all,
     update_settings, TapSave, Idle, Begins, Ends, Flip, Crash, history

LEMMA StartTells ==
  ASSUME NEW a \in Actors, NEW kind, NEW keys, Sound, OneEach, Start(a, kind, keys)
  PROVE  OneEach'
<1>1. PICK broken : job' = [job EXCEPT ![a] =
        [pc |-> "loaded", kind |-> kind, keys |-> keys, copy |-> store,
         found |-> (holds \ store.muted) \ broken, fresh |-> {}]]
  BY DEF Start
<1>2. DOMAIN job = Actors /\ holds \subseteq Conditions
  BY DEF Sound, Shape, OneEach, Typed
<1>3. job'[a].found \subseteq Conditions /\ \A b \in Actors \ {a} : job'[b] = job[b]
  BY <1>1, <1>2
<1>4. \A b \in Actors : job'[b].pc = "loaded" => job'[b].found \subseteq Conditions
  BY <1>3 DEF OneEach, Typed
<1> QED
  BY <1>2, <1>4, QuietTells DEF Start, world

LEMMA EndTells ==
  ASSUME NEW a \in Actors, Sound, OneEach, Dispatch(a) \/ Raises(a) PROVE OneEach'
<1>1. job' = [job EXCEPT ![a] = NoJob] /\ UNCHANGED <<store, raised, holds, tap>>
  BY DEF Dispatch, Raises, world, history
<1>2. DOMAIN job = Actors /\ holds \subseteq Conditions
  BY DEF Sound, Shape, OneEach, Typed
<1>3. \A b \in Actors : job'[b].pc = "loaded" => job'[b].found \subseteq Conditions
  BY <1>1, <1>2 DEF OneEach, Typed, NoJob
<1> QED
  BY <1>1, <1>2, <1>3, QuietTells

LEMMA CrashTells ==
  ASSUME OneEach, Crash PROVE OneEach'
<1>1. /\ UNCHANGED <<store, raised, holds>> /\ tap'.pc = "idle"
      /\ \A b \in Actors : job'[b].pc # "loaded"
  BY DEF Crash, world, history, NoTap, NoJob
<1>2. holds \subseteq Conditions
  BY DEF OneEach, Typed
<1> QED
  BY <1>1, <1>2, QuietTells

LEMMA LookTells ==
  ASSUME OneEach, TapLoad \/ Idle \/ UNCHANGED vars PROVE OneEach'
<1>1. /\ UNCHANGED <<store, raised, holds, job>>
      /\ tap'.pc = "idle" \/ (tap'.request = tap.request /\ tap.pc # "idle") \/ tap' = tap
  BY DEF TapLoad, Idle, vars, world, engine, history, NoTap
<1>2. /\ holds \subseteq Conditions
      /\ \A a \in Actors : job[a].pc = "loaded" => job[a].found \subseteq Conditions
  BY DEF OneEach, Typed
<1> QED
  BY <1>1, <1>2, QuietTells

LEMMA FlipTells ==
  ASSUME NEW f \in Conditions, OneEach, Begins(f) \/ Ends(f) PROVE OneEach'
<1>1. UNCHANGED <<store, raised, job, tap>> /\ holds' = SymDiff(holds, {f})
  BY DEF Begins, Ends, Flip, engine
<1>2. /\ holds \subseteq Conditions
      /\ \A a \in Actors : job[a].pc = "loaded" => job[a].found \subseteq Conditions
  BY DEF OneEach, Typed
<1>3. holds' \subseteq Conditions
  BY <1>1, <1>2 DEF SymDiff
<1> QED
  BY <1>1, <1>2, <1>3, QuietTells

LEMMA IdsTellStep == IInv /\ IdsTell /\ [Next]_vars => IdsTell'
<1> SUFFICES ASSUME Sound, OneEach, [Next]_vars, ~crossed', ~reissued' PROVE OneEach'
  BY CrossedStays, ReissuedStays DEF IInv, IdsTell
<1>1. CASE ExpiryCheck \/ SlotRun \/ HttpRun \/ RecordEvent
  BY <1>1, StartTells DEF ExpiryCheck, SlotRun, HttpRun, RecordEvent, Called, Actors
<1>2. ASSUME NEW a \in Actors, SaveRun(a) \/ SaveEvent(a) \/ Dispatch(a) \/ Raises(a)
      PROVE  OneEach'
  BY <1>2, SaveRunTells, SaveEventTells, EndTells
<1>3. CASE acknowledge \/ acknowledge_all \/ update_settings
  BY <1>3, TapTells
<1>4. ASSUME NEW f \in Conditions, Begins(f) \/ Ends(f) PROVE OneEach'
  BY <1>4, FlipTells
<1>5. CASE view
  BY <1>5, ViewTells
<1>6. CASE Crash
  BY <1>6, CrashTells
<1>7. CASE TapLoad \/ Idle \/ UNCHANGED vars
  BY <1>7, LookTells
<1> QED
  BY <1>1, <1>2, <1>3, <1>4, <1>5, <1>6, <1>7 DEF Next

(* At the start there is no record.                                         *)
LEMMA InitTells == Init => IdsTell
<1> SUFFICES ASSUME Init PROVE OneEach
  BY DEF IdsTell
<1>1. /\ store.active = << >> /\ store.log = << >> /\ raised = 0 /\ holds = {} /\ tap.pc = "idle"
      /\ \A a \in Actors : job[a].pc # "loaded"
  BY DEF Init, NoJob, NoTap
<1>2. LogMax \in Nat
  BY AlertAssumption
<1> QED
  BY <1>1, <1>2 DEF OneEach, Typed, Kept, Counted, Numbered, Asks

(* A marked record has the id that was tapped, and so is the one shown.     *)
LEMMA MarksOne ==
  ASSUME IdsTell, ~crossed', ~reissued, acknowledge
  PROVE  Unread(store, store', tap.request.no) = {}
<1>1. tap.pc = "loaded" /\ tap.request.op = "ack" /\ TapSave(Seen(tap.copy, {tap.request.id}))
  BY DEF acknowledge, Asked
<1>2. ~crossed /\ tap.copy = store /\ store' = Seen(store, {tap.request.id})
  BY <1>1, TapSaveAlone
<1>3. OneEach
  BY <1>2 DEF IdsTell
<1>4. tap.request.id = tap.request.no
  BY <1>1, <1>3 DEF OneEach, Asks
<1> DEFINE mark(r) == IF r.id \in {tap.request.id} THEN [r EXCEPT !.ack = TRUE] ELSE r
<1>5. store'.active = [f \in DOMAIN store.active |-> mark(store.active[f])]
  BY <1>2 DEF Seen
<1>6. ASSUME NEW f \in DOMAIN store'.active, store'.active[f].ack, ~store.active[f].ack
      PROVE  store'.active[f].no = tap.request.no
  <2>1. f \in DOMAIN store.active /\ store'.active[f] = mark(store.active[f])
    BY <1>5, <1>6
  <2>2. store.active[f].id = store.active[f].no /\ store.active[f] \in Record
    BY <1>3, <2>1 DEF OneEach, Typed, Kept, Numbered
  <2>3. store.active[f].id = tap.request.id
    BY <1>6, <2>1
  <2>4. store'.active[f].no = store.active[f].no
    BY <2>1, <2>2 DEF Record
  <2> QED
    BY <1>4, <2>2, <2>3, <2>4
<1>7. DOMAIN store'.active = DOMAIN store.active
  BY <1>5
<1> QED
  BY <1>6, <1>7 DEF Unread

(* As long as no tap crossed another write and no id was given on a full    *)
(* log, an acknowledgement marks the alert that was shown, for any number   *)
(* of conditions, calls and crashes and any length of the log.              *)
THEOREM MarksTheOneShownAlways == Spec => MarksTheOneShown
<1>1. IdsTell /\ [Next]_vars =>
        [crossed' \/ reissued \/ (acknowledge => Unread(store, store', tap.request.no) = {})]_vars
  BY MarksOne
<1> QED
  BY <1>1, InitTells, IdsTellStep, Inductive, PTL DEF Spec, MarksTheOneShown
=============================================================================
