---------------------------- MODULE StateStore ----------------------------
(***************************************************************************)
(* The state file and the order journal (src/backend/logging_handler.py),  *)
(* their backups (backups.py) and schema migration (migrations.py).        *)
(*                                                                         *)
(* A book is one state file.  The app is one process with several threads  *)
(* and one lock; the file itself is replaced by rename, so a reader sees   *)
(* the old content or the new one, and a power cut can undo a rename that  *)
(* no fsync of the directory followed.  That fsync may fail, and the code  *)
(* goes on as if it had not; nothing is flushed by itself (the worst case).*)
(* Backups are plain copies.                                               *)
(***************************************************************************)
EXTENDS Naturals, Sequences, FiniteSets

CONSTANTS
  Threads, Updates,
  Books,            \* the live book and the demo book
  Live,             \* the book the app starts on
  Kinds,            \* the operations the threads run
  Keep,             \* config.BACKUP_RETENTION
  MaxBackups, MaxFaults,
  MaxLines,         \* lines of the journal
  MaxActs           \* switches, resets, lost files and restores over a good file

AllKinds == {"mutate", "stale", "reset", "backup"}

Free == "free"

ASSUME StoreAssumption ==
  /\ Live \in Books /\ Free \notin Threads
  /\ Kinds \subseteq AllKinds
  /\ Keep \in Nat \ {0}
  /\ {MaxBackups, MaxFaults, MaxLines, MaxActs} \subseteq Nat

None == "none"
Corrupt == [done |-> {}, v |-> 0]       \* a file that does not parse
CodeVersion == 2                        \* migrations.CURRENT_VERSION after the deploy
File == [done : SUBSET Updates, v : 1..CodeVersion]

VARIABLES
  app,      \* "down", "booting" or "up"
  code,     \* schema version of the running program
  mode,     \* config._demo_mode, as the book it selects
  target,   \* [Books -> file]: what the path shows
  synced,   \* [Books -> file]: what a power cut leaves at least
  stamp,    \* [Books -> Nat]: mtime of the file
  lock,     \* _lock's owner
  pc, op, upd, copy, src, dst, stage,     \* one operation per thread
  backups,  \* the files in the backups directory
  made,     \* how many were started, to number them
  journal,  \* the journal's lines
  ragged,   \* the journal's last line has no newline
  begun,                   \* history: the updates some caller has begun
  acked, past, loose,      \* history: as in OrderLedger
  journaled,               \* history: acknowledged journal entries
  migrated, nightly,       \* history: the file a migration replaced, the last full backup
  astray,                  \* history: a nightly job checked one book and copied another
  cuts, faults, acts       \* counters for the bounds: power cuts, other mishaps, acts

disk == <<target, synced, stamp>>
thread == <<lock, pc, op, upd, copy, src, dst, stage>>
log == <<journal, ragged, journaled>>
counters == <<cuts, faults, acts>>
ledger == <<acked, past, loose>>
history == <<begun, ledger, migrated, nightly, astray>>
vars == <<app, code, mode, disk, thread, backups, made, log, history, counters>>

Init ==
  /\ app = "up" /\ code = 1 /\ mode = Live
  /\ target = [b \in Books |-> [done |-> {}, v |-> 1]]
  /\ synced = target
  /\ stamp = [b \in Books |-> 0]
  /\ lock = Free
  /\ pc = [t \in Threads |-> "idle"]
  /\ op = [t \in Threads |-> None]
  /\ upd = [t \in Threads |-> {}]
  /\ copy = [t \in Threads |-> Corrupt]
  /\ src = [t \in Threads |-> Live]
  /\ dst = [t \in Threads |-> Live]
  /\ stage = [t \in Threads |-> "save"]
  /\ backups = {} /\ made = 0
  /\ journal = << >> /\ ragged = FALSE /\ journaled = {}
  /\ acked = [b \in Books |-> {}]
  /\ past = [b \in Books |-> {{}}]
  /\ begun = {} /\ loose = {} /\ astray = FALSE
  /\ migrated = [b \in Books |-> Corrupt]
  /\ nightly = [b \in Books |-> Corrupt]
  /\ cuts = 0 /\ faults = 0 /\ acts = 0

---------------------------------------------------------------------------
(* One thread's operation.                                                 *)

Mishaps == cuts + faults

At(t, label) == pc[t] = label
Goto(t, label) == pc' = [pc EXCEPT ![t] = label]
Quiet == \A t \in Threads : At(t, "idle")

Take(t) == lock = Free /\ lock' = t
(* The operation is over: what it held in memory is gone. *)
End(t) ==
  /\ Goto(t, "idle")
  /\ op' = [op EXCEPT ![t] = None]
  /\ upd' = [upd EXCEPT ![t] = {}]
  /\ copy' = [copy EXCEPT ![t] = Corrupt]
  /\ src' = [src EXCEPT ![t] = Live]
  /\ dst' = [dst EXCEPT ![t] = Live]
  /\ stage' = [stage EXCEPT ![t] = "save"]
  /\ lock' = Free

(* load_state: an older schema is snapshotted before anything else; a file *)
(* that does not parse raises, and the operation or the start-up is over    *)
(* before it began.                                                         *)
Load(t) ==
  /\ target[mode] # Corrupt
  /\ Take(t)
  /\ copy' = [copy EXCEPT ![t] = target[mode]]
  /\ src' = [src EXCEPT ![t] = mode]
  /\ Goto(t, IF target[mode].v < code' THEN "snapshot" ELSE "loaded")

(* mutate_state, append_* and save_* load under the lock; a load .. save    *)
(* section starts with a load of its own.                                   *)
Begin(t, kind, u) ==
  /\ app = "up" /\ At(t, "idle")
  /\ kind \in Kinds \intersect {"mutate", "stale"}
  /\ u \notin begun
  /\ code' = code
  /\ Load(t)
  /\ op' = [op EXCEPT ![t] = kind]
  /\ upd' = [upd EXCEPT ![t] = {u}]
  /\ begun' = begun \union {u}
  /\ UNCHANGED <<app, mode, disk, dst, stage, backups, made, log, ledger, migrated, nightly,
                 astray, counters>>

(* A backup file: a copy in progress is torn.  copy2 gives a finished copy  *)
(* the mtime of the state file; a torn one is newer than that.              *)
TornCopy(kind, b) ==
  [id |-> made + 1, kind |-> kind, of |-> b, file |-> Corrupt, at |-> 2 * stamp[b] + 1]
StartCopy(kind, b) ==
  /\ made < MaxBackups
  /\ made' = made + 1
  /\ backups' = backups \union {TornCopy(kind, b)}
FinishCopy ==
  /\ backups' = {IF k.id = made THEN [k EXCEPT !.file = target[k.of], !.at = 2 * stamp[k.of]]
                 ELSE k : k \in backups}
  /\ UNCHANGED made

SnapshotStart(t) ==
  /\ At(t, "snapshot")
  /\ StartCopy("pre", src[t])
  /\ Goto(t, "snapshotting")
  /\ UNCHANGED <<app, code, mode, disk, lock, op, upd, copy, src, dst, stage, log,
                 history, counters>>

(* snapshot_before_migration has returned: migrate and write. *)
SnapshotDone(t) ==
  /\ At(t, "snapshotting")
  /\ FinishCopy
  /\ copy' = [copy EXCEPT ![t].v = code]
  /\ stage' = [stage EXCEPT ![t] = "migrate"]
  /\ Goto(t, "write")
  /\ UNCHANGED <<app, code, mode, disk, lock, op, upd, src, dst, log, history, counters>>

(* A bug: the migration goes on without its snapshot. *)
SnapshotFailsIgnored(t) ==
  /\ At(t, "snapshotting") /\ Mishaps < MaxFaults
  /\ faults' = faults + 1
  /\ copy' = [copy EXCEPT ![t].v = code]
  /\ stage' = [stage EXCEPT ![t] = "migrate"]
  /\ Goto(t, "write")
  /\ UNCHANGED <<app, code, mode, disk, lock, op, upd, src, dst, backups, made, log, history,
                 cuts, acts>>

(* The snapshot fails: the migration is aborted, nothing is written. *)
SnapshotFails(t) ==
  /\ At(t, "snapshotting") /\ Mishaps < MaxFaults
  /\ faults' = faults + 1
  /\ End(t)
  /\ app' = IF app = "booting" THEN "down" ELSE app
  /\ UNCHANGED <<code, mode, disk, backups, made, log, history, cuts, acts>>

(* mutate_state applies its function and goes on to save. *)
Apply(t) ==
  /\ At(t, "loaded") /\ op[t] = "mutate"
  /\ copy' = [copy EXCEPT ![t].done = @ \union upd[t]]
  /\ stage' = [stage EXCEPT ![t] = "save"]
  /\ Goto(t, "write")
  /\ UNCHANGED <<app, code, mode, disk, lock, op, upd, src, dst, backups, made, log,
                 history, counters>>

(* A load .. save section has its copy and lets the lock go. *)
Hold(t) ==
  /\ At(t, "loaded") /\ op[t] = "stale"
  /\ copy' = [copy EXCEPT ![t].done = @ \union upd[t]]
  /\ stage' = [stage EXCEPT ![t] = "save"]
  /\ lock' = Free
  /\ Goto(t, "hold")
  /\ UNCHANGED <<app, code, mode, disk, op, upd, src, dst, backups, made, log, history, counters>>

(* save_state of that copy. *)
Save(t) ==
  /\ At(t, "hold")
  /\ Take(t)
  /\ Goto(t, "write")
  /\ UNCHANGED <<app, code, mode, disk, op, upd, copy, src, dst, stage, backups, made, log,
                 history, counters>>

(* reset_book resolves its path once and writes a fresh book there. *)
BeginReset(t) ==
  /\ app = "up" /\ At(t, "idle") /\ "reset" \in Kinds /\ acts < MaxActs
  /\ acts' = acts + 1
  /\ Take(t)
  /\ op' = [op EXCEPT ![t] = "reset"]
  /\ src' = [src EXCEPT ![t] = mode]
  /\ copy' = [copy EXCEPT ![t] = [done |-> {}, v |-> code]]
  /\ Goto(t, "write")
  /\ UNCHANGED <<app, code, mode, disk, upd, dst, stage, backups, made, log, history,
                 cuts, faults>>

(* A write puts an older content back if it comes from an unlocked copy, if *)
(* it is a reset, or if the mode was switched since the load.               *)
PutsBack(t, b) == src[t] # b \/ (stage[t] = "save" /\ op[t] \in {"stale", "reset"})

(* _atomic_write up to the rename.  _write resolves the path now, reset_book *)
(* did before.                                                              *)
Replace(t) ==
  LET b == IF op[t] = "reset" THEN src[t] ELSE mode IN
  /\ At(t, "write")
  /\ target' = [target EXCEPT ![b] = copy[t]]
  /\ stamp' = [stamp EXCEPT ![b] = @ + 1]
  /\ dst' = [dst EXCEPT ![t] = b]
  /\ past' = [past EXCEPT ![b] = @ \union {copy[t].done}]
  /\ acked' = IF PutsBack(t, b) THEN [acked EXCEPT ![b] = @ \intersect copy[t].done] ELSE acked
  /\ migrated' = IF stage[t] = "migrate" /\ src[t] = b
                 THEN [migrated EXCEPT ![b] = target[b]] ELSE migrated
  /\ Goto(t, "sync")
  /\ UNCHANGED <<app, code, mode, synced, lock, op, upd, copy, src, stage, backups, made, log,
                 begun, loose, nightly, astray, counters>>

(* The write fails before the rename: the temp file goes, the error rises. *)
WriteFails(t) ==
  /\ At(t, "write") /\ Mishaps < MaxFaults
  /\ faults' = faults + 1
  /\ End(t)
  /\ app' = IF app = "booting" THEN "down" ELSE app
  /\ UNCHANGED <<code, mode, disk, backups, made, log, history, cuts, acts>>

(* The directory's fsync makes the rename of the file durable; when it      *)
(* fails the error is swallowed and the books in unsafe are loose.          *)
SyncDirectory(b, file, unsafe) ==
  \/ synced' = [synced EXCEPT ![b] = file] /\ loose' = loose \ {b}
  \/ UNCHANGED synced /\ loose' = loose \union unsafe

(* Then a migrating load goes on with its copy. *)
SyncMigrated(t) ==
  /\ At(t, "sync") /\ stage[t] = "migrate"
  /\ SyncDirectory(dst[t], target[dst[t]], {})
  /\ stage' = [stage EXCEPT ![t] = "save"]
  /\ Goto(t, "loaded")
  /\ UNCHANGED <<app, code, mode, target, stamp, lock, op, upd, copy, src, dst, backups, made,
                 log, begun, acked, past, migrated, nightly, astray, counters>>

(* A bug: nobody syncs the directory. *)
SyncSavedUnsynced(t) ==
  /\ At(t, "sync") /\ stage[t] = "save"
  /\ acked' = [acked EXCEPT ![dst[t]] = @ \union upd[t]]
  /\ End(t)
  /\ UNCHANGED <<app, code, mode, disk, backups, made, log, begun, past, loose, migrated,
                 nightly, astray, counters>>

(* Then the caller has its answer. *)
SyncSaved(t) ==
  LET b == dst[t] IN
  /\ At(t, "sync") /\ stage[t] = "save"
  /\ SyncDirectory(b, target[b], {b})
  /\ acked' = [acked EXCEPT ![b] = @ \union upd[t]]
  /\ End(t)
  /\ UNCHANGED <<app, code, mode, target, stamp, backups, made, log, begun, past, migrated,
                 nightly, astray, counters>>

(* startup_check has loaded the book. *)
Booted(t) ==
  /\ At(t, "loaded") /\ op[t] = "boot"
  /\ End(t)
  /\ app' = "up"
  /\ UNCHANGED <<code, mode, disk, backups, made, log, history, counters>>

---------------------------------------------------------------------------
(* Backups.                                                                *)

(* nightly_refresh returns early in demo mode, and then has the broker's    *)
(* data to fetch before it comes to the backup.  The scheduler's thread     *)
(* runs one such job at a time.                                             *)
NightlyCheck(t) ==
  /\ app = "up" /\ At(t, "idle") /\ "backup" \in Kinds
  /\ \A s \in Threads : op[s] # "backup"
  /\ mode = Live
  /\ op' = [op EXCEPT ![t] = "backup"]
  /\ Goto(t, "refresh")
  /\ UNCHANGED <<app, code, mode, disk, lock, upd, copy, src, dst, stage, backups, made, log,
                 history, counters>>

(* make_nightly_backup resolves the path; the copy itself is under the      *)
(* lock, the rotation is not.                                               *)
NightlyStart(t) ==
  /\ At(t, "refresh")
  /\ Take(t)
  /\ src' = [src EXCEPT ![t] = mode]
  /\ astray' = (astray \/ mode # Live)
  /\ StartCopy("nightly", mode)
  /\ Goto(t, "copying")
  /\ UNCHANGED <<app, code, mode, disk, op, upd, copy, dst, stage, log, begun, ledger,
                 migrated, nightly, counters>>

NightlyCopied(t) ==
  /\ At(t, "copying")
  /\ FinishCopy
  /\ nightly' = [nightly EXCEPT ![src[t]] = target[src[t]]]
  /\ lock' = Free
  /\ Goto(t, "rotate")
  /\ UNCHANGED <<app, code, mode, disk, op, upd, copy, src, dst, stage, log,
                 begun, ledger, migrated, astray, counters>>

NightlyFails(t) ==
  /\ At(t, "copying") /\ Mishaps < MaxFaults
  /\ faults' = faults + 1
  /\ End(t)
  /\ UNCHANGED <<app, code, mode, disk, backups, made, log, history, cuts, acts>>

(* rotate keeps the Keep newest nightly copies by mtime. *)
Rotating == {k \in backups : k.kind = "nightly"}
Newer(k, than) == k.at > than.at \/ (k.at = than.at /\ k.id > than.id)

Kept == {k \in backups : k \in Rotating => Cardinality({n \in Rotating : Newer(n, k)}) < Keep}

Rotate(t) ==
  /\ At(t, "rotate")
  /\ backups' = Kept
  /\ Goto(t, "idle")
  /\ op' = [op EXCEPT ![t] = None]
  /\ src' = [src EXCEPT ![t] = Live]
  /\ UNCHANGED <<app, code, mode, disk, lock, upd, copy, dst, stage, made, log,
                 history, counters>>

---------------------------------------------------------------------------
(* The order journal: one line per entry, appended and fsynced under the    *)
(* lock.  A write cut short leaves a line without its newline, and the next *)
(* entry goes onto that line.                                               *)

Torn == "torn"

AppendLine(line) == journal' = IF ragged THEN [journal EXCEPT ![Len(journal)] = Torn]
                               ELSE Append(journal, line)

append_order_journal(u) ==
  /\ app = "up" /\ lock = Free
  /\ u \in begun \ journaled /\ (ragged \/ Len(journal) < MaxLines)
  /\ AppendLine(u)
  /\ ragged' = FALSE
  /\ journaled' = journaled \union {u}
  /\ UNCHANGED <<app, code, mode, disk, thread, backups, made, history, counters>>

(* The write fails or the power goes half way: the entry is cut, or only   *)
(* its newline is missing.                                                 *)
AppendCut(u) ==
  /\ app = "up" /\ lock = Free /\ Mishaps < MaxFaults
  /\ u \in begun \ journaled /\ (ragged \/ Len(journal) < MaxLines)
  /\ faults' = faults + 1
  /\ \E line \in {Torn, u} : AppendLine(line)
  /\ ragged' = TRUE
  /\ UNCHANGED <<app, code, mode, disk, thread, backups, made, journaled, history,
                 cuts, acts>>

(* order_journal_entries skips a line it cannot parse. *)
order_journal_entries == {journal[i] : i \in DOMAIN journal} \ {Torn}

---------------------------------------------------------------------------
(* The process, the machine and the operator.                              *)

(* Everything in memory is gone. *)
ForgetThreads ==
  /\ pc' = [t \in Threads |-> "idle"]
  /\ op' = [t \in Threads |-> None]
  /\ upd' = [t \in Threads |-> {}]
  /\ copy' = [t \in Threads |-> Corrupt]
  /\ src' = [t \in Threads |-> Live]
  /\ dst' = [t \in Threads |-> Live]
  /\ stage' = [t \in Threads |-> "save"]
  /\ lock' = Free

(* The process dies or is stopped; what was renamed stays renamed, but is   *)
(* no more durable than it was.                                             *)
Kill ==
  /\ app # "down" /\ Mishaps < MaxFaults
  /\ faults' = faults + 1
  /\ app' = "down"
  /\ ForgetThreads
  /\ UNCHANGED <<code, mode, disk, backups, made, log, history, cuts, acts>>

(* A stop between operations: for a deploy, or before a restore. *)
Stop ==
  /\ app = "up" /\ Quiet
  /\ app' = "down"
  /\ UNCHANGED <<code, mode, disk, thread, backups, made, log, history, counters>>

(* The power goes: a rename not yet synced may be undone, and the latest   *)
(* backup, which nobody synced, may be torn.                               *)
PowerCut ==
  /\ Mishaps < MaxFaults
  /\ cuts' = cuts + 1
  /\ app' = "down"
  /\ ForgetThreads
  /\ \E stands \in SUBSET Books :
       target' = [b \in Books |-> IF b \in stands THEN target[b] ELSE synced[b]]
  /\ synced' = target'
  /\ acked' = [b \in Books |-> IF b \in loose THEN acked[b] \intersect target'[b].done
                               ELSE acked[b]]
  /\ loose' = {}
  /\ backups' \in {backups, {IF k.id = made THEN [k EXCEPT !.file = Corrupt] ELSE k : k \in backups}}
  /\ UNCHANGED <<code, mode, stamp, made, log, begun, past, migrated, nightly, astray,
                 faults, acts>>

(* A start, perhaps of the next release: startup_check loads the book. *)
Boot(t) ==
  /\ app = "down"
  /\ app' = "booting"
  /\ code' = CodeVersion
  /\ Load(t)
  /\ op' = [op EXCEPT ![t] = "boot"]
  /\ UNCHANGED <<mode, disk, upd, dst, stage, backups, made, log, history, counters>>

(* The disk loses the file. *)
Damage(b) ==
  /\ app = "down" /\ acts < MaxActs
  /\ acts' = acts + 1
  /\ target' = [target EXCEPT ![b] = Corrupt]
  /\ synced' = [synced EXCEPT ![b] = Corrupt]
  /\ acked' = [acked EXCEPT ![b] = {}]
  /\ loose' = loose \ {b}
  /\ UNCHANGED <<app, code, mode, stamp, thread, backups, made, log, begun, past,
                 migrated, nightly, astray, cuts, faults>>

(* restore_state.py, with the app stopped: any backup that parses, whatever *)
(* book it is of, replaces the active one.  MaxActs bounds the restores  *)
(* over a file that parses.                                                 *)
restore_from_backup(k) ==
  /\ app = "down" /\ k.file # Corrupt
  /\ \/ target[mode] = Corrupt /\ UNCHANGED acts
     \/ target[mode] # Corrupt /\ acts < MaxActs /\ acts' = acts + 1
  /\ target' = [target EXCEPT ![mode] = k.file]
  /\ stamp' = [stamp EXCEPT ![mode] = @ + 1]
  /\ past' = [past EXCEPT ![mode] = @ \union {k.file.done}]
  /\ acked' = [acked EXCEPT ![mode] = @ \intersect k.file.done]
  /\ SyncDirectory(mode, k.file, {})
  /\ UNCHANGED <<app, code, mode, thread, backups, made, log, begun, migrated, nightly, astray,
                 cuts, faults>>

(* The operator's demo switch: set_demo_enabled takes no lock, whatever is  *)
(* under way.                                                               *)
set_demo_enabled(b) ==
  /\ app = "up" /\ mode # b /\ acts < MaxActs
  /\ acts' = acts + 1
  /\ mode' = b
  /\ UNCHANGED <<app, code, disk, thread, backups, made, log, history,
                 cuts, faults>>

---------------------------------------------------------------------------
Operation(t) ==
  \/ \E u \in Updates, kind \in {"mutate", "stale"} : Begin(t, kind, u)
  \/ SnapshotStart(t) \/ SnapshotDone(t) \/ SnapshotFails(t)
  \/ Apply(t) \/ Hold(t) \/ Save(t) \/ BeginReset(t)
  \/ Replace(t) \/ WriteFails(t) \/ SyncMigrated(t) \/ SyncSaved(t)
  \/ NightlyCheck(t) \/ NightlyStart(t) \/ NightlyCopied(t) \/ NightlyFails(t) \/ Rotate(t)
  \/ Boot(t) \/ Booted(t)

Environment ==
  \/ Kill \/ Stop \/ PowerCut
  \/ \E u \in Updates : append_order_journal(u) \/ AppendCut(u)
  \/ \E b \in Books : Damage(b) \/ set_demo_enabled(b)
  \/ \E k \in backups : restore_from_backup(k)

Next == Environment \/ \E t \in Threads : Operation(t)

Spec == Init /\ [][Next]_vars

---------------------------------------------------------------------------
(* Properties.                                                             *)

(* Every variable keeps its type (the whole store). *)
TypeOK ==
  /\ app \in {"down", "booting", "up"} /\ code \in 1..CodeVersion /\ mode \in Books
  /\ target \in [Books -> File \union {Corrupt}]
  /\ synced \in [Books -> File \union {Corrupt}]
  /\ lock \in Threads \union {Free}
  /\ copy \in [Threads -> File \union {Corrupt}]
  /\ acked \in [Books -> SUBSET Updates]
  /\ journaled \subseteq Updates
  /\ \A k \in backups : k.of \in Books /\ k.file \in File \union {Corrupt} /\ k.id \in 1..made
  /\ (\E t \in Threads : pc[t] \notin {"idle", "hold", "refresh", "rotate"}) => lock # Free

(* logging_handler.py's durability contract, as a refinement: what a reader *)
(* finds in each book is an atomic register.  An acknowledged update leaves *)
(* it only when an older content is put back by a writer or the operator,   *)
(* or by a power cut after a directory fsync that failed unnoticed; no kill,*)
(* failed write, migration, locked update or other power cut takes one.     *)
Ledger == INSTANCE OrderLedger WITH book <- [b \in Books |-> target[b].done]
LedgerSpec == Ledger!Spec

(* migrate: a migrated file has the file it replaced among the backups      *)
(* (without a power cut: the copy is not synced).                           *)
RollbackPoint ==
  cuts = 0 => \A b \in Books : migrated[b] # Corrupt =>
                \E k \in backups : k.kind = "pre" /\ k.of = b /\ k.file = migrated[b]

(* nightly_backup and rotate: the last finished nightly copy of a book      *)
(* stays, however many copies were cut short, as long as they are fewer     *)
(* than the copies kept (and no job copied the demo book among them).       *)
NightlyKept ==
  (cuts = 0 /\ ~astray /\ Cardinality({k \in Rotating : k.file = Corrupt}) < Keep) =>
    \A b \in Books : nightly[b] # Corrupt =>
      \E k \in Rotating : k.of = b /\ k.file = nightly[b]

(* order_journal_entries: a line cut short costs at most one acknowledged   *)
(* entry, the one written onto it.                                          *)
JournalLossBounded ==
  Cardinality(journaled \ order_journal_entries)
    <= Cardinality({i \in DOMAIN journal : journal[i] = Torn})

(* What the operator goes back to after a mishap is there: the book before  *)
(* a migration, the last nightly copy, and the journal but for the cuts.    *)
Recoverable == RollbackPoint /\ NightlyKept /\ JournalLossBounded
=============================================================================
