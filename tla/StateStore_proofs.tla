------------------------- MODULE StateStore_proofs -------------------------
(***************************************************************************)
(* The state file implements the ledger its callers rely on (OrderLedger), *)
(* for any books, threads, updates, kills, power cuts, failed writes and   *)
(* failed fsyncs, whenever the operator switches the mode.                 *)
(*                                                                         *)
(* What the file shows is not what a power cut leaves, and a thread writes *)
(* a whole file it read earlier.  So the invariant says that what is       *)
(* acknowledged is in both, the second unless the book is loose, and what  *)
(* the private copy of each thread is: the book it loaded as it still      *)
(* stands plus its own update, or, for a load .. save section, some earlier *)
(* content of that book plus it.                                           *)
(*                                                                         *)
(* What an operator goes back to after a mishap is there too: a second     *)
(* invariant follows the copies in the backups directory and the cut lines *)
(* of the journal.                                                         *)
(***************************************************************************)
EXTENDS StateStore, FiniteSetTheorems, SequenceTheorems, WellFoundedInduction, TLAPS

Content == [done : SUBSET Updates, v : 0..CodeVersion]
Backup == [id : Nat, kind : {"pre", "nightly"}, of : Books, file : Content, at : Nat]
Labels == {"idle", "snapshot", "snapshotting", "loaded", "write", "sync", "hold",
           "refresh", "copying", "rotate"}
Locked == Labels \ {"idle", "hold", "refresh", "rotate"}
Ops == {None, "mutate", "stale", "reset", "boot", "backup"}

Typed ==
  /\ app \in {"down", "booting", "up"} /\ code \in 1..CodeVersion /\ mode \in Books
  /\ target \in [Books -> Content] /\ synced \in [Books -> Content]
  /\ stamp \in [Books -> Nat]
  /\ pc \in [Threads -> Labels] /\ op \in [Threads -> Ops]
  /\ upd \in [Threads -> SUBSET Updates] /\ copy \in [Threads -> Content]
  /\ src \in [Threads -> Books] /\ dst \in [Threads -> Books]
  /\ stage \in [Threads -> {"save", "migrate"}]
  /\ backups \subseteq Backup /\ made \in Nat
  /\ acked \in [Books -> SUBSET Updates] /\ past \in [Books -> SUBSET SUBSET Updates]
  /\ loose \subseteq Books

\* Whoever is between lock and unlock owns the lock.
Exclusive == \A t \in Threads : pc[t] \in Locked => lock = t

\* Nothing runs in a process that is down, and only the start in one that starts.
Starting ==
  \A t \in Threads : pc[t] # "idle" =>
    /\ app # "down"
    /\ app = "booting" => op[t] = "boot"

\* What is on disk was once the book, and so were the backups.
Remembered ==
  /\ \A b \in Books : {target[b].done, synced[b].done, {}} \subseteq past[b]
  /\ \A k \in backups : k.file.done \in past[k.of]

\* What is acknowledged is in the file, and a power cut leaves it there unless
\* the book is loose.
Safe ==
  \A b \in Books : /\ acked[b] \subseteq target[b].done
                   /\ b \notin loose => acked[b] \subseteq synced[b].done

\* The updates a thread carries, and what the copy it is to write holds.
Carries(t) == IF op[t] \in {"mutate", "stale"} THEN \E u \in Updates : upd[t] = {u}
              ELSE upd[t] = {}
Loaded(t) == op[t] \in {"mutate", "stale", "boot"} /\ copy[t].done = target[src[t]].done
Written(t) ==
  /\ stage[t] = "migrate" => Loaded(t)
  /\ stage[t] = "save" =>
       /\ op[t] \in {"mutate", "stale", "reset"}
       /\ op[t] = "mutate" => copy[t].done = target[src[t]].done \union upd[t]
       /\ op[t] = "stale" => \E old \in past[src[t]] : copy[t].done = old \union upd[t]
       /\ op[t] = "reset" => copy[t].done = {}

InHand(t) ==
  /\ Carries(t)
  /\ pc[t] = "idle" => op[t] = None
  /\ pc[t] \notin {"write", "sync"} => stage[t] = "save"
  /\ pc[t] \in {"refresh", "copying", "rotate"} => op[t] = "backup"
  /\ pc[t] \in {"snapshot", "snapshotting", "loaded"} => Loaded(t)
  /\ pc[t] = "hold" => op[t] = "stale"
  /\ pc[t] \in {"hold", "write"} => Written(t)
  /\ pc[t] = "sync" => /\ target[dst[t]] = copy[t]
                       /\ stage[t] = "migrate" => Loaded(t)
                       /\ stage[t] = "save" => upd[t] \subseteq copy[t].done

IInv ==
  /\ Typed /\ Exclusive /\ Starting /\ Remembered /\ Safe
  /\ \A t \in Threads : InHand(t)

-----------------------------------------------------------------------------
(* A step of one thread disturbs no other: those that own no lock have      *)
(* nothing that depends on the files but the books they remember.           *)

Away(t) == \A u \in Threads \ {t} : pc[u] \notin Locked
Moves(t) == \A u \in Threads \ {t} :
  /\ pc'[u] = pc[u] /\ op'[u] = op[u] /\ upd'[u] = upd[u] /\ copy'[u] = copy[u]
  /\ src'[u] = src[u] /\ dst'[u] = dst[u] /\ stage'[u] = stage[u]

LEMMA OthersInHand ==
  ASSUME IInv, NEW t \in Threads, Away(t), Moves(t),
         \A b \in Books : past[b] \subseteq past'[b]
  PROVE  \A u \in Threads \ {t} : InHand(u)'
<1> SUFFICES ASSUME NEW u \in Threads \ {t} PROVE InHand(u)'
  OBVIOUS
<1>1. InHand(u) /\ pc[u] \in {"idle", "hold", "refresh", "rotate"} /\ src[u] \in Books
  BY DEF IInv, Typed, Away, Labels, Locked
<1> QED
  BY <1>1 DEF InHand, Written, Carries, Moves

\* What a step of thread t that leaves the files alone has to show.
LEMMA LocalMoves ==
  ASSUME IInv, NEW t \in Threads, Away(t), Moves(t), InHand(t)', Typed',
         UNCHANGED <<disk, ledger>>, pc'[t] \in Locked => lock' = t,
         \A k \in backups' : k.file.done \in past[k.of],
         app' = app \/ \A u \in Threads \ {t} : pc[u] = "idle",
         pc'[t] # "idle" => app' # "down" /\ (app' = "booting" => op'[t] = "boot")
  PROVE  IInv'
<1>1. Exclusive'
  BY DEF Exclusive, Away, Moves
<1>2. Starting'
  BY DEF IInv, Starting, Moves
<1>3. Remembered'
  BY DEF IInv, Remembered, disk, ledger
<1>4. Safe'
  BY DEF IInv, Safe, disk, ledger
<1>5. \A u \in Threads : InHand(u)'
  BY OthersInHand DEF ledger
<1> QED
  BY <1>1, <1>2, <1>3, <1>4, <1>5 DEF IInv

\* Nobody is between lock and unlock when the lock is free, and all others
\* are away when one is.
LEMMA LockTells ==
  ASSUME IInv
  PROVE  /\ lock = Free => \A t \in Threads : pc[t] \notin Locked
         /\ \A t \in Threads : pc[t] \in Locked => Away(t)
  BY StoreAssumption DEF IInv, Exclusive, Away

-----------------------------------------------------------------------------
(* The operations, one by one.                                              *)

\* load_state: the thread takes the lock and a copy of the book as it stands.
LEMMA LoadFacts ==
  ASSUME IInv, NEW t \in Threads, Load(t), code' \in 1..CodeVersion
  PROVE  /\ \A u \in Threads : pc[u] \notin Locked
         /\ lock' = t
         /\ copy' = [copy EXCEPT ![t] = target[mode]]
         /\ src' = [src EXCEPT ![t] = mode]
         /\ \E label \in {"snapshot", "loaded"} : pc' = [pc EXCEPT ![t] = label]
<1>1. lock = Free /\ \A u \in Threads : pc[u] \notin Locked
  BY LockTells DEF Load, Take
<1> QED
  BY <1>1 DEF Load, Take, Goto

LEMMA BeginPreserves ==
  ASSUME IInv, NEW t \in Threads, NEW u \in Updates, NEW kind \in {"mutate", "stale"},
         Begin(t, kind, u)
  PROVE  IInv'
<1>1. code' = code /\ Load(t) /\ pc[t] = "idle" /\ stage[t] = "save" /\ InHand(t)
  BY DEF Begin, At, IInv, InHand
<1>2. /\ \A w \in Threads : pc[w] \notin Locked
      /\ lock' = t /\ copy' = [copy EXCEPT ![t] = target[mode]]
      /\ src' = [src EXCEPT ![t] = mode]
  BY <1>1, LoadFacts DEF IInv, Typed
<1>3. PICK label \in {"snapshot", "loaded"} : pc' = [pc EXCEPT ![t] = label]
  BY <1>1, LoadFacts DEF IInv, Typed
<1>4. /\ op' = [op EXCEPT ![t] = kind] /\ upd' = [upd EXCEPT ![t] = {u}]
      /\ UNCHANGED <<app, mode, disk, dst, stage, backups, made, ledger>>
      /\ app = "up"
  BY DEF Begin
<1>5. Typed'
  BY <1>1, <1>2, <1>3, <1>4 DEF IInv, Typed, disk, ledger, Labels, Ops
<1>6. InHand(t)'
  BY <1>1, <1>2, <1>3, <1>4 DEF IInv, Typed, InHand, Loaded, Carries, disk
<1>7. Away(t) /\ Moves(t)
  BY <1>2, <1>3, <1>4 DEF IInv, Typed, Away, Moves
<1> QED
  BY <1>1, <1>2, <1>3, <1>4, <1>5, <1>6, <1>7, LocalMoves DEF IInv, Remembered, disk

LEMMA BootPreserves ==
  ASSUME IInv, NEW t \in Threads, Boot(t) PROVE IInv'
<1>1. /\ app = "down" /\ app' = "booting" /\ code' = CodeVersion /\ Load(t)
      /\ op' = [op EXCEPT ![t] = "boot"]
      /\ UNCHANGED <<mode, disk, upd, dst, stage, backups, made, ledger>>
  BY DEF Boot, history
<1>2. \A w \in Threads : pc[w] = "idle" /\ InHand(w)
  BY <1>1 DEF IInv, Starting
<1>3. /\ lock' = t /\ copy' = [copy EXCEPT ![t] = target[mode]]
      /\ src' = [src EXCEPT ![t] = mode]
  BY <1>1, LoadFacts DEF CodeVersion
<1>4. PICK label \in {"snapshot", "loaded"} : pc' = [pc EXCEPT ![t] = label]
  BY <1>1, LoadFacts DEF CodeVersion
<1>5. Typed'
  BY <1>1, <1>3, <1>4 DEF IInv, Typed, disk, ledger, Labels, Ops, CodeVersion
<1>6. InHand(t)'
  BY <1>1, <1>2, <1>3, <1>4 DEF IInv, Typed, InHand, Loaded, Carries, disk, None
<1>7. Away(t) /\ Moves(t)
  BY <1>1, <1>2, <1>3, <1>4 DEF IInv, Typed, Away, Moves, Locked
<1> QED
  BY <1>1, <1>2, <1>3, <1>4, <1>5, <1>6, <1>7, LocalMoves DEF IInv, Typed, Remembered, disk

\* An operation that ends, well or not, leaves nothing in hand.
LEMMA EndPreserves ==
  ASSUME IInv, NEW t \in Threads, Away(t), End(t),
         UNCHANGED <<code, mode, disk, made, ledger, backups>>,
         \/ app' = app
         \/ app = "booting" /\ app' \in {"down", "up"} /\ pc[t] # "idle"
  PROVE  IInv'
<1>1. /\ pc' = [pc EXCEPT ![t] = "idle"] /\ op' = [op EXCEPT ![t] = None]
      /\ upd' = [upd EXCEPT ![t] = {}] /\ copy' = [copy EXCEPT ![t] = Corrupt]
      /\ src' = [src EXCEPT ![t] = Live] /\ dst' = [dst EXCEPT ![t] = Live]
      /\ stage' = [stage EXCEPT ![t] = "save"]
  BY DEF End, Goto
<1>2. Corrupt \in Content
  BY DEF Corrupt, Content, CodeVersion
<1>3. Typed'
  BY <1>1, <1>2, StoreAssumption DEF IInv, Typed, disk, ledger, Labels, Ops
<1>4. InHand(t)'
  BY <1>1 DEF IInv, Typed, InHand, Carries, None
<1>5. Moves(t)
  BY <1>1 DEF IInv, Typed, Moves
<1>6. app' = app \/ \A u \in Threads \ {t} : pc[u] = "idle"
  <2>1. ASSUME app = "booting", NEW u \in Threads \ {t}, pc[u] # "idle" PROVE FALSE
    <3>1. op[u] = "boot" /\ pc[u] \in {"hold", "refresh", "rotate"} /\ InHand(u)
      BY <2>1 DEF IInv, Typed, Starting, Away, Locked, Labels
    <3> QED
      BY <3>1 DEF InHand
  <2> QED
    BY <2>1
<1>7. pc'[t] = "idle"
  BY <1>1 DEF IInv, Typed
<1> QED
  BY <1>3, <1>4, <1>5, <1>6, <1>7, LocalMoves DEF IInv, Remembered, Locked

LEMMA FailuresPreserve ==
  ASSUME IInv, NEW t \in Threads,
         SnapshotFails(t) \/ WriteFails(t) \/ NightlyFails(t) \/ Booted(t)
  PROVE  IInv'
<1>1. /\ pc[t] \in Locked /\ End(t)
      /\ UNCHANGED <<code, mode, disk, made, ledger, backups>>
      /\ app' = app \/ (app = "booting" /\ app' = "down") \/ app' = "up"
  BY DEF SnapshotFails, WriteFails, NightlyFails, Booted, At, Locked, Labels, history
<1>2. Away(t)
  BY <1>1, LockTells
<1>3. app' = "up" => app \in {"up", "booting"}
  BY <1>1 DEF IInv, Typed, Starting, Locked
<1> QED
  BY <1>1, <1>2, <1>3, EndPreserves DEF Locked

\* mutate_state's function, the modification of a load .. save section, and
\* the way from the one to the other.
LEMMA ApplyPreserves ==
  ASSUME IInv, NEW t \in Threads, Apply(t) \/ Hold(t) PROVE IInv'
<1>1. /\ pc[t] = "loaded" /\ InHand(t)
      /\ copy' = [copy EXCEPT ![t].done = copy[t].done \union upd[t]]
      /\ stage' = [stage EXCEPT ![t] = "save"]
      /\ UNCHANGED <<app, code, mode, disk, op, upd, src, dst, backups, made, ledger>>
  BY DEF Apply, Hold, At, IInv, history
<1>2. Away(t) /\ lock = t
  BY <1>1, LockTells DEF Locked, Labels, IInv, Exclusive
<1>3. \/ op[t] = "mutate" /\ pc' = [pc EXCEPT ![t] = "write"] /\ lock' = lock
      \/ op[t] = "stale" /\ pc' = [pc EXCEPT ![t] = "hold"]
  BY DEF Apply, Hold, Goto
<1>4. /\ copy'[t] = [copy[t] EXCEPT !.done = @ \union upd[t]]
      /\ copy' \in [Threads -> Content]
  <2> DEFINE new == [copy[t] EXCEPT !.done = copy[t].done \union upd[t]]
  <2>1. copy[t] \in Content /\ upd[t] \in SUBSET Updates /\ copy \in [Threads -> Content]
    BY DEF IInv, Typed
  <2>2. new \in Content
    BY <2>1 DEF Content
  <2>3. copy' = [copy EXCEPT ![t] = new]
    BY <1>1
  <2> QED
    BY <2>1, <2>2, <2>3
<1>5. Typed'
  BY <1>1, <1>3, <1>4 DEF IInv, Typed, disk, ledger, Labels
<1>6. src[t] \in Books /\ target[src[t]].done \in past[src[t]]
  BY DEF IInv, Typed, Remembered
<1>7. InHand(t)'
  <2>1. copy'[t].done = target[src[t]].done \union upd[t]
    BY <1>1, <1>4 DEF InHand, Loaded, IInv, Typed, Content
  <2>2. pc'[t] \in {"write", "hold"} /\ stage'[t] = "save" /\ (pc'[t] = "hold" => op[t] = "stale")
        /\ op[t] \in {"mutate", "stale"}
    BY <1>1, <1>3 DEF IInv, Typed
  <2>3. Written(t)'
    BY <1>1, <1>6, <2>1, <2>2 DEF Written, disk, ledger
  <2> QED
    BY <1>1, <2>2, <2>3 DEF InHand, Carries
<1>8. Moves(t)
  BY <1>1, <1>3 DEF IInv, Typed, Moves
<1>9. pc'[t] \in Locked => lock' = t
  BY <1>2, <1>3 DEF IInv, Typed, Locked
<1>10. app' # "down" /\ (app' = "booting" => op'[t] = "boot")
  BY <1>1 DEF IInv, Starting
<1> QED
  BY <1>1, <1>2, <1>5, <1>7, <1>8, <1>9, <1>10, LocalMoves DEF IInv, Remembered

LEMMA SavePreserves ==
  ASSUME IInv, NEW t \in Threads, Save(t) PROVE IInv'
<1>1. /\ pc[t] = "hold" /\ InHand(t) /\ lock = Free /\ lock' = t
      /\ pc' = [pc EXCEPT ![t] = "write"]
      /\ UNCHANGED <<app, code, mode, disk, op, upd, copy, src, dst, stage, backups, made,
                     ledger>>
  BY DEF Save, At, Take, Goto, IInv, history
<1>2. Away(t)
  BY <1>1, LockTells DEF Away
<1>3. Typed'
  BY <1>1 DEF IInv, Typed, disk, ledger, Labels
<1>4. InHand(t)'
  BY <1>1 DEF IInv, Typed, InHand, Loaded, Carries, Written, disk, ledger
<1>5. Moves(t)
  BY <1>1 DEF IInv, Typed, Moves
<1>6. app' # "down" /\ (app' = "booting" => op'[t] = "boot")
  BY <1>1 DEF IInv, Starting
<1> QED
  BY <1>1, <1>2, <1>3, <1>4, <1>5, <1>6, LocalMoves DEF IInv, Remembered

LEMMA ResetPreserves ==
  ASSUME IInv, NEW t \in Threads, BeginReset(t) PROVE IInv'
<1>1. /\ app = "up" /\ pc[t] = "idle" /\ InHand(t) /\ lock = Free /\ lock' = t
      /\ op' = [op EXCEPT ![t] = "reset"] /\ src' = [src EXCEPT ![t] = mode]
      /\ copy' = [copy EXCEPT ![t] = [done |-> {}, v |-> code]]
      /\ pc' = [pc EXCEPT ![t] = "write"]
      /\ UNCHANGED <<app, code, mode, disk, upd, dst, stage, backups, made, ledger>>
  BY DEF BeginReset, At, Take, Goto, IInv, history
<1>2. Away(t)
  BY <1>1, LockTells DEF Away
<1>3. [done |-> {}, v |-> code] \in Content
  BY DEF IInv, Typed, Content, CodeVersion
<1>4. Typed'
  BY <1>1, <1>3 DEF IInv, Typed, disk, ledger, Labels, Ops
<1>5. InHand(t)'
  <2>1. /\ pc'[t] = "write" /\ op'[t] = "reset" /\ stage'[t] = "save" /\ upd'[t] = {}
        /\ copy'[t].done = {}
    BY <1>1 DEF IInv, Typed, InHand, Carries, None
  <2> QED
    BY <2>1 DEF InHand, Carries, Written
<1>6. Moves(t)
  BY <1>1 DEF IInv, Typed, Moves
<1> QED
  BY <1>1, <1>2, <1>4, <1>5, <1>6, LocalMoves DEF IInv, Remembered

\* A backup under way parses as the empty book, and a finished one is the
\* book as it stands.
LEMMA StartCopyOK ==
  ASSUME IInv, NEW kind \in {"pre", "nightly"}, NEW b \in Books, StartCopy(kind, b)
  PROVE  /\ backups' \subseteq Backup /\ made' \in Nat
         /\ \A k \in backups' : k.file.done \in past[k.of]
<1>1. /\ backups' = backups \union {TornCopy(kind, b)} /\ made' = made + 1
      /\ made \in Nat /\ stamp[b] \in Nat /\ backups \subseteq Backup
      /\ {} \in past[b]
      /\ \A k \in backups : k.file.done \in past[k.of]
  BY DEF StartCopy, IInv, Typed, Remembered
<1>2. TornCopy(kind, b) \in Backup
  BY <1>1 DEF TornCopy, Backup, Corrupt, Content, CodeVersion
<1>3. TornCopy(kind, b).file.done = {} /\ TornCopy(kind, b).of = b
  BY DEF TornCopy, Corrupt
<1>4. ASSUME NEW k \in backups' PROVE k.file.done \in past[k.of]
  <2>1. CASE k \in backups
    BY <1>1, <2>1
  <2>2. CASE k = TornCopy(kind, b)
    BY <1>1, <1>3, <2>2
  <2> QED
    BY <1>1, <2>1, <2>2
<1>5. made' \in Nat
  BY <1>1
<1> QED
  BY <1>1, <1>2, <1>4, <1>5

LEMMA FinishCopyOK ==
  ASSUME IInv, FinishCopy
  PROVE  /\ backups' \subseteq Backup /\ made' \in Nat
         /\ \A k \in backups' : k.file.done \in past[k.of]
<1> DEFINE finished(k) == [k EXCEPT !.file = target[k.of], !.at = 2 * stamp[k.of]]
<1>1. backups' = {IF k.id = made THEN finished(k) ELSE k : k \in backups}
  BY DEF FinishCopy
<1>2. ASSUME NEW k \in backups
      PROVE  /\ finished(k) \in Backup
             /\ finished(k).file.done \in past[finished(k).of]
  <2>1. k \in Backup /\ target[k.of] \in Content /\ stamp[k.of] \in Nat /\ k.of \in Books
    BY DEF IInv, Typed, Backup
  <2>2. /\ finished(k) \in Backup
        /\ finished(k).file = target[k.of] /\ finished(k).of = k.of
    <3> DEFINE at == 2 * stamp[k.of]
    <3>1. at \in Nat
      BY <2>1
    <3> HIDE DEF at
    <3>2. /\ [k EXCEPT !.file = target[k.of], !.at = at] \in Backup
          /\ [k EXCEPT !.file = target[k.of], !.at = at].file = target[k.of]
          /\ [k EXCEPT !.file = target[k.of], !.at = at].of = k.of
      BY <2>1, <3>1 DEF Backup
    <3> QED
      BY <3>2 DEF at
  <2> QED
    BY <2>1, <2>2 DEF IInv, Remembered
<1> HIDE DEF finished
<1>3. made' \in Nat
  BY DEF FinishCopy, IInv, Typed
<1> QED
  BY <1>1, <1>2, <1>3 DEF IInv, Typed, Remembered

LEMMA SnapshotStartPreserves ==
  ASSUME IInv, NEW t \in Threads, SnapshotStart(t) PROVE IInv'
<1>1. /\ pc[t] = "snapshot" /\ InHand(t) /\ StartCopy("pre", src[t])
      /\ pc' = [pc EXCEPT ![t] = "snapshotting"]
      /\ UNCHANGED <<app, code, mode, disk, lock, op, upd, copy, src, dst, stage, ledger>>
  BY DEF SnapshotStart, At, Goto, IInv, history
<1>2. Away(t) /\ lock = t
  BY <1>1, LockTells DEF Locked, Labels, IInv, Exclusive
<1>3. /\ backups' \subseteq Backup /\ made' \in Nat
      /\ \A k \in backups' : k.file.done \in past[k.of]
  BY <1>1, StartCopyOK DEF IInv, Typed
<1>4. Typed'
  BY <1>1, <1>3 DEF IInv, Typed, disk, ledger, Labels
<1>5. InHand(t)'
  BY <1>1 DEF IInv, Typed, InHand, Loaded, Carries, disk
<1>6. Moves(t)
  BY <1>1 DEF IInv, Typed, Moves
<1>7. app' # "down" /\ (app' = "booting" => op'[t] = "boot")
  BY <1>1 DEF IInv, Starting
<1> QED
  BY <1>1, <1>2, <1>3, <1>4, <1>5, <1>6, <1>7, LocalMoves

LEMMA SnapshotDonePreserves ==
  ASSUME IInv, NEW t \in Threads, SnapshotDone(t) PROVE IInv'
<1>1. /\ pc[t] = "snapshotting" /\ InHand(t) /\ FinishCopy
      /\ copy' = [copy EXCEPT ![t].v = code]
      /\ stage' = [stage EXCEPT ![t] = "migrate"]
      /\ pc' = [pc EXCEPT ![t] = "write"]
      /\ UNCHANGED <<app, code, mode, disk, lock, op, upd, src, dst, ledger>>
  BY DEF SnapshotDone, At, Goto, IInv, history
<1>2. Away(t) /\ lock = t
  BY <1>1, LockTells DEF Locked, Labels, IInv, Exclusive
<1>4. /\ backups' \subseteq Backup /\ made' \in Nat
      /\ \A k \in backups' : k.file.done \in past[k.of]
  BY <1>1, FinishCopyOK
<1>5. copy'[t].done = copy[t].done /\ copy' \in [Threads -> Content]
  <2> DEFINE new == [copy[t] EXCEPT !.v = code]
  <2>1. /\ copy[t] \in Content /\ code \in 0..CodeVersion /\ copy \in [Threads -> Content]
    BY DEF IInv, Typed, CodeVersion
  <2>2. new \in Content /\ new.done = copy[t].done
    BY <2>1 DEF Content
  <2>3. copy' = [copy EXCEPT ![t] = new]
    BY <1>1
  <2> QED
    BY <2>1, <2>2, <2>3
<1>6. Typed'
  BY <1>1, <1>4, <1>5 DEF IInv, Typed, disk, ledger, Labels
<1>7. InHand(t)'
  BY <1>1, <1>5 DEF IInv, Typed, InHand, Loaded, Carries, Written, disk
<1>8. Moves(t)
  BY <1>1 DEF IInv, Typed, Moves
<1>9. app' # "down" /\ (app' = "booting" => op'[t] = "boot")
  BY <1>1 DEF IInv, Starting
<1> QED
  BY <1>1, <1>2, <1>4, <1>6, <1>7, <1>8, <1>9, LocalMoves

LEMMA NightlyPreserves ==
  ASSUME IInv, NEW t \in Threads,
         NightlyCheck(t) \/ NightlyStart(t) \/ NightlyCopied(t) \/ Rotate(t)
  PROVE  IInv'
<1>1. InHand(t) /\ UNCHANGED <<app, code, mode, disk, upd, copy, dst, stage, ledger>>
  BY DEF NightlyCheck, NightlyStart, NightlyCopied, Rotate, IInv, history
<1>2. CASE NightlyCheck(t)
  <2>1. /\ pc[t] = "idle" /\ app = "up" /\ op' = [op EXCEPT ![t] = "backup"]
        /\ pc' = [pc EXCEPT ![t] = "refresh"] /\ UNCHANGED <<lock, src, backups, made>>
    BY <1>2 DEF NightlyCheck, At, Goto
  <2>2. Typed'
    BY <1>1, <2>1 DEF IInv, Typed, disk, ledger, Labels, Ops
  <2>3. InHand(t)' /\ Moves(t)
    BY <1>1, <2>1 DEF IInv, Typed, InHand, Carries, None, Moves
  <2>4. \A u \in Threads \ {t} : InHand(u)'
    BY <1>1, <2>1, <2>3 DEF IInv, InHand, Loaded, Carries, Written, Moves, disk, ledger
  <2>5. Exclusive' /\ Starting' /\ Remembered' /\ Safe'
    BY <1>1, <2>1, <2>3
       DEF IInv, Typed, Exclusive, Starting, Remembered, Safe, Moves, Locked, disk, ledger
  <2> QED
    BY <2>2, <2>3, <2>4, <2>5 DEF IInv
<1>3. CASE NightlyStart(t)
  <2>1. /\ pc[t] = "refresh" /\ lock = Free /\ lock' = t /\ StartCopy("nightly", mode)
        /\ src' = [src EXCEPT ![t] = mode] /\ op' = op
        /\ pc' = [pc EXCEPT ![t] = "copying"]
    BY <1>3 DEF NightlyStart, At, Take, Goto
  <2>2. Away(t)
    BY <2>1, LockTells DEF Away
  <2>3. /\ backups' \subseteq Backup /\ made' \in Nat
        /\ \A k \in backups' : k.file.done \in past[k.of]
    BY <2>1, StartCopyOK DEF IInv, Typed
  <2>4. Typed'
    BY <1>1, <2>1, <2>3 DEF IInv, Typed, disk, ledger, Labels, Ops
  <2>5. InHand(t)' /\ Moves(t)
    BY <1>1, <2>1 DEF IInv, Typed, InHand, Carries, Moves
  <2>6. app' # "down" /\ (app' = "booting" => op'[t] = "boot")
    BY <1>1, <2>1 DEF IInv, Starting
  <2> QED
    BY <1>1, <2>1, <2>2, <2>3, <2>4, <2>5, <2>6, LocalMoves
<1>4. CASE NightlyCopied(t)
  <2>1. /\ pc[t] = "copying" /\ FinishCopy /\ pc' = [pc EXCEPT ![t] = "rotate"]
        /\ UNCHANGED <<op, src>>
    BY <1>4 DEF NightlyCopied, At, Goto
  <2>2. Away(t)
    BY <2>1, LockTells DEF Locked, Labels
  <2>4. /\ backups' \subseteq Backup /\ made' \in Nat
        /\ \A k \in backups' : k.file.done \in past[k.of]
    BY <2>1, FinishCopyOK
  <2>5. Typed'
    BY <1>1, <2>1, <2>4 DEF IInv, Typed, disk, ledger, Labels
  <2>6. InHand(t)' /\ Moves(t) /\ pc'[t] \notin Locked
    BY <1>1, <2>1 DEF IInv, Typed, InHand, Carries, Moves, Locked
  <2>7. app' # "down" /\ (app' = "booting" => op'[t] = "boot")
    BY <1>1, <2>1 DEF IInv, Starting
  <2> QED
    BY <1>1, <2>1, <2>2, <2>4, <2>5, <2>6, <2>7, LocalMoves
<1>5. CASE Rotate(t)
  <2>1. /\ pc[t] = "rotate" /\ backups' \subseteq backups /\ pc' = [pc EXCEPT ![t] = "idle"]
        /\ op' = [op EXCEPT ![t] = None] /\ src' = [src EXCEPT ![t] = Live]
        /\ UNCHANGED <<lock, made>>
    BY <1>5 DEF Rotate, At, Goto, Kept
  <2>2. Typed'
    BY <1>1, <2>1, StoreAssumption DEF IInv, Typed, disk, ledger, Labels, Ops
  <2>3. InHand(t)' /\ Moves(t)
    BY <1>1, <2>1 DEF IInv, Typed, InHand, Carries, None, Moves
  <2>4. \A u \in Threads \ {t} : InHand(u)'
    BY <1>1, <2>1, <2>3 DEF IInv, InHand, Loaded, Carries, Written, Moves, disk, ledger
  <2>5. Exclusive' /\ Starting' /\ Remembered' /\ Safe'
    BY <1>1, <2>1, <2>3
       DEF IInv, Typed, Exclusive, Starting, Remembered, Safe, Moves, Locked, disk, ledger
  <2> QED
    BY <2>2, <2>3, <2>4, <2>5 DEF IInv
<1> QED
  BY <1>2, <1>3, <1>4, <1>5

-----------------------------------------------------------------------------
(* The rename, the fsync and the answer.  Each is a step of the ledger: a   *)
(* commit, the save of an older content, a revert or, for a migration of    *)
(* the book that was loaded, no step at all; then the acknowledgment.       *)

LedgerStep == [Ledger!Next]_Ledger!ledgerVars

LEMMA LedgerStutters ==
  ASSUME IInv, UNCHANGED ledger,
         target' \in [Books -> Content], \A b \in Books : target'[b].done = target[b].done
  PROVE  LedgerStep
  BY DEF LedgerStep, Ledger!ledgerVars, ledger

LEMMA BookBecomes ==
  ASSUME IInv, NEW b \in Books, NEW file, target' = [target EXCEPT ![b] = file]
  PROVE  [c \in Books |-> target[c].done]' =
           [[c \in Books |-> target[c].done] EXCEPT ![b] = file.done]
  BY DEF IInv, Typed

\* What thread t writes over book b, and where it comes from.
LEMMA ReplaceFacts ==
  ASSUME IInv, NEW t \in Threads, Replace(t)
  PROVE  \E b \in Books :
           /\ op[t] = "reset" => b = src[t]
           /\ target' = [target EXCEPT ![b] = copy[t]]
           /\ stamp' = [stamp EXCEPT ![b] = @ + 1]
           /\ dst' = [dst EXCEPT ![t] = b]
           /\ past' = [past EXCEPT ![b] = @ \union {copy[t].done}]
           /\ acked' = IF PutsBack(t, b) THEN [acked EXCEPT ![b] = @ \intersect copy[t].done]
                       ELSE acked
           /\ migrated' = IF stage[t] = "migrate" /\ src[t] = b
                          THEN [migrated EXCEPT ![b] = target[b]] ELSE migrated
           /\ ~PutsBack(t, b) => target[b].done \subseteq copy[t].done
<1> DEFINE b == IF op[t] = "reset" THEN src[t] ELSE mode
<1>1. b \in Books /\ (op[t] = "reset" => b = src[t])
  BY DEF IInv, Typed
<1>2. Written(t) /\ stage[t] \in {"save", "migrate"}
  BY DEF Replace, At, IInv, InHand, Typed
<1>3. ~PutsBack(t, b) => target[b].done \subseteq copy[t].done
  BY <1>2 DEF PutsBack, Written, Loaded
<1> QED
  BY <1>1, <1>3 DEF Replace

LEMMA ReplacePreserves ==
  ASSUME IInv, NEW t \in Threads, Replace(t) PROVE IInv'
<1>1. PICK b \in Books :
        /\ target' = [target EXCEPT ![b] = copy[t]]
        /\ stamp' = [stamp EXCEPT ![b] = @ + 1]
        /\ dst' = [dst EXCEPT ![t] = b]
        /\ past' = [past EXCEPT ![b] = @ \union {copy[t].done}]
        /\ acked' = IF PutsBack(t, b) THEN [acked EXCEPT ![b] = @ \intersect copy[t].done]
                    ELSE acked
        /\ ~PutsBack(t, b) => target[b].done \subseteq copy[t].done
  BY ReplaceFacts
<1>2. /\ pc[t] = "write" /\ InHand(t) /\ Written(t) /\ Carries(t)
      /\ pc' = [pc EXCEPT ![t] = "sync"]
      /\ UNCHANGED <<app, code, mode, synced, lock, op, upd, copy, src, stage, backups, made,
                     loose>>
      /\ copy[t] \in Content /\ copy[t].done \in SUBSET Updates
  BY DEF Replace, At, Goto, IInv, InHand, Typed, Content
<1>3. Away(t) /\ lock = t /\ Moves(t)
  BY <1>1, <1>2, LockTells DEF Locked, Labels, IInv, Typed, Exclusive, Moves
<1>4. /\ target' \in [Books -> Content] /\ stamp' \in [Books -> Nat]
      /\ dst' \in [Threads -> Books] /\ pc' \in [Threads -> Labels]
      /\ past' \in [Books -> SUBSET SUBSET Updates] /\ acked' \in [Books -> SUBSET Updates]
  <2>1. /\ target' \in [Books -> Content] /\ stamp' \in [Books -> Nat]
        /\ dst' \in [Threads -> Books] /\ pc' \in [Threads -> Labels]
    BY <1>1, <1>2 DEF IInv, Typed, Labels
  <2>2. past' \in [Books -> SUBSET SUBSET Updates] /\ acked' \in [Books -> SUBSET Updates]
    BY <1>1, <1>2 DEF IInv, Typed
  <2> QED
    BY <2>1, <2>2
<1>5. Typed'
  BY <1>2, <1>4 DEF IInv, Typed
<1>6. \A c \in Books : past[c] \subseteq past'[c]
  BY <1>1 DEF IInv, Typed
<1>7. InHand(t)'
  <2>1. /\ pc'[t] = "sync" /\ dst'[t] = b /\ target'[b] = copy[t] /\ src[t] \in Books
        /\ target'[src[t]] \in {target[src[t]], copy[t]}
    BY <1>1, <1>2 DEF IInv, Typed
  <2>2. stage[t] = "migrate" => Loaded(t)'
    BY <1>2, <2>1 DEF Written, Loaded
  <2>3. stage[t] = "save" => upd[t] \subseteq copy[t].done
    BY <1>2 DEF Written, Carries
  <2> QED
    BY <1>2, <2>1, <2>2, <2>3 DEF InHand, Carries
<1>8. \A u \in Threads : InHand(u)'
  BY <1>3, <1>6, <1>7, OthersInHand
<1>9. Remembered'
  <2>1. \A c \in Books : {target'[c].done, synced'[c].done, {}} \subseteq past'[c]
    BY <1>1, <1>2, <1>6 DEF IInv, Typed, Remembered
  <2>2. \A k \in backups' : k.file.done \in past'[k.of]
    BY <1>2, <1>6 DEF IInv, Typed, Remembered, Backup
  <2> QED
    BY <2>1, <2>2 DEF Remembered
<1>10. Safe'
  <2> SUFFICES ASSUME NEW c \in Books
               PROVE  /\ acked'[c] \subseteq target'[c].done
                      /\ c \notin loose' => acked'[c] \subseteq synced'[c].done
    BY DEF Safe
  <2>1. acked'[c] \subseteq acked[c]
    BY <1>1 DEF IInv, Typed
  <2>2. acked[c] \subseteq target[c].done /\ (c \notin loose => acked[c] \subseteq synced[c].done)
    BY DEF IInv, Safe
  <2>3. CASE c = b
    BY <1>1, <1>2, <2>1, <2>2, <2>3 DEF IInv, Typed
  <2>4. CASE c # b
    BY <1>1, <1>2, <2>1, <2>2, <2>4 DEF IInv, Typed
  <2> QED
    BY <2>3, <2>4
<1>11. Exclusive' /\ Starting'
  BY <1>2, <1>3 DEF IInv, Exclusive, Starting, Away, Moves
<1> QED
  BY <1>5, <1>8, <1>9, <1>10, <1>11 DEF IInv

LEMMA ReplaceRefines ==
  ASSUME IInv, NEW t \in Threads, Replace(t) PROVE LedgerStep
<1> DEFINE books == [c \in Books |-> target[c].done]
<1>1. PICK b \in Books :
        /\ op[t] = "reset" => b = src[t]
        /\ target' = [target EXCEPT ![b] = copy[t]]
        /\ past' = [past EXCEPT ![b] = @ \union {copy[t].done}]
        /\ acked' = IF PutsBack(t, b) THEN [acked EXCEPT ![b] = @ \intersect copy[t].done]
                    ELSE acked
  BY ReplaceFacts
<1>2. /\ Written(t) /\ Carries(t) /\ loose' = loose
      /\ stage[t] \in {"save", "migrate"} /\ src[t] \in Books
      /\ books[b] = target[b].done /\ books[b] \in past[b]
      /\ target[src[t]].done \in past[src[t]] /\ {} \in past[b]
      /\ past \in [Books -> SUBSET SUBSET Updates] /\ acked \in [Books -> SUBSET Updates]
  BY DEF Replace, At, IInv, InHand, Typed, Remembered
<1>3. PICK new \in {copy[t].done}, from \in Books : new = copy[t].done /\ from = src[t]
  BY <1>2
<1>4. books' = [books EXCEPT ![b] = new]
  BY <1>1, <1>3, BookBecomes
<1> HIDE DEF books
<1>5. CASE stage[t] = "migrate" /\ from = b
  <2>1. new = books[b] /\ acked' = acked
    BY <1>1, <1>2, <1>3, <1>5 DEF Written, Loaded, PutsBack
  <2>2. past' = past
    BY <1>1, <1>2, <1>3, <2>1
  <2>3. books' = books
    BY <1>4, <2>1 DEF books
  <2> QED
    BY <1>2, <2>1, <2>2, <2>3 DEF LedgerStep, Ledger!ledgerVars, books
<1>6. CASE stage[t] = "migrate" /\ from # b
  <2>1. new \in past[from] /\ acked' = [acked EXCEPT ![b] = @ \intersect new]
    BY <1>1, <1>2, <1>3, <1>6 DEF Written, Loaded, PutsBack
  <2>2. Ledger!Revert(b, from)
    BY <1>1, <1>2, <1>3, <1>4, <2>1 DEF Ledger!Revert, Ledger!Become, books
  <2> QED
    BY <2>2 DEF LedgerStep, Ledger!Next
<1>7. CASE stage[t] = "save" /\ op[t] = "mutate" /\ from = b
  <2>1. PICK u \in Updates : upd[t] = {u} /\ new = books[b] \union {u}
    BY <1>2, <1>3, <1>7 DEF Carries, Written
  <2>2. acked' = acked
    BY <1>1, <1>3, <1>7 DEF PutsBack
  <2>3. Ledger!Commit(b, u)
    BY <1>1, <1>2, <1>3, <1>4, <2>1, <2>2 DEF Ledger!Commit, Ledger!Become, books
  <2> QED
    BY <2>3 DEF LedgerStep, Ledger!Next
<1>8. CASE stage[t] = "save" /\ (op[t] = "stale" \/ (op[t] = "mutate" /\ from # b))
  <2>1. PICK u \in Updates, old \in past[from] : upd[t] = {u} /\ new = old \union {u}
    BY <1>2, <1>3, <1>8 DEF Carries, Written
  <2>2. acked' = [acked EXCEPT ![b] = @ \intersect new]
    BY <1>1, <1>3, <1>8 DEF PutsBack
  <2>3. Ledger!SaveOlder(b, from, u)
    BY <1>1, <1>2, <1>3, <1>4, <2>1, <2>2 DEF Ledger!SaveOlder, Ledger!Become, books
  <2> QED
    BY <2>3 DEF LedgerStep, Ledger!Next
<1>9. CASE stage[t] = "save" /\ op[t] = "reset"
  <2>1. new = {} /\ {} \in past[b] /\ acked' = [acked EXCEPT ![b] = @ \intersect {}]
    BY <1>1, <1>2, <1>3, <1>9 DEF Written, PutsBack
  <2>2. Ledger!Revert(b, b)
    BY <1>1, <1>2, <1>3, <1>4, <2>1 DEF Ledger!Revert, Ledger!Become, books
  <2> QED
    BY <2>2 DEF LedgerStep, Ledger!Next
<1> QED
  BY <1>2, <1>5, <1>6, <1>7, <1>8, <1>9 DEF Written

\* The directory's fsync, good or bad, and what it tells of the book.
LEMMA SyncPreserves ==
  ASSUME IInv, NEW t \in Threads, pc[t] = "sync", NEW told \in SUBSET upd[t],
         NEW unsafe \in SUBSET {dst[t]}, told = {} \/ unsafe = {dst[t]},
         told \subseteq copy[t].done,
         SyncDirectory(dst[t], target[dst[t]], unsafe),
         acked' = [acked EXCEPT ![dst[t]] = @ \union told],
         UNCHANGED <<app, mode, target, backups, past>>,
         Typed', Moves(t), InHand(t)', pc'[t] \in {"idle", "loaded"},
         pc'[t] = "loaded" => lock' = t /\ op'[t] = op[t]
  PROVE  IInv' /\ LedgerStep
<1>1. PICK b \in Books : b = dst[t]
  BY DEF IInv, Typed
<1>2. InHand(t) /\ target[b] = copy[t] /\ Away(t)
  BY <1>1, LockTells DEF IInv, InHand, Locked, Labels
<1>3. \/ synced' = [synced EXCEPT ![b] = target[b]] /\ loose' = loose \ {b}
      \/ synced' = synced /\ loose' = loose \union unsafe
  BY <1>1 DEF SyncDirectory
<1>4. acked' = [acked EXCEPT ![b] = @ \union told] /\ told \subseteq target[b].done
  BY <1>1, <1>2
<1>5. \A u \in Threads : InHand(u)'
  BY <1>2, OthersInHand
<1>6. Exclusive' /\ Starting'
  BY <1>2 DEF IInv, Exclusive, Starting, Away, Moves, Locked
<1>7. Remembered'
  BY <1>3 DEF IInv, Typed, Remembered
<1>8. Safe'
  <2> SUFFICES ASSUME NEW c \in Books
               PROVE  /\ acked'[c] \subseteq target[c].done
                      /\ c \notin loose' => acked'[c] \subseteq synced'[c].done
    BY DEF Safe
  <2>1. acked[c] \subseteq target[c].done /\ (c \notin loose => acked[c] \subseteq synced[c].done)
    BY DEF IInv, Safe
  <2>2. CASE c # b
    BY <1>1, <1>3, <1>4, <2>1, <2>2 DEF IInv, Typed
  <2>3. CASE c = b
    <3>1. acked'[b] = acked[b] \union told
      BY <1>4 DEF IInv, Typed
    <3>2. CASE synced' = [synced EXCEPT ![b] = target[b]]
      BY <1>4, <2>1, <2>3, <3>1, <3>2 DEF IInv, Typed
    <3>3. CASE synced' = synced /\ loose' = loose \union unsafe
      BY <1>1, <1>4, <2>1, <2>3, <3>1, <3>3
    <3> QED
      BY <1>3, <3>2, <3>3
  <2> QED
    BY <2>2, <2>3
<1>9. LedgerStep
  <2> DEFINE books == [c \in Books |-> target[c].done]
  <2>1. books' = books /\ told \subseteq books[b]
    BY <1>4
  <2>2. CASE loose' \in {loose \ {b}, loose \union {b}}
    <3>1. Ledger!Acknowledge(b)
      BY <1>4, <2>1, <2>2 DEF Ledger!Acknowledge
    <3> QED
      BY <3>1 DEF LedgerStep, Ledger!Next
  <2>3. CASE unsafe = {} /\ loose' = loose \union unsafe
    <3>1. told = {} /\ loose' = loose
      BY <2>3
    <3>2. acked' = acked
      BY <1>4, <3>1 DEF IInv, Typed
    <3> QED
      BY <2>1, <3>1, <3>2 DEF LedgerStep, Ledger!ledgerVars
  <2>4. unsafe = {} \/ unsafe = {b}
    BY <1>1
  <2> QED
    BY <1>3, <2>2, <2>3, <2>4
<1> QED
  BY <1>5, <1>6, <1>7, <1>8, <1>9 DEF IInv

LEMMA SyncDirectoryTyped ==
  ASSUME IInv, NEW b \in Books, NEW file \in Content, NEW unsafe \in SUBSET {b},
         SyncDirectory(b, file, unsafe)
  PROVE  synced' \in [Books -> Content] /\ loose' \subseteq Books
  BY DEF SyncDirectory, IInv, Typed

LEMMA SyncMigratedPreserves ==
  ASSUME IInv, NEW t \in Threads, SyncMigrated(t) PROVE IInv' /\ LedgerStep
<1>1. /\ pc[t] = "sync" /\ stage[t] = "migrate" /\ InHand(t) /\ Loaded(t)
      /\ dst[t] \in Books /\ target[dst[t]] \in Content
      /\ SyncDirectory(dst[t], target[dst[t]], {})
  BY DEF SyncMigrated, At, IInv, Typed, InHand
<1>2. /\ stage' = [stage EXCEPT ![t] = "save"] /\ pc' = [pc EXCEPT ![t] = "loaded"]
      /\ UNCHANGED <<app, code, mode, target, stamp, lock, op, upd, copy, src, dst, backups, made,
                     acked, past>>
  BY DEF SyncMigrated, Goto
<1>3. lock = t
  BY <1>1 DEF IInv, Exclusive, Locked, Labels
<1>4. Typed'
  BY <1>1, <1>2, SyncDirectoryTyped DEF IInv, Typed, Labels
<1>5. InHand(t)' /\ Moves(t) /\ pc'[t] = "loaded"
  BY <1>1, <1>2 DEF IInv, Typed, InHand, Loaded, Carries, Moves
<1>6. acked' = [acked EXCEPT ![dst[t]] = @ \union {}]
  BY <1>2 DEF IInv, Typed
<1>7. PICK told \in SUBSET upd[t], unsafe \in SUBSET {dst[t]} : told = {} /\ unsafe = {}
  OBVIOUS
<1>8. /\ told = {} \/ unsafe = {dst[t]}
      /\ told \subseteq copy[t].done
      /\ SyncDirectory(dst[t], target[dst[t]], unsafe)
      /\ acked' = [acked EXCEPT ![dst[t]] = @ \union told]
  BY <1>1, <1>6, <1>7
<1> QED
  BY <1>1, <1>2, <1>3, <1>4, <1>5, <1>7, <1>8, SyncPreserves

LEMMA SyncSavedPreserves ==
  ASSUME IInv, NEW t \in Threads, SyncSaved(t) PROVE IInv' /\ LedgerStep
<1>1. /\ pc[t] = "sync" /\ stage[t] = "save" /\ InHand(t) /\ upd[t] \subseteq copy[t].done
      /\ dst[t] \in Books /\ target[dst[t]] \in Content
      /\ SyncDirectory(dst[t], target[dst[t]], {dst[t]})
      /\ acked' = [acked EXCEPT ![dst[t]] = @ \union upd[t]]
      /\ UNCHANGED <<app, code, mode, target, stamp, backups, made, past>>
  BY DEF SyncSaved, At, IInv, Typed, InHand
<1>2. /\ pc' = [pc EXCEPT ![t] = "idle"] /\ op' = [op EXCEPT ![t] = None]
      /\ upd' = [upd EXCEPT ![t] = {}] /\ copy' = [copy EXCEPT ![t] = Corrupt]
      /\ src' = [src EXCEPT ![t] = Live] /\ dst' = [dst EXCEPT ![t] = Live]
      /\ stage' = [stage EXCEPT ![t] = "save"]
  BY DEF SyncSaved, End, Goto
<1>3. Typed'
  <2>1. Corrupt \in Content /\ Live \in Books
    BY StoreAssumption DEF Corrupt, Content, CodeVersion
  <2>2. acked' \in [Books -> SUBSET Updates]
    BY <1>1 DEF IInv, Typed
  <2>3. synced' \in [Books -> Content] /\ loose' \subseteq Books
    BY <1>1, SyncDirectoryTyped
  <2> QED
    BY <1>1, <1>2, <2>1, <2>2, <2>3 DEF IInv, Typed, Labels, Ops
<1>4. InHand(t)' /\ Moves(t) /\ pc'[t] = "idle"
  BY <1>2 DEF IInv, Typed, InHand, Carries, Moves, None
<1>5. PICK told \in SUBSET upd[t], unsafe \in SUBSET {dst[t]} : told = upd[t] /\ unsafe = {dst[t]}
  OBVIOUS
<1>6. /\ told \subseteq copy[t].done
      /\ SyncDirectory(dst[t], target[dst[t]], unsafe)
      /\ acked' = [acked EXCEPT ![dst[t]] = @ \union told]
  BY <1>1, <1>5
<1> QED
  BY <1>1, <1>3, <1>4, <1>5, <1>6, SyncPreserves

-----------------------------------------------------------------------------
(* The process dies, and the machine with it or not.                        *)

LEMMA DeadPreserves ==
  ASSUME IInv, ForgetThreads, app' = "down", UNCHANGED <<code, mode, stamp, made, past>>,
         target' \in [Books -> Content], synced' \in [Books -> Content],
         backups' \subseteq Backup, acked' \in [Books -> SUBSET Updates], loose' \subseteq Books,
         Remembered', Safe'
  PROVE  IInv'
<1>1. Corrupt \in Content /\ Live \in Books
  BY StoreAssumption DEF Corrupt, Content, CodeVersion
<1>2. Typed'
  BY <1>1 DEF IInv, Typed, ForgetThreads, Labels, Ops
<1>3. \A t \in Threads : pc'[t] = "idle" /\ op'[t] = None /\ upd'[t] = {} /\ stage'[t] = "save"
  BY DEF ForgetThreads
<1>4. Exclusive' /\ Starting'
  BY <1>3 DEF Exclusive, Starting, Locked
<1>5. \A t \in Threads : InHand(t)'
  BY <1>3 DEF InHand, Carries, None
<1> QED
  BY <1>2, <1>4, <1>5 DEF IInv

LEMMA KillPreserves ==
  ASSUME IInv, Kill PROVE IInv' /\ LedgerStep
<1>1. /\ ForgetThreads /\ app' = "down"
      /\ UNCHANGED <<code, mode, disk, ledger, backups, made>>
  BY DEF Kill, history
<1>2. Remembered' /\ Safe'
  BY <1>1 DEF IInv, Remembered, Safe, disk, ledger
<1>3. IInv'
  BY <1>1, <1>2, DeadPreserves DEF IInv, Typed, disk, ledger
<1>4. LedgerStep
  BY <1>1, LedgerStutters DEF IInv, Typed, disk
<1> QED
  BY <1>3, <1>4

LEMMA PowerCutPreserves ==
  ASSUME IInv, PowerCut PROVE IInv' /\ LedgerStep
<1>1. PICK stands \in SUBSET Books :
        target' = [b \in Books |-> IF b \in stands THEN target[b] ELSE synced[b]]
  BY DEF PowerCut
<1>2. /\ ForgetThreads /\ app' = "down" /\ UNCHANGED <<code, mode, stamp, made, past>>
      /\ synced' = target' /\ loose' = {}
      /\ acked' = [b \in Books |-> IF b \in loose THEN acked[b] \intersect target'[b].done
                                   ELSE acked[b]]
  BY DEF PowerCut
<1>3. /\ target' \in [Books -> Content] /\ backups \subseteq Backup
      /\ acked' \in [Books -> SUBSET Updates]
  BY <1>1, <1>2 DEF IInv, Typed
<1>4. ASSUME NEW b \in Books
      PROVE  /\ target'[b].done \in past[b] /\ target'[b].done \in SUBSET Updates
             /\ b \notin loose => acked[b] \subseteq target'[b].done
             /\ acked'[b] = acked[b] \intersect target'[b].done
  <2>1. target'[b] \in {target[b], synced[b]} /\ target'[b] \in Content
    BY <1>1, <1>3
  <2>2. target'[b].done \in past[b] /\ (b \notin loose => acked[b] \subseteq target'[b].done)
    BY <2>1 DEF IInv, Remembered, Safe
  <2>3. acked'[b] = acked[b] \intersect target'[b].done
    BY <1>2, <2>2
  <2> QED
    BY <2>1, <2>2, <2>3 DEF Content
<1>5. Safe'
  BY <1>2, <1>4 DEF Safe
<1> DEFINE torn(k) == [k EXCEPT !.file = Corrupt]
<1>6. ASSUME NEW k \in Backup
      PROVE  torn(k) \in Backup /\ torn(k).file.done = {} /\ torn(k).of = k.of
  BY DEF Backup, Corrupt, Content, CodeVersion
<1> HIDE DEF torn
<1>7. \A k \in backups' : \E j \in backups : k = j \/ k = torn(j)
  BY DEF PowerCut, torn
<1>8. backups' \subseteq Backup
  BY <1>3, <1>6, <1>7
<1>9. Remembered'
  <2>1. ASSUME NEW k \in backups' PROVE k.file.done \in past'[k.of]
    <3>1. PICK j \in backups : k = j \/ k = torn(j)
      BY <1>7
    <3>2. j \in Backup /\ j.of \in Books /\ j.file.done \in past[j.of] /\ {} \in past[j.of]
      BY <1>3, <3>1 DEF Backup, IInv, Remembered
    <3> QED
      BY <1>2, <1>6, <3>1, <3>2
  <2>2. \A b \in Books : {target'[b].done, synced'[b].done, {}} \subseteq past'[b]
    BY <1>2, <1>4 DEF IInv, Remembered
  <2> QED
    BY <2>1, <2>2 DEF Remembered
<1>10. IInv'
  BY <1>2, <1>3, <1>5, <1>8, <1>9, DeadPreserves
<1>11. LedgerStep
  <2>1. PICK left \in [Books -> SUBSET Updates] : left = [b \in Books |-> target'[b].done]
    BY <1>4
  <2>2. Ledger!Fall(left)
    <3>1. \A b \in Books : left[b] \in past[b] /\ (b \notin loose => acked[b] \subseteq left[b])
      BY <1>4, <2>1
    <3>2. [b \in Books |-> target[b].done]' = left
      BY <2>1
    <3>3. acked' = [b \in Books |-> acked[b] \intersect left[b]]
      BY <1>3, <1>4, <2>1
    <3> QED
      BY <1>2, <3>1, <3>2, <3>3 DEF Ledger!Fall
  <2> QED
    BY <2>2 DEF LedgerStep, Ledger!Next
<1> QED
  BY <1>10, <1>11

-----------------------------------------------------------------------------
(* The operator and the journal.                                            *)

\* The mode is no thread's business before it writes, and the journal is a
\* file of its own.
LEMMA JournalPreserves ==
  ASSUME IInv, UNCHANGED <<app, code, disk, thread, backups, made, ledger>>, mode' \in Books
  PROVE  IInv' /\ LedgerStep
<1>1. Typed' /\ Exclusive' /\ Starting' /\ Remembered' /\ Safe'
  BY DEF IInv, Typed, Exclusive, Starting, Remembered, Safe, disk, thread, ledger
<1>2. \A t \in Threads : InHand(t)'
  BY DEF IInv, InHand, Loaded, Carries, Written, disk, thread, ledger
<1>3. LedgerStep
  BY LedgerStutters DEF disk, IInv, Typed
<1> QED
  BY <1>1, <1>2, <1>3 DEF IInv

LEMMA StopPreserves ==
  ASSUME IInv, Stop PROVE IInv' /\ LedgerStep
<1>1. /\ \A t \in Threads : pc[t] = "idle"
      /\ app' = "down" /\ UNCHANGED <<thread, code, mode, disk, backups, made, ledger>>
  BY DEF Stop, Quiet, At, history
<1>2. Typed' /\ Exclusive' /\ Starting' /\ Remembered' /\ Safe'
  BY <1>1 DEF IInv, Typed, Exclusive, Starting, Remembered, Safe, disk, thread, ledger
<1>3. \A t \in Threads : InHand(t)'
  BY <1>1 DEF IInv, InHand, Loaded, Carries, Written, disk, thread, ledger
<1>4. LedgerStep
  BY <1>1, LedgerStutters DEF IInv, Typed, disk
<1> QED
  BY <1>2, <1>3, <1>4 DEF IInv

\* With the app down, the loss of a file and a restored backup are reverts.
LEMMA RevertPreserves ==
  ASSUME IInv, app = "down", NEW b \in Books, NEW c \in Books, NEW file \in Content,
         file.done \in past[c], SyncDirectory(b, file, {}),
         target' = [target EXCEPT ![b] = file],
         past' = [past EXCEPT ![b] = @ \union {file.done}],
         acked' = [acked EXCEPT ![b] = @ \intersect file.done],
         stamp' \in [Books -> Nat], UNCHANGED <<app, mode, thread, code, backups, made>>
  PROVE  IInv' /\ LedgerStep
<1>1. \A t \in Threads : pc[t] = "idle"
  BY DEF IInv, Starting
<1>2. /\ synced' \in [Books -> Content] /\ loose' \subseteq Books
      /\ acked' \in [Books -> SUBSET Updates] /\ past' \in [Books -> SUBSET SUBSET Updates]
      /\ \A d \in Books : past[d] \subseteq past'[d]
  BY SyncDirectoryTyped DEF IInv, Typed, Content
<1>3. \/ synced' = [synced EXCEPT ![b] = file] /\ loose' = loose \ {b}
      \/ synced' = synced /\ loose' = loose
  BY DEF SyncDirectory
<1>4. Typed'
  BY <1>2 DEF IInv, Typed, thread
<1>5. Exclusive' /\ Starting'
  BY DEF IInv, Exclusive, Starting, thread
<1>6. Remembered'
  <2>1. \A d \in Books : {target'[d].done, synced'[d].done, {}} \subseteq past'[d]
    BY <1>2, <1>3 DEF IInv, Typed, Remembered
  <2>2. \A k \in backups' : k.file.done \in past'[k.of]
    BY <1>2 DEF IInv, Typed, Remembered, Backup
  <2> QED
    BY <2>1, <2>2 DEF Remembered
<1>7. Safe'
  <2> SUFFICES ASSUME NEW d \in Books
               PROVE  /\ acked'[d] \subseteq target'[d].done
                      /\ d \notin loose' => acked'[d] \subseteq synced'[d].done
    BY DEF Safe
  <2>1. acked[d] \subseteq target[d].done /\ (d \notin loose => acked[d] \subseteq synced[d].done)
    BY DEF IInv, Safe
  <2>2. CASE d = b
    BY <1>3, <2>1, <2>2 DEF IInv, Typed
  <2>3. CASE d # b
    BY <1>3, <2>1, <2>3 DEF IInv, Typed
  <2> QED
    BY <2>2, <2>3
<1>8. \A t \in Threads : InHand(t)'
  BY <1>1 DEF IInv, InHand, Carries, thread
<1>9. Ledger!Revert(b, c)
  <2>1. [d \in Books |-> target[d].done]' = [[d \in Books |-> target[d].done] EXCEPT ![b] = file.done]
    BY BookBecomes
  <2>2. loose' \in {loose, loose \ {b}}
    BY <1>3
  <2>3. PICK old \in past[c] : old = file.done
    OBVIOUS
  <2> QED
    BY <2>1, <2>2, <2>3 DEF Ledger!Revert, Ledger!Become
<1> QED
  BY <1>4, <1>5, <1>6, <1>7, <1>8, <1>9 DEF IInv, LedgerStep, Ledger!Next

LEMMA DamagePreserves ==
  ASSUME IInv, NEW b \in Books, Damage(b) PROVE IInv' /\ LedgerStep
<1>1. Corrupt \in Content /\ Corrupt.done = {} /\ {} \in past[b]
  BY DEF Corrupt, Content, CodeVersion, IInv, Remembered
<1>2. acked' = [acked EXCEPT ![b] = @ \intersect Corrupt.done]
  BY <1>1 DEF Damage
<1>3. past' = [past EXCEPT ![b] = @ \union {Corrupt.done}]
  BY <1>1 DEF Damage, IInv, Typed
<1>4. /\ app = "down" /\ target' = [target EXCEPT ![b] = Corrupt]
      /\ SyncDirectory(b, Corrupt, {})
      /\ stamp' \in [Books -> Nat] /\ UNCHANGED <<app, mode, thread, code, backups, made>>
  BY DEF Damage, SyncDirectory, IInv, Typed
<1>5. PICK file \in Content : file = Corrupt
  BY <1>1
<1> QED
  BY <1>1, <1>2, <1>3, <1>4, <1>5, RevertPreserves

LEMMA RestorePreserves ==
  ASSUME IInv, NEW k \in backups, restore_from_backup(k) PROVE IInv' /\ LedgerStep
<1>1. k \in Backup /\ k.file.done \in past[k.of] /\ mode \in Books
  BY DEF IInv, Typed, Remembered
<1>2. k.file \in Content /\ k.of \in Books
  BY <1>1 DEF Backup
<1>3. PICK b \in Books, c \in Books, file \in Content : b = mode /\ c = k.of /\ file = k.file
  BY <1>1, <1>2
<1>4. /\ app = "down" /\ target' = [target EXCEPT ![b] = file]
      /\ SyncDirectory(b, file, {})
      /\ past' = [past EXCEPT ![b] = @ \union {file.done}]
      /\ acked' = [acked EXCEPT ![b] = @ \intersect file.done]
      /\ stamp' \in [Books -> Nat]
      /\ UNCHANGED <<app, mode, thread, code, backups, made>>
  BY <1>3 DEF restore_from_backup, IInv, Typed
<1>5. file.done \in past[c]
  BY <1>1, <1>3
<1> QED
  BY <1>4, <1>5, RevertPreserves

-----------------------------------------------------------------------------
(* The steps put together.                                                  *)

LEMMA InitIInv == Init => IInv /\ Ledger!Init
<1> SUFFICES ASSUME Init PROVE IInv /\ Ledger!Init
  OBVIOUS
<1>1. Corrupt \in Content /\ [done |-> {}, v |-> 1] \in Content
  BY DEF Corrupt, Content, CodeVersion
<1>2. Typed
  BY <1>1, StoreAssumption DEF Init, Typed, Labels, Ops, CodeVersion
<1>3. Exclusive /\ Starting /\ Remembered /\ Safe
  BY DEF Init, Exclusive, Starting, Remembered, Safe, Locked
<1>4. \A t \in Threads : InHand(t)
  BY DEF Init, InHand, Carries, None
<1>5. Ledger!Init
  BY DEF Init, Ledger!Init
<1> QED
  BY <1>2, <1>3, <1>4, <1>5 DEF IInv

\* Steps that neither write nor answer leave the ledger alone.
LEMMA OperationStutters ==
  ASSUME IInv, NEW t \in Threads, Operation(t), ~Replace(t), ~SyncMigrated(t), ~SyncSaved(t)
  PROVE  LedgerStep
<1>1. UNCHANGED <<target, ledger>>
  BY DEF Operation, Begin, SnapshotStart, SnapshotDone, SnapshotFails, Apply, Hold, Save,
         BeginReset, WriteFails, NightlyCheck, NightlyStart, NightlyCopied, NightlyFails, Rotate,
         Boot, Booted, disk, history
<1> QED
  BY <1>1, LedgerStutters DEF IInv, Typed

LEMMA OperationPreserves ==
  ASSUME IInv, NEW t \in Threads, Operation(t) PROVE IInv' /\ LedgerStep
<1>1. IInv'
  BY BeginPreserves, BootPreserves, FailuresPreserve, ApplyPreserves, SavePreserves,
     ResetPreserves, SnapshotStartPreserves, SnapshotDonePreserves, NightlyPreserves,
     ReplacePreserves, SyncMigratedPreserves, SyncSavedPreserves DEF Operation
<1>2. LedgerStep
  BY ReplaceRefines, SyncMigratedPreserves, SyncSavedPreserves, OperationStutters
<1> QED
  BY <1>1, <1>2

LEMMA NextIInv ==
  ASSUME IInv, [Next]_vars PROVE IInv' /\ LedgerStep
<1>1. ASSUME NEW t \in Threads, Operation(t) PROVE IInv' /\ LedgerStep
  BY <1>1, OperationPreserves
<1>2. ASSUME NEW u \in Updates, append_order_journal(u) \/ AppendCut(u)
      PROVE  IInv' /\ LedgerStep
  BY <1>2, JournalPreserves DEF append_order_journal, AppendCut, history, IInv, Typed
<1>3. ASSUME NEW b \in Books, Damage(b) PROVE IInv' /\ LedgerStep
  BY <1>3, DamagePreserves
<1>4. ASSUME NEW b \in Books, set_demo_enabled(b) PROVE IInv' /\ LedgerStep
  BY <1>4, JournalPreserves DEF set_demo_enabled, history
<1>5. ASSUME NEW k \in backups, restore_from_backup(k) PROVE IInv' /\ LedgerStep
  BY <1>5, RestorePreserves
<1>6. CASE Kill \/ Stop \/ PowerCut
  BY <1>6, KillPreserves, StopPreserves, PowerCutPreserves
<1>7. CASE UNCHANGED vars
  BY <1>7, JournalPreserves DEF vars, history, IInv, Typed
<1> QED
  BY <1>1, <1>2, <1>3, <1>4, <1>5, <1>6, <1>7 DEF Next, Environment

(* The invariant holds of every reachable state of the store.               *)
THEOREM Inductive == Spec => []IInv
<1>1. Init => IInv
  BY InitIInv
<1>2. IInv /\ [Next]_vars => IInv'
  BY NextIInv
<1> QED
  BY <1>1, <1>2, PTL DEF Spec

(* Each book is one atomic register, whenever the mode is switched and      *)
(* whichever fsync of the directory fails (_atomic_write swallows the       *)
(* error): an acknowledged update leaves it only when a writer, the         *)
(* operator or a lost file puts an older content back, or when the power    *)
(* goes while the book is loose.                                            *)
THEOREM ImplementsLedger == Spec => LedgerSpec
<1>1. Init => Ledger!Init
  BY InitIInv
<1>2. IInv /\ [Next]_vars => [Ledger!Next]_Ledger!ledgerVars
  BY NextIInv DEF LedgerStep
<1> QED
  BY <1>1, <1>2, Inductive, PTL DEF Spec, LedgerSpec, Ledger!Spec

(* A reader finds every acknowledged update that was not put back: no kill, *)
(* failed write, migration or power cut leaves a file without it (load_state *)
(* after save_state and mutate_state).                                      *)
THEOREM AckedHeldAlways == Spec => []Ledger!AckedHeld
<1>1. IInv => Ledger!AckedHeld
  BY DEF IInv, Safe, Ledger!AckedHeld
<1> QED
  BY <1>1, Inductive, PTL

-----------------------------------------------------------------------------
(* What the operator goes back to: the journal.                             *)

\* The lines that cost an entry: what is written onto the last one of them,
\* while it lacks its newline, is not lost yet.
Lost == journaled \ order_journal_entries
Spoilt == {i \in DOMAIN journal : journal[i] = Torn /\ (ragged => i # Len(journal))}

Line == Updates \union {Torn}

JournalOK ==
  /\ journal \in Seq(Line) /\ ragged \in BOOLEAN /\ IsFiniteSet(journaled)
  /\ ragged => /\ Len(journal) # 0
               /\ journal[Len(journal)] = Torn \/ journal[Len(journal)] \notin journaled
  /\ Cardinality(Lost) <= Cardinality(Spoilt)

LEMMA NoMoreLost ==
  ASSUME NEW A, NEW B, NEW C, NEW D, IsFiniteSet(A), IsFiniteSet(D), C \subseteq A, B \subseteq D,
         Cardinality(A) <= Cardinality(B)
  PROVE  Cardinality(C) <= Cardinality(D)
<1>1. IsFiniteSet(B) /\ IsFiniteSet(C) /\ Cardinality(C) <= Cardinality(A)
      /\ Cardinality(B) <= Cardinality(D)
  BY FS_Subset
<1> QED
  BY <1>1, FS_CardinalityType

LEMMA OneMoreLost ==
  ASSUME NEW A, NEW B, NEW C, NEW D, NEW x, NEW y, IsFiniteSet(A), IsFiniteSet(D),
         C \subseteq A \union {x}, B \union {y} \subseteq D, y \notin B,
         Cardinality(A) <= Cardinality(B)
  PROVE  Cardinality(C) <= Cardinality(D)
<1>1. IsFiniteSet(B) /\ IsFiniteSet(B \union {y})
  BY FS_Subset
<1>2. IsFiniteSet(A \union {x}) /\ Cardinality(A \union {x}) <= Cardinality(A) + 1
  <2>1. Cardinality(A) \in Nat BY FS_CardinalityType
  <2>2. /\ IsFiniteSet(A \union {x})
        /\ Cardinality(A \union {x}) = IF x \in A THEN Cardinality(A) ELSE Cardinality(A) + 1
    BY FS_AddElement
  <2> QED BY <2>1, <2>2
<1>3. Cardinality(B \union {y}) = Cardinality(B) + 1
  BY <1>1, FS_AddElement
<1>4. Cardinality(A \union {x}) <= Cardinality(B \union {y})
  BY <1>1, <1>2, <1>3, FS_CardinalityType
<1> QED
  BY <1>1, <1>2, <1>4, NoMoreLost

\* A line is spoilt, or added.
LEMMA LineSpoilt ==
  ASSUME NEW S, NEW lines \in Seq(S), NEW x \in S, Len(lines) # 0,
         NEW new, new = [lines EXCEPT ![Len(lines)] = x]
  PROVE  /\ new \in Seq(S) /\ Len(new) = Len(lines) /\ DOMAIN new = 1..Len(lines)
         /\ new[Len(lines)] = x
         /\ \A i \in 1..Len(lines) : i # Len(lines) => new[i] = lines[i]
<1>1. Len(lines) \in 1..Len(lines) /\ DOMAIN lines = 1..Len(lines) /\ Len(lines) \in Nat
  OBVIOUS
<1>2. /\ new \in Seq(S) /\ Len(new) = Len(lines)
      /\ \A j \in 1..Len(lines) : new[j] = IF j = Len(lines) THEN x ELSE lines[j]
  BY <1>1, ExceptSeq
<1> QED BY <1>1, <1>2

LEMMA LineAdded ==
  ASSUME NEW S, NEW lines \in Seq(S), NEW x \in S, NEW new, new = Append(lines, x)
  PROVE  /\ new \in Seq(S) /\ Len(new) = Len(lines) + 1 /\ DOMAIN new = 1..(Len(lines) + 1)
         /\ new[Len(lines) + 1] = x
         /\ \A i \in 1..Len(lines) : i # Len(lines) + 1 /\ new[i] = lines[i]
OBVIOUS

LEMMA Lines == JournalOK => /\ Len(journal) \in Nat /\ DOMAIN journal = 1..Len(journal)
                            /\ IsFiniteSet(1..Len(journal)) /\ IsFiniteSet(Spoilt)
<1> SUFFICES ASSUME JournalOK PROVE /\ Len(journal) \in Nat /\ DOMAIN journal = 1..Len(journal)
                            /\ IsFiniteSet(1..Len(journal)) /\ IsFiniteSet(Spoilt)
  OBVIOUS
<1>1. Len(journal) \in Nat /\ DOMAIN journal = 1..Len(journal)
  BY DEF JournalOK
<1>2. IsFiniteSet(1..Len(journal))
  BY <1>1, FS_Interval
<1>3. Spoilt \subseteq 1..Len(journal)
  BY <1>1 DEF Spoilt
<1> QED BY <1>1, <1>2, <1>3, FS_Subset

LEMMA JournalKept ==
  ASSUME JournalOK, NEW u \in Updates,
         append_order_journal(u) \/ AppendCut(u)
  PROVE  JournalOK'
<1> DEFINE n == Len(journal)
<1>1. /\ journal \in Seq(Line) /\ ragged \in BOOLEAN /\ IsFiniteSet(journaled)
      /\ n \in Nat /\ DOMAIN journal = 1..n
      /\ u \notin journaled
  BY DEF JournalOK, append_order_journal, AppendCut
<1>2. /\ IsFiniteSet(Lost) /\ IsFiniteSet(Spoilt) /\ Cardinality(Lost) <= Cardinality(Spoilt)
  <2>1. Lost \subseteq journaled
    BY DEF Lost
  <2> QED
    BY <1>1, <2>1, Lines, FS_Subset DEF JournalOK
<1>3. \/ AppendLine(u) /\ ragged' = FALSE /\ journaled' = journaled \union {u}
      \/ /\ \E line \in {Torn, u} : AppendLine(line)
         /\ ragged' = TRUE /\ journaled' = journaled
  BY DEF append_order_journal, AppendCut
<1>4. IsFiniteSet(journaled') /\ ragged' \in BOOLEAN
  BY <1>1, <1>3, FS_AddElement
<1>5. CASE ragged
  <2>1. n \in 1..n /\ journal' = [journal EXCEPT ![n] = Torn]
    BY <1>1, <1>3, <1>5 DEF AppendLine, JournalOK
  <2>2. /\ journal' \in Seq(Line) /\ Len(journal') = n /\ DOMAIN journal' = 1..n
        /\ journal'[n] = Torn /\ \A i \in 1..n : i # n => journal'[i] = journal[i]
    <3>1. Torn \in Line /\ n # 0 BY <1>5 DEF JournalOK, Line
    <3>2. journal \in Seq(Line) BY <1>1
    <3> QED BY <3>1, <3>2, <2>1, LineSpoilt
  <2>3. journal[n] = Torn \/ journal[n] \notin journaled
    BY <1>5 DEF JournalOK
  <2>4. IsFiniteSet(Spoilt') /\ n \notin Spoilt
    <3>1. Spoilt' \subseteq 1..n BY <2>2 DEF Spoilt
    <3>2. IsFiniteSet(1..n) BY Lines
    <3> QED BY <3>1, <3>2, <1>5, FS_Subset DEF Spoilt
  <2>5. Lost' \subseteq Lost \union (journaled' \ journaled)
    BY <1>1, <2>2, <2>3 DEF Lost, order_journal_entries
  <2>6. Spoilt \subseteq Spoilt' /\ (ragged' = FALSE => n \in Spoilt')
    BY <1>1, <1>5, <2>1, <2>2 DEF Spoilt
  <2>7. CASE ragged' = FALSE
    <3>1. Lost' \subseteq Lost \union {u} BY <1>3, <2>5, <2>7
    <3>2. Spoilt \union {n} \subseteq Spoilt' BY <2>6, <2>7
    <3>3. Cardinality(Lost') <= Cardinality(Spoilt')
      BY <1>2, <2>4, <3>1, <3>2, OneMoreLost
    <3> QED BY <1>4, <2>2, <2>7, <3>3 DEF JournalOK
  <2>8. CASE ragged' = TRUE
    <3>1. Lost' \subseteq Lost BY <1>3, <2>5, <2>8
    <3>2. Cardinality(Lost') <= Cardinality(Spoilt')
      BY <1>2, <2>4, <2>6, <3>1, NoMoreLost
    <3>3. n # 0 BY <1>5 DEF JournalOK
    <3> QED BY <1>4, <2>2, <2>8, <3>2, <3>3 DEF JournalOK
  <2> QED BY <1>4, <2>7, <2>8
<1>6. CASE ~ragged
  <2>1. PICK line \in {Torn, u} :
          /\ journal' = Append(journal, line)
          /\ ragged' = FALSE => line = u
    BY <1>3, <1>6 DEF AppendLine
  <2>2. /\ journal' \in Seq(Line) /\ Len(journal') = n + 1
        /\ DOMAIN journal' = 1..(n+1)
        /\ journal'[n+1] = line /\ \A i \in 1..n : i # n + 1 /\ journal'[i] = journal[i]
    <3>1. line \in Line BY DEF Line
    <3>2. journal \in Seq(Line) BY <1>1
    <3> QED BY <3>1, <3>2, <2>1, LineAdded
  <2>3. IsFiniteSet(Spoilt') /\ n + 1 \notin Spoilt
    <3>1. Spoilt' \subseteq 1..(n+1) BY <2>2 DEF Spoilt
    <3>2. n + 1 \in Int /\ 1 \in Int BY <1>1
    <3>3. IsFiniteSet(1..(n+1)) BY <3>2, FS_Interval
    <3>4. IsFiniteSet(Spoilt') BY <3>1, <3>3, FS_Subset
    <3>5. n + 1 \notin 1..n BY <1>1
    <3>6. Spoilt \subseteq 1..n BY <1>1 DEF Spoilt
    <3> QED BY <3>4, <3>5, <3>6
  <2>4. order_journal_entries \subseteq order_journal_entries'
    BY <1>1, <2>2 DEF order_journal_entries
  <2>5. Spoilt \subseteq Spoilt'
    BY <1>1, <1>6, <2>2 DEF Spoilt
  <2>6. CASE ragged' = FALSE
    <3>3. Cardinality(Lost') <= Cardinality(Spoilt')
      <4>1. CASE u = Torn
        <5>1. n + 1 \in Spoilt' BY <1>1, <2>1, <2>2, <2>6, <4>1 DEF Spoilt
        <5>2. Lost' \subseteq Lost \union {u} BY <1>3, <2>4, <2>6 DEF Lost
        <5>3. Spoilt \union {n+1} \subseteq Spoilt' BY <2>5, <5>1
        <5>4. IsFiniteSet(Spoilt') /\ n + 1 \notin Spoilt BY <2>3
        <5> DEFINE m == n + 1
        <5>5. m \notin Spoilt /\ Spoilt \union {m} \subseteq Spoilt' BY <5>3, <5>4
        <5> HIDE DEF m
        <5> QED BY <1>2, <5>2, <5>4, <5>5, OneMoreLost
      <4>2. CASE u # Torn
        <5>1. u \in order_journal_entries'
          BY <1>1, <2>1, <2>2, <2>6, <4>2 DEF order_journal_entries
        <5>2. Lost' \subseteq Lost BY <1>3, <2>4, <2>6, <5>1 DEF Lost
        <5>3. IsFiniteSet(Spoilt') BY <2>3
        <5> QED BY <1>2, <2>5, <5>2, <5>3, NoMoreLost
      <4> QED BY <4>1, <4>2
    <3> QED BY <1>4, <2>2, <2>6, <3>3 DEF JournalOK
  <2>7. CASE ragged' = TRUE
    <3>1. Lost' \subseteq Lost BY <1>3, <2>4, <2>7 DEF Lost
    <3>2. Cardinality(Lost') <= Cardinality(Spoilt')
      BY <1>2, <2>3, <2>5, <3>1, NoMoreLost
    <3> QED BY <1>1, <1>3, <1>4, <2>1, <2>2, <2>7, <3>2 DEF JournalOK
  <2> QED BY <1>4, <2>6, <2>7
<1> QED
  BY <1>1, <1>5, <1>6

LEMMA JournalBounded == JournalOK => JournalLossBounded
<1> SUFFICES ASSUME JournalOK PROVE JournalLossBounded OBVIOUS
<1> DEFINE torn == {i \in DOMAIN journal : journal[i] = Torn}
<1>1. /\ DOMAIN journal = 1..Len(journal) /\ Len(journal) \in Nat
      /\ IsFiniteSet(Lost) /\ Cardinality(Lost) <= Cardinality(Spoilt)
  <2>1. Lost \in SUBSET journaled BY DEF Lost
  <2> QED BY <2>1, FS_Subset DEF JournalOK
<1>2. IsFiniteSet(torn) /\ Spoilt \subseteq torn
  <2>1. torn \subseteq 1..Len(journal) /\ Spoilt \subseteq torn BY <1>1 DEF Spoilt
  <2> HIDE DEF torn
  <2> QED BY <2>1, Lines, FS_Subset
<1> HIDE DEF torn
<1>3. Cardinality(Lost) <= Cardinality(torn)
  BY <1>1, <1>2, NoMoreLost
<1> QED BY <1>3 DEF torn, Lost, JournalLossBounded

-----------------------------------------------------------------------------
(* What the operator goes back to: the copies.  Whoever copies has its      *)
(* unfinished file in the directory, newer than all; whoever is to write a  *)
(* migrated book has copied the book it is to replace.  What the rotation    *)
(* keeps is said of the live book, while no nightly job has gone astray.    *)

InFlight(k) == k.id = made /\ k.file = Corrupt

CopiesOK ==
  /\ IsFiniteSet(backups) /\ cuts \in Nat
  /\ nightly \in [Books -> Content] /\ migrated \in [Books -> Content]
  /\ \A k \in backups : k.id <= made
  /\ \A k, j \in backups : k.id = j.id => k = j
  /\ ~astray =>
       /\ \A k \in Rotating : /\ k.of = Live /\ k.at <= 2 * stamp[Live] + 1
                              /\ k.file # Corrupt => k.at <= 2 * stamp[Live]
       /\ \A b \in Books : nightly[b] # Corrupt => b = Live

Copies(t) ==
  /\ pc[t] = "copying" => \E k \in Rotating : InFlight(k) /\ k.of = src[t]
  /\ pc[t] = "snapshotting" =>
       \E k \in backups : InFlight(k) /\ k.kind = "pre" /\ k.of = src[t]
  /\ pc[t] = "write" /\ stage[t] = "migrate" =>
       \E k \in backups : k.kind = "pre" /\ k.of = src[t] /\ k.file = target[src[t]]

\* The scheduler's thread runs one nightly job at a time.
OneNightly == \A t, u \in Threads : op[t] = "backup" /\ op[u] = "backup" => t = u

\* All that is newer than the last nightly copy l is torn; l is there, or has
\* made room for as many torn copies as are kept.
NewerThan(l) == {k \in Rotating : Newer(k, l)}
LastNightly(l) ==
  /\ l.kind = "nightly" /\ l.of = Live /\ l.file = nightly[Live]
  /\ \A k \in NewerThan(l) : k.file = Corrupt
  /\ l \in backups \/ ~(Cardinality(NewerThan(l)) < Keep)
NightlyOK == cuts = 0 /\ ~astray /\ nightly[Live] # Corrupt => \E l \in Backup : LastNightly(l)

BackupsOK ==
  CopiesOK /\ NightlyOK /\ RollbackPoint /\ \A t \in Threads : Copies(t)

LEMMA LastNightlyKept == IInv /\ BackupsOK => NightlyKept
<1> SUFFICES ASSUME IInv, BackupsOK, cuts = 0, ~astray, NEW b \in Books, nightly[b] # Corrupt,
                    Cardinality({k \in Rotating : k.file = Corrupt}) < Keep
             PROVE  \E k \in Rotating : k.of = b /\ k.file = nightly[b]
  BY DEF NightlyKept
<1>1. b = Live BY DEF BackupsOK, CopiesOK
<1>2. PICK l \in Backup : LastNightly(l) BY <1>1 DEF BackupsOK, NightlyOK
<1> DEFINE torn == {k \in Rotating : k.file = Corrupt}
<1>3. NewerThan(l) \subseteq torn /\ torn \subseteq backups
  BY <1>2 DEF LastNightly, NewerThan, Rotating
<1>4. Cardinality(torn) < Keep OBVIOUS
<1> HIDE DEF torn
<1>5. IsFiniteSet(torn) BY <1>3, FS_Subset DEF BackupsOK, CopiesOK
<1>6. /\ Cardinality(NewerThan(l)) <= Cardinality(torn) /\ IsFiniteSet(NewerThan(l))
  BY <1>3, <1>5, FS_Subset
<1>7. Cardinality(NewerThan(l)) < Keep
  BY <1>4, <1>5, <1>6, FS_CardinalityType, StoreAssumption
<1>8. l \in backups BY <1>2, <1>7 DEF LastNightly
<1> QED BY <1>1, <1>2, <1>8 DEF LastNightly, Rotating

\* A step that makes, finishes and drops no copy.
LEMMA CopiesStay ==
  ASSUME IInv, BackupsOK, UNCHANGED <<backups, made, nightly, cuts, astray>>,
         stamp' \in [Books -> Nat], stamp[Live] <= stamp'[Live],
         migrated' \in [Books -> Content],
         \A b \in Books : \/ migrated'[b] \in {migrated[b], Corrupt}
                         \/ \E k \in backups : k.kind = "pre" /\ k.of = b /\ k.file = migrated'[b],
         \A t \in Threads : Copies(t)'
  PROVE  BackupsOK'
<1>1. /\ Live \in Books /\ stamp[Live] \in Nat /\ stamp'[Live] \in Nat
      /\ \A k \in backups : k.at \in Nat
  BY StoreAssumption DEF IInv, Typed, Backup
<1>2. CopiesOK'
  BY <1>1 DEF BackupsOK, CopiesOK, Rotating
<1>3. NightlyOK'
  BY DEF BackupsOK, NightlyOK, LastNightly, NewerThan, Rotating
<1>4. RollbackPoint'
  BY DEF BackupsOK, RollbackPoint
<1> QED BY <1>2, <1>3, <1>4 DEF BackupsOK

\* Nobody copies when all are idle.
LEMMA NobodyCopies ==
  ASSUME NEW t, pc'[t] \notin {"copying", "snapshotting"}, pc'[t] # "write" \/ stage'[t] # "migrate"
  PROVE  Copies(t)'
BY DEF Copies

LEMMA OthersCopy ==
  ASSUME IInv, NEW t \in Threads, Away(t), Moves(t)
  PROVE  \A u \in Threads \ {t} : Copies(u)'
BY NobodyCopies DEF Away, Moves, Locked, Labels

\* A step of thread t that leaves the directory alone.
LEMMA LocalCopies ==
  ASSUME IInv, BackupsOK, NEW t \in Threads, Away(t), Moves(t),
         UNCHANGED <<backups, made, nightly, cuts, migrated, stamp, astray>>, Copies(t)'
  PROVE  BackupsOK'
<1>1. \A u \in Threads : Copies(u)'
  BY OthersCopy
<1>2. /\ stamp' \in [Books -> Nat] /\ migrated' \in [Books -> Content]
      /\ stamp[Live] <= stamp'[Live]
  BY StoreAssumption DEF BackupsOK, CopiesOK, IInv, Typed
<1> QED
  BY <1>1, <1>2, CopiesStay

LEMMA OperationCopies ==
  ASSUME IInv, BackupsOK, NEW t \in Threads,
         \/ \E u \in Updates, kind \in {"mutate", "stale"} : Begin(t, kind, u)
         \/ SnapshotFails(t) \/ Apply(t) \/ Hold(t) \/ Save(t) \/ BeginReset(t)
         \/ WriteFails(t) \/ SyncMigrated(t) \/ SyncSaved(t) \/ NightlyFails(t)
         \/ Boot(t) \/ Booted(t)
  PROVE  BackupsOK'
<1>1. InHand(t) /\ pc \in [Threads -> Labels] /\ stage \in [Threads -> {"save", "migrate"}]
  BY DEF IInv, Typed
<1>2. UNCHANGED <<backups, made, nightly, cuts, migrated, stamp, astray>>
  BY DEF Begin, SnapshotFails, Apply, Hold, Save, BeginReset, WriteFails, SyncMigrated,
         SyncSaved, NightlyFails, Boot, Booted, disk, history, counters
<1>3. Away(t)
  BY LockTells DEF Begin, SnapshotFails, Apply, Hold, Save, BeginReset, WriteFails,
         SyncMigrated, SyncSaved, NightlyFails, Boot, Booted, At, Load, Take, Away, Locked, Labels
<1>4. Moves(t)
  BY DEF IInv, Typed, Moves, Begin, SnapshotFails, Apply, Hold, Save, BeginReset, WriteFails,
         SyncMigrated, SyncSaved, NightlyFails, Boot, Booted, End, Goto, Load, Take
<1>5. /\ pc'[t] \notin {"copying", "snapshotting"}
      /\ pc'[t] # "write" \/ stage'[t] # "migrate"
  BY <1>1 DEF Begin, SnapshotFails, Apply, Hold, Save, BeginReset, WriteFails,
         SyncMigrated, SyncSaved, NightlyFails, Boot, Booted, End, Goto, Load, At, InHand
<1> QED
  BY <1>2, <1>3, <1>4, <1>5, NobodyCopies, LocalCopies

LEMMA ReplaceCopies ==
  ASSUME IInv, BackupsOK, NEW t \in Threads, Replace(t)
  PROVE  BackupsOK'
<1>1. /\ pc[t] = "write" /\ Copies(t)
      /\ pc \in [Threads -> Labels] /\ stamp \in [Books -> Nat]
      /\ target \in [Books -> Content] /\ migrated \in [Books -> Content]
  BY DEF Replace, At, IInv, Typed, BackupsOK, CopiesOK
<1>2. PICK b \in Books :
        /\ stamp' = [stamp EXCEPT ![b] = @ + 1]
        /\ migrated' = IF stage[t] = "migrate" /\ src[t] = b
                       THEN [migrated EXCEPT ![b] = target[b]] ELSE migrated
  BY ReplaceFacts
<1>7. pc' = [pc EXCEPT ![t] = "sync"] /\ UNCHANGED <<backups, made, nightly, cuts, astray>>
  BY DEF Replace, Goto, counters
<1>3. Away(t) /\ Moves(t)
  BY <1>1, LockTells DEF Replace, Locked, Labels, Moves, IInv, Typed, Goto
<1>4. \A u \in Threads : Copies(u)'
  <2>1. pc'[t] = "sync"
    BY <1>1, <1>7
  <2> QED
    BY <1>3, <2>1, OthersCopy, NobodyCopies
<1>5. /\ stamp' \in [Books -> Nat] /\ migrated' \in [Books -> Content]
      /\ stamp[Live] <= stamp'[Live]
  BY <1>1, <1>2, StoreAssumption
<1>6. \A c \in Books : \/ migrated'[c] \in {migrated[c], Corrupt}
                      \/ \E k \in backups : k.kind = "pre" /\ k.of = c /\ k.file = migrated'[c]
  BY <1>1, <1>2 DEF Copies
<1> QED
  BY <1>4, <1>5, <1>6, <1>7, CopiesStay

\* The operator's acts on a program that is down, the death of the process.
LEMMA IdleCopies ==
  ASSUME IInv, BackupsOK,
         \/ Kill \/ Stop
         \/ \E b \in Books : Damage(b)
         \/ \E k \in backups : restore_from_backup(k)
  PROVE  BackupsOK'
<1>1. UNCHANGED <<backups, made, nightly, cuts, astray, migrated>>
  BY DEF Kill, Stop, Damage, restore_from_backup, history, counters
<1>2. \A t \in Threads : pc'[t] = "idle"
  BY DEF Kill, Stop, Damage, restore_from_backup, ForgetThreads, Quiet, At,
         thread, IInv, Starting
<1>3. /\ stamp \in [Books -> Nat] /\ migrated \in [Books -> Content]
      /\ mode \in Books /\ Live \in Books
  BY StoreAssumption DEF IInv, Typed, BackupsOK, CopiesOK
<1>4. stamp' \in [Books -> Nat] /\ stamp[Live] <= stamp'[Live]
  <2>1. stamp' = stamp \/ stamp' = [stamp EXCEPT ![mode] = @ + 1]
    BY DEF Kill, Stop, Damage, restore_from_backup, disk
  <2> QED
    BY <1>3, <2>1
<1>5. \A t \in Threads : Copies(t)'
  BY <1>2, NobodyCopies
<1> QED
  BY <1>1, <1>3, <1>4, <1>5, CopiesStay

\* The journal and the demo switch: no copy and no thread's book depends on them.
LEMMA StutterCopies ==
  ASSUME IInv, BackupsOK,
         UNCHANGED <<disk, thread, backups, made, migrated, nightly, cuts, astray>>
  PROVE  BackupsOK'
<1>1. \A t \in Threads : Copies(t)'
  BY DEF BackupsOK, Copies, InFlight, Rotating, disk, thread
<1>2. /\ stamp' \in [Books -> Nat] /\ migrated' \in [Books -> Content]
      /\ stamp[Live] <= stamp'[Live]
  BY StoreAssumption DEF BackupsOK, CopiesOK, IInv, Typed, disk
<1> QED
  BY <1>1, <1>2, CopiesStay

\* A copy is started: it is torn, and newer than all nightly copies.
LEMMA StartedCopies ==
  ASSUME IInv, BackupsOK, NEW kind \in {"pre", "nightly"}, NEW b \in Books,
         ~astray' => ~astray /\ (kind = "nightly" => b = Live), StartCopy(kind, b),
         UNCHANGED <<nightly, cuts, migrated, stamp>>
  PROVE  /\ CopiesOK' /\ NightlyOK' /\ RollbackPoint'
         /\ \E k \in backups' : InFlight(k)' /\ k.kind = kind /\ k.of = b
<1> DEFINE new == TornCopy(kind, b)
<1>1. /\ backups' = backups \union {new} /\ made' = made + 1 /\ made \in Nat
      /\ Live \in Books /\ stamp \in [Books -> Nat] /\ \A k \in backups : k.id \in Nat /\ k.at \in Nat
  BY StoreAssumption DEF StartCopy, IInv, Typed, Backup
<1>2. /\ new.id = made + 1 /\ new.kind = kind /\ new.of = b /\ new.file = Corrupt
      /\ new.at = 2 * stamp[b] + 1
  BY DEF TornCopy
<1> HIDE DEF new
<1>3. Rotating' \subseteq Rotating \union {new} /\ Rotating \subseteq Rotating'
  BY <1>1 DEF Rotating
<1>4. CopiesOK'
  <2>1. IsFiniteSet(backups')
    BY <1>1, FS_AddElement DEF BackupsOK, CopiesOK
  <2>2. /\ \A k \in backups' : k.id <= made'
        /\ \A k, j \in backups' : k.id = j.id => k = j
    BY <1>1, <1>2 DEF BackupsOK, CopiesOK
  <2>3. ASSUME ~astray'
        PROVE  /\ \A k \in Rotating' : /\ k.of = Live /\ k.at <= 2 * stamp'[Live] + 1
                                       /\ k.file # Corrupt => k.at <= 2 * stamp'[Live]
               /\ \A c \in Books : nightly'[c] # Corrupt => c = Live
    <3>1. new \in Rotating' => b = Live
      BY <1>2, <2>3 DEF Rotating
    <3> QED
      BY <1>1, <1>2, <1>3, <2>3, <3>1 DEF BackupsOK, CopiesOK
  <2> QED
    BY <2>1, <2>2, <2>3 DEF BackupsOK, CopiesOK
<1>5. NightlyOK'
  <2> SUFFICES ASSUME cuts = 0, ~astray, nightly[Live] # Corrupt PROVE \E l \in Backup : LastNightly(l)'
    BY DEF NightlyOK
  <2>1. PICK l \in Backup : LastNightly(l)
    BY DEF BackupsOK, NightlyOK
  <2>2. NewerThan(l) \subseteq NewerThan(l)' /\ NewerThan(l)' \subseteq NewerThan(l) \union {new}
    BY <1>3 DEF NewerThan, Newer
  <2>3. NewerThan(l)' \subseteq backups' /\ IsFiniteSet(backups')
    BY <1>4 DEF NewerThan, Rotating, CopiesOK
  <2>4. IsFiniteSet(NewerThan(l)') /\ IsFiniteSet(NewerThan(l))
        /\ Cardinality(NewerThan(l)) <= Cardinality(NewerThan(l)')
    BY <2>2, <2>3, FS_Subset
  <2>5. ~(Cardinality(NewerThan(l)) < Keep) => ~(Cardinality(NewerThan(l)') < Keep)
    BY <2>4, FS_CardinalityType, StoreAssumption
  <2>6. l.kind = "nightly" /\ l.of = Live /\ l.file = nightly[Live]
        /\ (\A k \in NewerThan(l) : k.file = Corrupt)
        /\ (l \in backups \/ ~(Cardinality(NewerThan(l)) < Keep))
    BY <2>1 DEF LastNightly
  <2>7. \A k \in NewerThan(l)' : k.file = Corrupt
    BY <1>2, <2>2, <2>6
  <2>8. LastNightly(l)'
    BY <1>1, <2>5, <2>6, <2>7 DEF LastNightly
  <2> QED
    BY <2>8
<1>6. RollbackPoint'
  BY <1>1 DEF BackupsOK, RollbackPoint
<1> QED
  BY <1>1, <1>2, <1>4, <1>5, <1>6 DEF InFlight

LEMMA SnapshotStartCopies ==
  ASSUME IInv, BackupsOK, NEW t \in Threads, SnapshotStart(t) PROVE BackupsOK'
<1>1. /\ pc[t] = "snapshot" /\ InHand(t) /\ StartCopy("pre", src[t]) /\ src[t] \in Books
      /\ pc' = [pc EXCEPT ![t] = "snapshotting"]
      /\ UNCHANGED <<disk, op, upd, copy, src, dst, stage, nightly, cuts, migrated, astray>>
  BY DEF SnapshotStart, At, Goto, IInv, Typed, InHand, history, counters
<1>2. Away(t) /\ Moves(t) /\ pc'[t] = "snapshotting"
  BY <1>1, LockTells DEF Locked, Labels, IInv, Typed, Moves
<1>3. /\ CopiesOK' /\ NightlyOK' /\ RollbackPoint'
      /\ \E k \in backups' : InFlight(k)' /\ k.kind = "pre" /\ k.of = src[t]
  BY <1>1, StartedCopies DEF disk
<1>4. Copies(t)'
  BY <1>1, <1>2, <1>3 DEF Copies
<1> QED
  BY <1>2, <1>3, <1>4, OthersCopy DEF BackupsOK

LEMMA NightlyStartCopies ==
  ASSUME IInv, BackupsOK, NEW t \in Threads, NightlyStart(t) PROVE BackupsOK'
<1>1. /\ pc[t] = "refresh" /\ lock = Free /\ StartCopy("nightly", mode)
      /\ src' = [src EXCEPT ![t] = mode] /\ mode \in Books
      /\ pc' = [pc EXCEPT ![t] = "copying"]
      /\ UNCHANGED <<mode, disk, op, upd, copy, dst, stage, nightly, cuts, migrated>>
      /\ astray' = (astray \/ mode # Live)
  BY DEF NightlyStart, At, Take, Goto, counters, IInv, Typed
<1>2. Away(t) /\ Moves(t) /\ pc'[t] = "copying" /\ src'[t] = mode
  BY <1>1, LockTells DEF Away, IInv, Typed, Moves
<1>5. ~astray' => ~astray /\ mode = Live
  BY <1>1
<1>3. /\ CopiesOK' /\ NightlyOK' /\ RollbackPoint'
      /\ \E k \in backups' : InFlight(k)' /\ k.kind = "nightly" /\ k.of = mode
  BY <1>1, <1>5, StartedCopies DEF disk
<1>4. Copies(t)'
  BY <1>1, <1>2, <1>3 DEF Copies, Rotating
<1> QED
  BY <1>2, <1>3, <1>4, OthersCopy DEF BackupsOK

\* A nightly job that has only checked the mode has copied nothing.
LEMMA NightlyCheckCopies ==
  ASSUME IInv, BackupsOK, NEW t \in Threads, NightlyCheck(t) PROVE BackupsOK'
<1>1. /\ UNCHANGED <<backups, made, nightly, cuts, migrated, stamp, target, astray, src, stage>>
      /\ pc' = [pc EXCEPT ![t] = "refresh"] /\ pc \in [Threads -> Labels]
  BY DEF NightlyCheck, Goto, disk, history, counters, IInv, Typed
<1>2. \A u \in Threads : Copies(u)'
  <2> SUFFICES ASSUME NEW u \in Threads PROVE Copies(u)'
    OBVIOUS
  <2>1. CASE u = t
    BY <1>1, <2>1, NobodyCopies
  <2>2. CASE u # t
    <3>1. pc'[u] = pc[u] /\ Copies(u)
      BY <1>1, <2>2 DEF BackupsOK
    <3> QED
      BY <1>1, <3>1 DEF Copies, InFlight, Rotating
  <2> QED
    BY <2>1, <2>2
<1>3. /\ stamp' \in [Books -> Nat] /\ migrated' \in [Books -> Content]
      /\ stamp[Live] <= stamp'[Live]
  BY <1>1, StoreAssumption DEF BackupsOK, CopiesOK, IInv, Typed
<1> QED
  BY <1>1, <1>2, <1>3, CopiesStay

\* A copy is finished: the one in flight, and it alone, becomes its book.
Finished(k) == [k EXCEPT !.file = target[k.of], !.at = 2 * stamp[k.of]]

LEMMA FinishedOne ==
  ASSUME IInv, BackupsOK, FinishCopy, NEW k \in backups, k.id = made
  PROVE  /\ backups' = (backups \ {k}) \union {Finished(k)} /\ made' = made
         /\ Finished(k) \in Backup
         /\ Finished(k).id = made /\ Finished(k).kind = k.kind /\ Finished(k).of = k.of
         /\ Finished(k).file = target[k.of] /\ Finished(k).at = 2 * stamp[k.of]
         /\ IsFiniteSet(backups')
         /\ \A i, j \in backups' : i.id = j.id => i = j
<1>1. /\ k \in Backup /\ target[k.of] \in Content /\ stamp[k.of] \in Nat
      /\ \A i, j \in backups : i.id = j.id => i = j
      /\ IsFiniteSet(backups) /\ made \in Nat /\ backups \subseteq Backup
  BY DEF IInv, Typed, Backup, BackupsOK, CopiesOK
<1>2. /\ backups' = {IF j.id = made THEN Finished(j) ELSE j : j \in backups} /\ made' = made
  BY DEF FinishCopy, Finished
<1>3. /\ Finished(k) \in Backup
      /\ Finished(k).id = made /\ Finished(k).kind = k.kind /\ Finished(k).of = k.of
      /\ Finished(k).file = target[k.of] /\ Finished(k).at = 2 * stamp[k.of]
  <2> DEFINE at == 2 * stamp[k.of]
  <2>1. at \in Nat
    BY <1>1
  <2> HIDE DEF at
  <2>2. Finished(k) = [k EXCEPT !.file = target[k.of], !.at = at]
    BY DEF Finished, at
  <2>3. /\ Finished(k) \in Backup
        /\ Finished(k).id = made /\ Finished(k).kind = k.kind /\ Finished(k).of = k.of
        /\ Finished(k).file = target[k.of] /\ Finished(k).at = at
    BY <1>1, <2>1, <2>2 DEF Backup
  <2> QED
    BY <2>3 DEF at
<1>4. backups' = (backups \ {k}) \union {Finished(k)}
  BY <1>1, <1>2
<1>5. IsFiniteSet(backups \ {k})
  BY <1>1, FS_Subset
<1>6. IsFiniteSet(backups')
  BY <1>4, <1>5, FS_AddElement
<1>7. \A i, j \in backups' : i.id = j.id => i = j
  BY <1>1, <1>3, <1>4
<1> QED
  BY <1>2, <1>3, <1>4, <1>6, <1>7

LEMMA SnapshotDoneCopies ==
  ASSUME IInv, BackupsOK, NEW t \in Threads, SnapshotDone(t) PROVE BackupsOK'
<1>1. /\ pc[t] = "snapshotting" /\ Copies(t) /\ FinishCopy
      /\ pc' = [pc EXCEPT ![t] = "write"]
      /\ UNCHANGED <<target, stamp, op, upd, src, dst, nightly, cuts, migrated, astray>>
  BY DEF SnapshotDone, At, Goto, BackupsOK, disk, history, counters
<1>2. Away(t) /\ Moves(t) /\ pc'[t] = "write"
  BY <1>1, LockTells DEF Locked, Labels, IInv, Typed, Moves, SnapshotDone
<1>3. PICK k \in backups : InFlight(k) /\ k.kind = "pre" /\ k.of = src[t]
  BY <1>1 DEF Copies
<1> DEFINE new == Finished(k)
<1>4. /\ backups' = (backups \ {k}) \union {new} /\ made' = made
      /\ new.id = made /\ new.kind = "pre" /\ new.of = src[t]
      /\ new.file = target[src[t]]
      /\ IsFiniteSet(backups')
      /\ \A i, j \in backups' : i.id = j.id => i = j
      /\ made \in Nat
  BY <1>1, <1>3, FinishedOne DEF InFlight, IInv, Typed
<1> HIDE DEF new
<1>5. Rotating' = Rotating
  BY <1>3, <1>4 DEF Rotating
<1>6. CopiesOK'
  <2>1. \A j \in backups' : j.id <= made'
    BY <1>4 DEF BackupsOK, CopiesOK
  <2> QED
    BY <1>1, <1>4, <1>5, <2>1 DEF BackupsOK, CopiesOK
<1>7. NightlyOK'
  <2> SUFFICES ASSUME cuts = 0, ~astray, nightly[Live] # Corrupt PROVE \E l \in Backup : LastNightly(l)'
    BY <1>1 DEF NightlyOK
  <2>1. PICK l \in Backup : LastNightly(l)
    BY DEF BackupsOK, NightlyOK
  <2>2. NewerThan(l)' = NewerThan(l)
    BY <1>5 DEF NewerThan, Newer
  <2>3. l \in backups => l \in backups'
    BY <1>3, <1>4, <2>1 DEF LastNightly
  <2>4. LastNightly(l)'
    BY <1>1, <2>1, <2>2, <2>3 DEF LastNightly
  <2> QED
    BY <2>4
<1>8. RollbackPoint'
  BY <1>1, <1>3, <1>4 DEF BackupsOK, RollbackPoint, InFlight
<1>9. Copies(t)'
  BY <1>1, <1>2, <1>4 DEF Copies
<1> QED
  BY <1>2, <1>6, <1>7, <1>8, <1>9, OthersCopy DEF BackupsOK

LEMMA NightlyCopiedCopies ==
  ASSUME IInv, BackupsOK, NEW t \in Threads, NightlyCopied(t) PROVE BackupsOK'
<1>1. /\ pc[t] = "copying" /\ Copies(t) /\ FinishCopy
      /\ pc' = [pc EXCEPT ![t] = "rotate"]
      /\ nightly' = [nightly EXCEPT ![src[t]] = target[src[t]]]
      /\ UNCHANGED <<target, stamp, op, upd, copy, src, dst, stage, cuts, migrated, astray>>
      /\ Live \in Books /\ src[t] \in Books
      /\ target \in [Books -> Content] /\ stamp \in [Books -> Nat]
      /\ nightly \in [Books -> Content]
  BY StoreAssumption
     DEF NightlyCopied, At, Goto, BackupsOK, CopiesOK, disk, counters, IInv, Typed
<1>2. Away(t) /\ Moves(t) /\ pc'[t] = "rotate"
  BY <1>1, LockTells DEF Locked, Labels, IInv, Typed, Moves
<1>3. PICK k \in Rotating : InFlight(k) /\ k.of = src[t]
  BY <1>1 DEF Copies
<1>4. k \in backups /\ k.kind = "nightly" /\ k.id = made /\ k.file = Corrupt
  BY <1>3 DEF Rotating, InFlight
<1>5. PICK new \in Backup : new = Finished(k)
  BY <1>1, <1>4, FinishedOne
<1>6. /\ backups' = (backups \ {k}) \union {new} /\ made' = made /\ new \in Backup
      /\ new.id = made /\ new.kind = "nightly" /\ new.of = src[t]
      /\ new.file = target[src[t]] /\ new.at = 2 * stamp[src[t]]
      /\ IsFiniteSet(backups')
      /\ \A i, j \in backups' : i.id = j.id => i = j
      /\ made \in Nat
  BY <1>1, <1>3, <1>4, <1>5, FinishedOne DEF IInv, Typed
<1>7. Rotating' = (Rotating \ {k}) \union {new}
  BY <1>4, <1>6 DEF Rotating
<1>12. ~astray => src[t] = Live
  BY <1>3 DEF BackupsOK, CopiesOK
<1>8. CopiesOK'
  <2>1. \A j \in backups' : j.id <= made'
    BY <1>6 DEF BackupsOK, CopiesOK
  <2>2. ASSUME ~astray
        PROVE  \A j \in Rotating' : /\ j.of = Live /\ j.at <= 2 * stamp'[Live] + 1
                                    /\ j.file # Corrupt => j.at <= 2 * stamp'[Live]
    <3>1. 2 * stamp[Live] \in Nat
      BY <1>1
    <3>2. new.of = Live /\ new.at <= 2 * stamp[Live] + 1 /\ new.at <= 2 * stamp[Live]
      BY <1>6, <1>12, <2>2, <3>1
    <3> QED
      BY <1>1, <1>6, <1>7, <2>2, <3>2 DEF BackupsOK, CopiesOK
  <2>3. ASSUME ~astray, NEW b \in Books, nightly'[b] # Corrupt PROVE b = Live
    BY <1>1, <1>12, <2>3 DEF BackupsOK, CopiesOK
  <2>4. nightly' \in [Books -> Content]
    BY <1>1
  <2> QED
    BY <1>1, <1>6, <2>1, <2>2, <2>3, <2>4 DEF BackupsOK, CopiesOK
<1>9. NightlyOK'
  <2> SUFFICES ASSUME ~astray PROVE \E l \in Backup : LastNightly(l)'
    BY <1>1 DEF NightlyOK
  <2>1. \A j \in NewerThan(new)' : j.file = Corrupt
    <3> SUFFICES ASSUME NEW j \in Rotating', Newer(j, new), j.file # Corrupt PROVE FALSE
      BY DEF NewerThan, Newer
    <3>1. j \in backups' /\ j.id <= made /\ j.at <= 2 * stamp[Live]
      BY <1>1, <1>6, <1>8 DEF CopiesOK, Rotating
    <3>2. j.id \in Nat /\ j.at \in Nat /\ stamp[Live] \in Nat
      BY <1>1, <1>6, <3>1 DEF IInv, Typed, Backup
    <3> QED
      BY <1>6, <1>12, <3>1, <3>2 DEF Newer
  <2>2. new.of = Live /\ new.file = nightly'[Live] /\ new \in backups'
    BY <1>1, <1>6, <1>12
  <2>3. LastNightly(new)'
    BY <1>6, <2>1, <2>2 DEF LastNightly
  <2> QED
    BY <1>6, <2>3
<1>10. RollbackPoint'
  BY <1>1, <1>4, <1>6 DEF BackupsOK, RollbackPoint
<1>11. Copies(t)'
  BY <1>2 DEF Copies
<1> QED
  BY <1>2, <1>8, <1>9, <1>10, <1>11, OthersCopy DEF BackupsOK

\* A set of naturals that is not empty has a least member.
LEMMA Least == ASSUME NEW T \in SUBSET Nat, T # {} PROVE \E n \in T : \A m \in T : n <= m
<1> DEFINE R == OpToRel(<, Nat)
<1>1. IsWellFoundedOn(R, Nat)
  BY NatLessThanWellFounded
<1> HIDE DEF R
<1>2. PICK n \in T : \A m \in T : ~(<<m, n>> \in R)
  BY <1>1, WFMin
<1>3. \A m \in T : ~(m < n)
  BY <1>2 DEF R, OpToRel
<1> QED
  BY <1>2, <1>3

\* Of some nightly copies one is the newest: the latest mtime, then the
\* latest name.
LEMMA Newest ==
  ASSUME IInv, BackupsOK, ~astray, NEW S \in SUBSET Rotating, S # {}
  PROVE  \E m \in S : \A k \in S : ~Newer(k, m)
<1> DEFINE late == 2 * stamp[Live] + 1
<1>1. /\ late \in Nat /\ made \in Nat
      /\ \A k \in S : k.at \in Nat /\ k.id \in Nat /\ k.at <= late /\ k.id <= made
  BY StoreAssumption DEF IInv, Typed, Backup, BackupsOK, CopiesOK, Rotating
<1> HIDE DEF late
<1>2. PICK a \in S : \A k \in S : k.at <= a.at
  <2> DEFINE T == {late - k.at : k \in S}
  <2>1. T \in SUBSET Nat /\ T # {}
    BY <1>1
  <2>2. PICK n \in T : \A i \in T : n <= i
    BY <2>1, Least
  <2>3. PICK a \in S : n = late - a.at
    BY <2>2
  <2>4. \A k \in S : late - a.at <= late - k.at
    BY <2>2, <2>3
  <2> QED
    BY <1>1, <2>4
<1> DEFINE U == {k \in S : k.at = a.at}
<1>3. PICK m \in U : \A k \in U : k.id <= m.id
  <2> DEFINE T == {made - k.id : k \in U}
  <2>1. T \in SUBSET Nat /\ T # {}
    BY <1>1, <1>2
  <2>2. PICK n \in T : \A i \in T : n <= i
    BY <2>1, Least
  <2>3. PICK m \in U : n = made - m.id
    BY <2>2
  <2>4. \A k \in U : made - m.id <= made - k.id
    BY <2>2, <2>3
  <2> QED
    BY <1>1, <2>4
<1> QED
  BY <1>1, <1>2, <1>3 DEF Newer

LEMMA NewerStill ==
  ASSUME IInv, NEW l \in Backup, NEW m \in Rotating, NEW k \in Rotating,
         Newer(k, m), Newer(m, l)
  PROVE  Newer(k, l)
BY DEF IInv, Typed, Backup, Rotating, Newer

\* The rotation drops the last nightly copy only for as many newer ones as it
\* keeps, and then keeps those: otherwise the newest one it drops has fewer
\* than Keep above it.
LEMMA RotationKeeps ==
  ASSUME IInv, BackupsOK, ~astray, NEW l \in Backup, LastNightly(l),
         ~(Cardinality(NewerThan(l)) < Keep)
  PROVE  ~(Cardinality(NewerThan(l) \intersect Kept) < Keep)
<1> DEFINE kept == NewerThan(l) \intersect Kept
           gone == NewerThan(l) \ Kept
<1> SUFFICES ASSUME Cardinality(kept) < Keep PROVE FALSE
  OBVIOUS
<1>1. /\ IsFiniteSet(NewerThan(l)) /\ IsFiniteSet(kept)
      /\ gone \in SUBSET Rotating
  <2>1. NewerThan(l) \subseteq backups /\ IsFiniteSet(backups)
    BY DEF NewerThan, Rotating, BackupsOK, CopiesOK
  <2>2. IsFiniteSet(NewerThan(l))
    BY <2>1, FS_Subset
  <2> QED
    BY <2>2, FS_Subset DEF NewerThan
<1>2. gone # {}
  <2>1. ASSUME gone = {} PROVE FALSE
    <3>1. kept = NewerThan(l)
      BY <2>1
    <3> QED
      BY <3>1
  <2> QED
    BY <2>1
<1>3. PICK m \in gone : \A k \in gone : ~Newer(k, m)
  BY <1>1, <1>2, Newest
<1> DEFINE above == {n \in Rotating : Newer(n, m)}
<1>4. above \subseteq kept
  <2> SUFFICES ASSUME NEW k \in Rotating, Newer(k, m) PROVE k \in kept
    OBVIOUS
  <2>1. m \in Rotating /\ Newer(m, l)
    BY <1>3 DEF NewerThan
  <2>2. k \in NewerThan(l)
    BY <2>1, NewerStill DEF NewerThan
  <2> QED
    BY <1>3, <2>2
<1> HIDE DEF kept
<1>5. /\ Cardinality(above) <= Cardinality(kept) /\ IsFiniteSet(above)
  BY <1>1, <1>4, FS_Subset
<1>6. Cardinality(above) < Keep
  <2>1. Cardinality(above) \in Nat /\ Cardinality(kept) \in Nat
    BY <1>1, <1>5, FS_CardinalityType
  <2> QED
    BY <1>5, <2>1, StoreAssumption
<1>7. m \in Kept
  BY <1>3, <1>6 DEF Kept, NewerThan, Rotating
<1> QED
  BY <1>3, <1>7

LEMMA RotateCopies ==
  ASSUME IInv, BackupsOK, OneNightly, NEW t \in Threads, Rotate(t) PROVE BackupsOK'
<1>1. /\ pc[t] = "rotate" /\ backups' = Kept /\ pc' = [pc EXCEPT ![t] = "idle"]
      /\ src' = [src EXCEPT ![t] = Live]
      /\ UNCHANGED <<disk, stage, made, nightly, cuts, migrated, astray>>
      /\ pc \in [Threads -> Labels] /\ src \in [Threads -> Books]
      /\ Kept \subseteq backups
  BY DEF Rotate, At, Goto, Kept, IInv, Typed, history, counters
<1>2. Rotating' = Rotating \intersect Kept
  BY <1>1 DEF Rotating
<1>3. \A k \in backups : k.kind = "pre" => k \in Kept
  BY DEF Kept, Rotating
<1>4. CopiesOK'
  <2>1. IsFiniteSet(backups')
    BY <1>1, FS_Subset DEF BackupsOK, CopiesOK
  <2> QED
    BY <1>1, <1>2, <2>1 DEF BackupsOK, CopiesOK, disk
<1>5. RollbackPoint'
  BY <1>1, <1>3 DEF BackupsOK, RollbackPoint
<1>6. NightlyOK'
  <2> SUFFICES ASSUME cuts = 0, ~astray, nightly[Live] # Corrupt PROVE \E l \in Backup : LastNightly(l)'
    BY <1>1 DEF NightlyOK
  <2>1. PICK l \in Backup : LastNightly(l)
    BY DEF BackupsOK, NightlyOK
  <2>2. NewerThan(l)' = NewerThan(l) \intersect Kept
    BY <1>2 DEF NewerThan, Newer
  <2>3. l \in backups' \/ ~(Cardinality(NewerThan(l)') < Keep)
    <3>1. CASE Cardinality(NewerThan(l)) < Keep
      BY <1>1, <2>1, <3>1 DEF LastNightly, Kept, NewerThan
    <3>2. CASE ~(Cardinality(NewerThan(l)) < Keep)
      BY <2>1, <2>2, <3>2, RotationKeeps
    <3> QED
      BY <3>1, <3>2
  <2>4. LastNightly(l)'
    BY <1>1, <2>1, <2>2, <2>3 DEF LastNightly
  <2> QED
    BY <2>4
<1>7. \A u \in Threads : Copies(u)'
  <2> SUFFICES ASSUME NEW u \in Threads PROVE Copies(u)'
    OBVIOUS
  <2>1. CASE u = t
    BY <1>1, <2>1, NobodyCopies
  <2>2. CASE u # t
    <3>1. pc'[u] = pc[u] /\ src'[u] = src[u] /\ stage'[u] = stage[u] /\ Copies(u)
      BY <1>1, <2>2 DEF BackupsOK
    <3>2. pc[u] # "copying"
      BY <1>1, <2>2 DEF OneNightly, IInv, InHand
    <3> QED
      BY <1>1, <1>3, <3>1, <3>2 DEF Copies, InFlight, disk
  <2> QED
    BY <2>1, <2>2
<1> QED
  BY <1>4, <1>5, <1>6, <1>7 DEF BackupsOK

\* A power cut tears the latest copy at most, and voids the promises.
LEMMA PowerCutCopies ==
  ASSUME IInv, BackupsOK, PowerCut PROVE BackupsOK'
<1> DEFINE torn(k) == [k EXCEPT !.file = Corrupt]
<1>1. /\ cuts' = cuts + 1 /\ UNCHANGED <<made, stamp, nightly, migrated, astray>>
      /\ \A t \in Threads : pc'[t] = "idle"
      /\ \/ backups' = backups
         \/ backups' = {IF k.id = made THEN torn(k) ELSE k : k \in backups}
      /\ backups \subseteq Backup /\ cuts \in Nat
  BY DEF PowerCut, ForgetThreads, IInv, Typed, BackupsOK, CopiesOK
<1>2. ASSUME NEW k \in backups
      PROVE  /\ torn(k).id = k.id /\ torn(k).kind = k.kind /\ torn(k).of = k.of
             /\ torn(k).at = k.at /\ torn(k).file = Corrupt
  BY <1>1 DEF Backup
<1> HIDE DEF torn
<1>3. \A j \in backups' : \E k \in backups : j = k \/ (j = torn(k) /\ k.id = made)
  BY <1>1
<1>4. /\ IsFiniteSet(backups') /\ \A i, j \in backups' : i.id = j.id => i = j
  <2>1. CASE backups' = backups
    BY <2>1 DEF BackupsOK, CopiesOK
  <2>2. ASSUME NEW k \in backups, k.id = made, backups' # backups
        PROVE  IsFiniteSet(backups') /\ \A i, j \in backups' : i.id = j.id => i = j
    <3>1. \A i, j \in backups : i.id = j.id => i = j
      BY DEF BackupsOK, CopiesOK
    <3>2. backups' = (backups \ {k}) \union {torn(k)}
      BY <1>1, <2>2, <3>1
    <3>3. IsFiniteSet(backups \ {k})
      BY FS_Subset DEF BackupsOK, CopiesOK
    <3>4. IsFiniteSet(backups')
      BY <3>2, <3>3, FS_AddElement
    <3> QED
      BY <1>2, <3>1, <3>2, <3>4
  <2>3. (\A k \in backups : k.id # made) => backups' = backups
    BY <1>1
  <2> QED
    BY <2>1, <2>2, <2>3
<1>5. \A j \in backups' : j.id <= made'
  BY <1>1, <1>2, <1>3 DEF BackupsOK, CopiesOK
<1>6. ~astray => \A j \in Rotating' : /\ j.of = Live /\ j.at <= 2 * stamp'[Live] + 1
                                      /\ j.file # Corrupt => j.at <= 2 * stamp'[Live]
  <2> SUFFICES ASSUME ~astray, NEW j \in Rotating'
               PROVE  /\ j.of = Live /\ j.at <= 2 * stamp[Live] + 1
                      /\ j.file # Corrupt => j.at <= 2 * stamp[Live]
    BY <1>1
  <2>1. PICK k \in backups : j = k \/ j = torn(k)
    BY <1>3 DEF Rotating
  <2>2. k \in Rotating
    BY <1>2, <2>1 DEF Rotating
  <2> QED
    BY <1>2, <2>1, <2>2 DEF BackupsOK, CopiesOK
<1>7. CopiesOK'
  BY <1>1, <1>4, <1>5, <1>6 DEF BackupsOK, CopiesOK
<1>8. NightlyOK' /\ RollbackPoint'
  BY <1>1 DEF NightlyOK, RollbackPoint
<1>9. \A t \in Threads : Copies(t)'
  BY <1>1, NobodyCopies
<1> QED
  BY <1>7, <1>8, <1>9 DEF BackupsOK

-----------------------------------------------------------------------------
(* All of it together.                                                      *)

LEMMA InitCopies == Init => BackupsOK /\ OneNightly /\ JournalOK
<1> SUFFICES ASSUME Init PROVE BackupsOK /\ OneNightly /\ JournalOK
  OBVIOUS
<1>1. IsFiniteSet({}) /\ Cardinality({}) = 0 /\ Corrupt \in Content
  BY FS_EmptySet DEF Corrupt, Content, CodeVersion
<1>2. CopiesOK
  BY <1>1 DEF Init, CopiesOK, Rotating
<1>3. NightlyOK /\ RollbackPoint
  BY StoreAssumption DEF Init, NightlyOK, RollbackPoint
<1>4. \A t \in Threads : Copies(t)
  BY DEF Init, Copies
<1>5. Lost = {} /\ Spoilt = {}
  BY DEF Init, Lost, Spoilt
<1>6. JournalOK
  <2>1. /\ journal \in Seq(Line) /\ ragged = FALSE /\ journaled = {}
    BY DEF Init
  <2>2. Cardinality(Lost) <= Cardinality(Spoilt)
    BY <1>1, <1>5
  <2> QED
    BY <1>1, <2>1, <2>2 DEF JournalOK
<1>7. OneNightly
  BY DEF Init, OneNightly, None
<1> QED
  BY <1>2, <1>3, <1>4, <1>6, <1>7 DEF BackupsOK

LEMMA JournalStays ==
  ASSUME JournalOK, UNCHANGED log PROVE JournalOK'
BY DEF JournalOK, Lost, Spoilt, order_journal_entries, log

\* Only a nightly job that finds no other one begins.
LEMMA NightlyAlone ==
  ASSUME IInv, OneNightly, NEW t \in Threads, Operation(t) PROVE OneNightly'
<1>1. op \in [Threads -> Ops]
  BY DEF IInv, Typed
<1>2. CASE NightlyCheck(t)
  BY <1>1, <1>2 DEF NightlyCheck, OneNightly
<1>3. CASE ~NightlyCheck(t)
  <2>1. op' = op \/ \E kind \in Ops \ {"backup"} : op' = [op EXCEPT ![t] = kind]
    BY <1>3 DEF Operation, Begin, SnapshotStart, SnapshotDone, SnapshotFails, Apply, Hold,
         Save, BeginReset, Replace, WriteFails, SyncMigrated, SyncSaved, NightlyStart,
         NightlyCopied, NightlyFails, Rotate, Boot, Booted, End, Ops, None
  <2> QED
    BY <1>1, <2>1 DEF OneNightly
<1> QED
  BY <1>2, <1>3

LEMMA NextCopies ==
  ASSUME IInv, BackupsOK, OneNightly, JournalOK, [Next]_vars
  PROVE  BackupsOK' /\ OneNightly' /\ JournalOK'
<1>1. ASSUME NEW t \in Threads, Operation(t) PROVE BackupsOK' /\ OneNightly' /\ JournalOK'
  <2>1. UNCHANGED log
    BY <1>1 DEF Operation, Begin, SnapshotStart, SnapshotDone, SnapshotFails, Apply, Hold,
         Save, BeginReset, Replace, WriteFails, SyncMigrated, SyncSaved, NightlyCheck,
         NightlyStart, NightlyCopied, NightlyFails, Rotate, Boot, Booted
  <2>2. BackupsOK'
    BY <1>1, OperationCopies, ReplaceCopies, SnapshotStartCopies, NightlyCheckCopies,
       NightlyStartCopies, SnapshotDoneCopies, NightlyCopiedCopies, RotateCopies DEF Operation
  <2> QED
    BY <1>1, <2>1, <2>2, NightlyAlone, JournalStays
<1>2. ASSUME NEW u \in Updates, append_order_journal(u) \/ AppendCut(u)
      PROVE  BackupsOK' /\ OneNightly' /\ JournalOK'
  <2>1. UNCHANGED <<disk, thread, backups, made, migrated, nightly, cuts, astray>>
    BY <1>2 DEF append_order_journal, AppendCut, history, counters
  <2> QED
    BY <1>2, <2>1, StutterCopies, JournalKept DEF OneNightly, thread
<1>3. ASSUME NEW b \in Books, Damage(b) PROVE BackupsOK' /\ OneNightly' /\ JournalOK'
  BY <1>3, IdleCopies, JournalStays DEF Damage, OneNightly, thread
<1>4. ASSUME NEW b \in Books, set_demo_enabled(b)
      PROVE  BackupsOK' /\ OneNightly' /\ JournalOK'
  <2>1. UNCHANGED <<disk, thread, backups, made, migrated, nightly, cuts, astray, log>>
    BY <1>4 DEF set_demo_enabled, history
  <2> QED
    BY <2>1, StutterCopies, JournalStays DEF OneNightly, thread
<1>5. ASSUME NEW k \in backups, restore_from_backup(k)
      PROVE  BackupsOK' /\ OneNightly' /\ JournalOK'
  BY <1>5, IdleCopies, JournalStays DEF restore_from_backup, OneNightly, thread
<1>6. CASE Kill \/ Stop
  BY <1>6, IdleCopies, JournalStays DEF Kill, Stop, ForgetThreads, OneNightly, thread, None
<1>7. CASE PowerCut
  BY <1>7, PowerCutCopies, JournalStays DEF PowerCut, ForgetThreads, OneNightly, None
<1>8. CASE UNCHANGED vars
  BY <1>8, StutterCopies, JournalStays DEF vars, history, counters, OneNightly, thread
<1> QED
  BY <1>1, <1>2, <1>3, <1>4, <1>5, <1>6, <1>7, <1>8 DEF Next, Environment

(* What the operator goes back to after a mishap is there, for any threads, *)
(* books, faults and kills, whenever the mode is switched: the book a       *)
(* migration replaced and, unless a nightly job copied the demo book, the   *)
(* last nightly copy, through any number of torn copies fewer than those    *)
(* kept (snapshot_before_migration, nightly_backup, rotate), and the        *)
(* journal but for one entry per line cut short (order_journal_entries).    *)
THEOREM RecoverableAlways == Spec => []Recoverable
<1>1. Init => BackupsOK /\ OneNightly /\ JournalOK
  BY InitCopies
<1>2. IInv /\ BackupsOK /\ OneNightly /\ JournalOK /\ [Next]_vars
        => BackupsOK' /\ OneNightly' /\ JournalOK'
  BY NextCopies
<1>3. IInv /\ BackupsOK /\ JournalOK => Recoverable
  BY LastNightlyKept, JournalBounded DEF BackupsOK, Recoverable
<1> QED
  BY <1>1, <1>2, <1>3, Inductive, PTL DEF Spec
=============================================================================
