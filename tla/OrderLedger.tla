---------------------------- MODULE OrderLedger ----------------------------
(***************************************************************************)
(* What callers of logging_handler.py can rely on: each book (one state    *)
(* file) holds a set of updates, and an acknowledged update leaves it only *)
(* when a writer puts back a content it took earlier (a load .. save       *)
(* section, an operation the mode was switched under, a reset, a restore), *)
(* when the file is lost, or when the power goes while the book's last     *)
(* acknowledged write was not made durable.  No kill, no failed write, no  *)
(* migration, no locked update and no other power cut takes one away.      *)
(***************************************************************************)
EXTENDS FiniteSets

CONSTANTS Books, Updates

VARIABLES
  book,   \* [Books -> SUBSET Updates]: what a reader of the book finds
  past,   \* [Books -> SUBSET SUBSET Updates]: every content it ever had
  acked,  \* [Books -> SUBSET Updates]: acknowledged, and not put back since
  loose   \* the books whose last acknowledged write is not durable

ledgerVars == <<book, past, acked, loose>>

Init ==
  /\ book = [b \in Books |-> {}]
  /\ past = [b \in Books |-> {{}}]
  /\ acked = [b \in Books |-> {}]
  /\ loose = {}

Become(b, content) ==
  /\ book' = [book EXCEPT ![b] = content]
  /\ past' = [past EXCEPT ![b] = @ \union {content}]

(* A locked read-modify-write: the current book and one update more. *)
Commit(b, u) ==
  /\ Become(b, book[b] \union {u})
  /\ UNCHANGED <<acked, loose>>

(* A writer that loaded book c earlier: its content then and one update    *)
(* more.                                                                   *)
SaveOlder(b, c, u) ==
  \E old \in past[c] :
    /\ Become(b, old \union {u})
    /\ acked' = [acked EXCEPT ![b] = @ \intersect (old \union {u})]
    /\ UNCHANGED loose

(* The caller has its answer; what it wrote is durable, or it is not. *)
Acknowledge(b) ==
  \E told \in SUBSET book[b] :
    /\ acked' = [acked EXCEPT ![b] = @ \union told]
    /\ loose' \in {loose \ {b}, loose \union {b}}
    /\ UNCHANGED <<book, past>>

(* A reset, a restore, a lost file, a migrated copy of another book. *)
Revert(b, c) ==
  \E old \in past[c] :
    /\ Become(b, old)
    /\ acked' = [acked EXCEPT ![b] = @ \intersect old]
    /\ loose' \in {loose, loose \ {b}}

(* The power goes: books fall back, but only a loose one loses what it had *)
(* acknowledged.                                                           *)
Fall(left) ==
  /\ \A b \in Books : left[b] \in past[b] /\ (b \notin loose => acked[b] \subseteq left[b])
  /\ book' = left
  /\ acked' = [b \in Books |-> acked[b] \intersect left[b]]
  /\ loose' = {}
  /\ UNCHANGED past

Next ==
  \/ \E b \in Books :
       \/ Acknowledge(b)
       \/ \E u \in Updates : Commit(b, u)
       \/ \E c \in Books : Revert(b, c) \/ \E u \in Updates : SaveOlder(b, c, u)
  \/ \E left \in [Books -> SUBSET Updates] : Fall(left)

Spec == Init /\ [][Next]_ledgerVars

AckedHeld == \A b \in Books : acked[b] \subseteq book[b]
=============================================================================
