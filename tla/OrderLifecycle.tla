--------------------------- MODULE OrderLifecycle ---------------------------
(***************************************************************************)
(* The order state machine of backend/order_lifecycle.py: the coded states *)
(* an order can be in, which are terminal, which edges are legal, how a    *)
(* raw broker status is coded, and the one rule that says whether a new    *)
(* order for the same position intent may be sent.  Pure operators only.   *)
(***************************************************************************)
EXTENDS Naturals

TERMINAL == {"FILLED", "CANCELED", "REJECTED", "EXPIRED",
             "FILLED_DURING_CANCEL", "PARTIAL_FILL_CANCELED"}

LIVE == {"WORKING", "CANCEL_REQUESTED", "PENDING_CANCEL"}

CodedStates == TERMINAL \cup LIVE \cup {"SUBMITTED", "LOCKED_UNKNOWN"}

\* A fresh order for the intent is allowed after one of these ...
RESUBMIT_OK_STATES == {"CANCELED", "REJECTED", "EXPIRED", "FILLED"}

\* ... and never automatically after one of these.
REVIEW_BLOCKING == {"FILLED_DURING_CANCEL", "PARTIAL_FILL_CANCELED",
                    "LOCKED_UNKNOWN"}

LEGAL_TRANSITIONS == [s \in CodedStates |->
  CASE s = "SUBMITTED" ->
         {"WORKING", "FILLED", "REJECTED", "EXPIRED", "CANCELED",
          "CANCEL_REQUESTED", "LOCKED_UNKNOWN"}
    [] s = "WORKING" ->
         {"FILLED", "CANCEL_REQUESTED", "REJECTED", "EXPIRED", "CANCELED",
          "PARTIAL_FILL_CANCELED", "LOCKED_UNKNOWN"}
    [] s = "CANCEL_REQUESTED" ->
         {"PENDING_CANCEL", "CANCELED", "FILLED_DURING_CANCEL",
          "PARTIAL_FILL_CANCELED", "REJECTED", "EXPIRED", "LOCKED_UNKNOWN"}
    [] s = "PENDING_CANCEL" ->
         {"CANCELED", "FILLED_DURING_CANCEL", "PARTIAL_FILL_CANCELED",
          "REJECTED", "EXPIRED", "LOCKED_UNKNOWN"}
    [] s = "LOCKED_UNKNOWN" -> TERMINAL
    [] OTHER -> {}]

\* NoState stands for Python's None: the intent has no lock yet.
NoState == "NONE"

is_terminal(state) == state \in TERMINAL

is_legal_transition(prior, new) ==
  \/ prior = NoState /\ new \in {"SUBMITTED", "WORKING"}
  \/ prior = new /\ prior \in CodedStates \ TERMINAL
  \/ prior # new /\ prior \in CodedStates /\ new \in LEGAL_TRANSITIONS[prior]

\* The raw statuses the broker reports; "" is a failed read.
RawTerminal == {"FILLED", "CANCELED", "REJECTED", "EXPIRED"}
RawLive     == {"WORKING", "PENDING_CANCEL"}

\* A fill as executor.py's callers report it: how many of how many.
FullyFilled(filled, ordered) == filled > 0 /\ ordered > 0 /\ filled >= ordered
PartlyFilled(filled, ordered) == filled > 0 /\ (ordered = 0 \/ filled < ordered)

\* A dead order that was not wholly filled.
DeadCode(raw, filled, ordered) ==
  IF raw # "REJECTED" /\ PartlyFilled(filled, ordered)
  THEN "PARTIAL_FILL_CANCELED" ELSE raw

map_broker_status(raw, filled, ordered, cancelRequested) ==
  CASE raw = "FILLED" \/ (raw = "CANCELED" /\ FullyFilled(filled, ordered)) ->
         IF cancelRequested THEN "FILLED_DURING_CANCEL" ELSE "FILLED"
    [] raw \in {"REJECTED", "EXPIRED"}
         \/ (raw = "CANCELED" /\ ~FullyFilled(filled, ordered)) ->
         DeadCode(raw, filled, ordered)
    [] raw \notin RawTerminal ->
         IF raw = "PENDING_CANCEL" \/ cancelRequested THEN "PENDING_CANCEL" ELSE "WORKING"

\* Mutant: anything the app no longer calls live may be followed by an order.
check_resubmit_not_live(lock, maxAttempts) ==
  lock.state \notin LIVE /\ lock.attempts < maxAttempts

\* NO_RESUBMIT_BEFORE_TERMINAL and MAX_RESUBMIT_ATTEMPTS, in one place.
check_resubmit(lock, maxAttempts) ==
  \/ lock.state = NoState
  \/ /\ lock.state \in RESUBMIT_OK_STATES
     /\ lock.reconciled
     /\ lock.attempts < maxAttempts
=============================================================================
