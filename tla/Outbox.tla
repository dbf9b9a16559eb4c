------------------------------- MODULE Outbox --------------------------------
(***************************************************************************)
(* The notification outbox: rows written by the web process and drained by  *)
(* the cron of the ARQ worker.  The cron starts every 30 s whether or not    *)
(* its previous run has ended, so several drains may be at work; each one    *)
(* claims rows, delivers them one by one to Telegram and records the result. *)
(* The module has no Next of its own: WindowsWorker composes its actions.    *)
(***************************************************************************)
EXTENDS Naturals, FiniteSets

CONSTANTS
  Notes,         (* idempotency keys of notifications                        *)
  Drains,        (* drains that may be at work at the same time               *)
  GiveUpAfter    (* attempts after which a row is given up                    *)

NoNote == << >>

ASSUME OutboxAssumption == GiveUpAfter \in Nat \ {0} /\ NoNote \notin Notes

VARIABLES
  row,        (* [Notes -> status of the row, "none": not enqueued]           *)
  attempts,   (* [Notes -> claims of the row, counted up to GiveUpAfter]      *)
  due,        (* rows whose next_attempt_at has passed                        *)
  sends,      (* [Notes -> 0..2 messages the user got, 2: several]            *)
  doubtful,   (* rows claimed twice, or delivered without being recorded      *)
  drain       (* [Drains -> control point, rows left, row being delivered]    *)

outbox == <<row, attempts, due, sends, doubtful, drain>>

Resting == [at |-> "idle", left |-> {}, note |-> NoNote]

OutboxTypeOK ==
  /\ row \in [Notes -> {"none", "pending", "sent", "failed"}]
  /\ attempts \in [Notes -> 0..GiveUpAfter]
  /\ due \in SUBSET Notes
  /\ sends \in [Notes -> 0..2]
  /\ doubtful \in SUBSET Notes
  /\ drain \in [Drains -> [at : {"idle", "deliver", "sent", "failed"},
                           left : SUBSET Notes, note : Notes \cup {NoNote}]]

OutboxInit ==
  /\ row = [n \in Notes |-> "none"]
  /\ attempts = [n \in Notes |-> 0]
  /\ due = {}
  /\ sends = [n \in Notes |-> 0]
  /\ doubtful = {}
  /\ drain = [d \in Drains |-> Resting]

-----------------------------------------------------------------------------
(* NotificationOutboxRepository.enqueue: the key is unique *)
Enqueue(n) ==
  /\ row' = IF row[n] = "none" THEN [row EXCEPT ![n] = "pending"] ELSE row
  /\ due' = IF row[n] = "none" THEN due \cup {n} ELSE due
  /\ UNCHANGED <<attempts, sends, doubtful, drain>>

(* its next_attempt_at passes *)
BecomesDue(n) ==
  /\ row[n] = "pending" /\ n \notin due
  /\ due' = due \cup {n}
  /\ UNCHANGED <<row, attempts, sends, doubtful, drain>>

Held(d) == drain[d].left \cup {drain[d].note}
Count(n) == IF attempts[n] < GiveUpAfter THEN attempts[n] + 1 ELSE attempts[n]
ClaimableAgain == {n \in Notes : row[n] = "sent" \/ (row[n] = "pending" /\ n \in due)}
Claimable == {n \in Notes : row[n] = "pending" /\ n \in due}

(* claim_pending: the lock ends with the transaction and next_attempt_at    *)
(* does not move, so that a drain that overlaps claims the same rows        *)
ClaimPending(d) ==
  LET taken == Claimable
  IN /\ drain[d] = Resting
     /\ taken # {}
     /\ attempts' = [n \in Notes |-> IF n \in taken THEN Count(n) ELSE attempts[n]]
     /\ doubtful' = doubtful \cup (taken \cap UNION {Held(e) : e \in Drains})
     /\ drain' = [drain EXCEPT ![d] = [at |-> "deliver", left |-> taken, note |-> NoNote]]
     /\ UNCHANGED <<row, due, sends>>

SentNow(n) == [sends EXCEPT ![n] = IF @ < 2 THEN @ + 1 ELSE @]
Record(d, n, result) ==
  drain' = [drain EXCEPT ![d] = [at |-> result, left |-> @.left \ {n}, note |-> n]]
(* the next row of the batch, or the end of the drain *)
Continue(d) ==
  drain' = [drain EXCEPT ![d] = IF @.left = {} THEN Resting
                                ELSE [at |-> "deliver", left |-> @.left, note |-> NoNote]]

(* NotificationNotifier.drain takes the next row, the order of ids is left   *)
(* open, and _deliver sends it: a row of the web process is of kind "send"   *)
Deliver(d) ==
  /\ drain[d].at = "deliver"
  /\ \E n \in drain[d].left :
       \/ sends' = SentNow(n) /\ Record(d, n, "sent") /\ UNCHANGED doubtful
       \/ UNCHANGED <<sends, doubtful>> /\ Record(d, n, "failed")  \* RetryAfter, refused
       \/ /\ sends' = SentNow(n)                                  \* TimedOut, but delivered
          /\ doubtful' = doubtful \cup {n}
          /\ Record(d, n, "failed")
  /\ UNCHANGED <<row, attempts, due>>

MarkSent(d) ==
  /\ drain[d].at = "sent"
  /\ row' = [row EXCEPT ![drain[d].note] = "sent"]
  /\ due' = due \ {drain[d].note}
  /\ Continue(d)
  /\ UNCHANGED <<attempts, sends, doubtful>>

(* mark_sent raises: the message is out, the row is retried *)
MarkSentFails(d) ==
  /\ drain[d].at = "sent"
  /\ drain' = [drain EXCEPT ![d].at = "failed"]
  /\ doubtful' = doubtful \cup {drain[d].note}
  /\ UNCHANGED <<row, attempts, due, sends>>

AfterFailureAlways(n) == "pending"
(* mark_failed decides by the attempts it has read; the statuses it writes  *)
(* overwrite a "sent" of another drain                                      *)
AfterFailure(n) == IF attempts[n] >= GiveUpAfter THEN "failed" ELSE "pending"

MarkFailed(d) ==
  LET n == drain[d].note
  IN /\ drain[d].at = "failed"
     /\ row' = [row EXCEPT ![n] = AfterFailure(n)]
     /\ due' = due \ {n}
     /\ Continue(d)
     /\ UNCHANGED <<attempts, sends, doubtful>>

(* the worker process dies: the rows stay pending *)
DrainsDie ==
  /\ doubtful' = doubtful \cup {drain[d].note : d \in {e \in Drains : drain[e].at = "sent"}}
  /\ drain' = [d \in Drains |-> Resting]
  /\ UNCHANGED <<row, attempts, due, sends>>

(* A message is sent again only if two drains held its row at once or if    *)
(* the result of its delivery was not recorded: an orderly drain is         *)
(* idempotent (notification_notifier.py:1).                                 *)
DuplicatesAreExplained == \A n \in Notes : sends[n] > 1 => n \in doubtful

(* Every notification is sent or given up, whatever drains do to each       *)
(* other's rows (orchestration.py:163-202).                                 *)
EveryNoteSettles == \A n \in Notes : row[n] = "pending" ~> row[n] \in {"sent", "failed"}
=============================================================================
