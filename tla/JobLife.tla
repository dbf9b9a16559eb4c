------------------------------- MODULE JobLife -------------------------------
(***************************************************************************)
(* What a prompt's job promises, whichever process advances it: it waits,   *)
(* works on at most one Cursor run of its own, is closed once, records its  *)
(* result once, and ends for good.  Messages, locks, flags, observers, the  *)
(* reconciler and restarts are how DurableJobs keeps the promise.           *)
(***************************************************************************)
EXTENDS Naturals

CONSTANTS Jobs, Runs, NoRun

VARIABLES
  phase,     (* [Jobs -> "new", "waiting", "working", "review", an end]       *)
  bound,     (* [Jobs -> the run the job works on or worked on]               *)
  closed,    (* [Jobs -> nobody may finish the job's run again]               *)
  recorded,  (* [Jobs -> times its result, memory and artifacts were stored]  *)
  finished   (* runs that finished successfully                               *)

lifeVars == <<phase, bound, closed, recorded, finished>>

Ends == {"succeeded", "failed", "cancelled"}

LifeInit ==
  /\ phase = [j \in Jobs |-> "new"]
  /\ bound = [j \in Jobs |-> NoRun]
  /\ closed = [j \in Jobs |-> FALSE]
  /\ recorded = [j \in Jobs |-> 0]
  /\ finished = {}

Enters(j, p) == phase' = [phase EXCEPT ![j] = p]

Submit(j) ==
  /\ phase[j] = "new"
  /\ Enters(j, "waiting")
  /\ UNCHANGED <<bound, closed, recorded, finished>>

Begin(j) ==
  /\ phase[j] = "waiting"
  /\ Enters(j, "working")
  /\ UNCHANGED <<bound, closed, recorded, finished>>

(* a job goes back only while it has no run and is open *)
PutBack(j) ==
  /\ phase[j] = "working" /\ bound[j] = NoRun /\ ~closed[j]
  /\ Enters(j, "waiting")
  /\ UNCHANGED <<bound, closed, recorded, finished>>

(* also under a cancel that came during the launch *)
Bind(j, r) ==
  /\ phase[j] \notin {"new", "waiting"}
  /\ bound[j] = NoRun /\ \A k \in Jobs : bound[k] # r
  /\ bound' = [bound EXCEPT ![j] = r]
  /\ UNCHANGED <<phase, closed, recorded, finished>>

RunFinishes(r) ==
  /\ finished' = finished \cup {r}
  /\ UNCHANGED <<phase, bound, closed, recorded>>

Close(j) ==
  /\ phase[j] \notin {"new", "waiting"} /\ ~closed[j]
  /\ closed' = [closed EXCEPT ![j] = TRUE]
  /\ UNCHANGED <<phase, bound, recorded, finished>>

Record(j) ==
  /\ closed[j] /\ recorded[j] = 0
  /\ recorded' = [recorded EXCEPT ![j] = 1]
  /\ UNCHANGED <<phase, bound, closed, finished>>

(* success, or a plan to review, is earned by the job's own run *)
Succeed(j) ==
  /\ phase[j] = "working" /\ closed[j]
  /\ bound[j] \in finished
  /\ \E p \in {"succeeded", "review"} : Enters(j, p)
  /\ UNCHANGED <<bound, closed, recorded, finished>>

GiveUp(j) ==
  /\ phase[j] \in {"waiting", "working"}
  /\ \E p \in {"failed", "cancelled"} : Enters(j, p)
  /\ UNCHANGED <<bound, closed, recorded, finished>>

LifeNext ==
  \/ \E j \in Jobs :
       \/ Submit(j) \/ Begin(j) \/ PutBack(j)
       \/ Close(j) \/ Record(j) \/ Succeed(j) \/ GiveUp(j)
       \/ \E r \in Runs : Bind(j, r)
  \/ \E r \in Runs : RunFinishes(r)

LifeSpec == LifeInit /\ [][LifeNext]_lifeVars
=============================================================================
