--------------------------- MODULE DashboardCache ----------------------------
(***************************************************************************)
(* GET /api/dashboard and its Redis cache.  A change made through the web    *)
(* application commits its rows and then bumps the generation; a dashboard   *)
(* is cached for a few seconds under the generation its build began with.    *)
(* Changes that bump nothing (repositories, archived slots, the worker's) are *)
(* seen when the entry expires and are left out.                             *)
(* A change is a member of a set, a snapshot the changes it shows.           *)
(***************************************************************************)
EXTENDS Naturals, FiniteSets

CONSTANTS
  JobChanges,   (* web requests that change jobs or approvals                 *)
  OtherChanges, (* web requests that change agent slots or settings           *)
  Readers       (* dashboard requests that may run at the same time           *)

Changes == JobChanges \cup OtherChanges
Missing == {"missing"}   (* no snapshot *)

ASSUME DashboardAssumption ==
  IsFiniteSet(Changes) /\ JobChanges \cap OtherChanges = {} /\ "missing" \notin Changes

VARIABLES
  committed,  (* changes in PostgreSQL                                        *)
  answered,   (* changes whose handler has bumped the generation              *)
  generation, (* beachops:cache:dash_gen                                      *)
  cached,     (* [generation -> snapshot or Missing]                          *)
  reader      (* [Readers -> control point, pinned generation, snapshot, and  *)
              (*  the changes that had been answered when the request came]   *)

dashboardVars == <<committed, answered, generation, cached, reader>>

Generations == 0..Cardinality(Changes)

DashboardTypeOK ==
  /\ committed \in SUBSET Changes /\ answered \in SUBSET committed
  /\ generation \in Generations
  /\ cached \in [Generations -> (SUBSET Changes) \cup {Missing}]
  /\ reader \in [Readers -> [at : {"idle", "lookup", "jobs", "others", "store", "done"},
                             gen : Generations, shows : SUBSET Changes,
                             owed : SUBSET Changes]]

DashboardInit ==
  /\ committed = {} /\ answered = {}
  /\ generation = 0
  /\ cached = [g \in Generations |-> Missing]
  /\ reader = [r \in Readers |-> [at |-> "idle", gen |-> 0, shows |-> {}, owed |-> {}]]

(* the handler commits its rows: create_agent, delete_agent, update_agent,   *)
(* submit_prompt, decide_approval, set_self_improve                          *)
Commit(c) ==
  /\ c \notin committed
  /\ committed' = committed \cup {c}
  /\ UNCHANGED <<answered, generation, cached, reader>>

(* bump_dashboard_generation, then the answer *)
Bump(c) ==
  /\ c \in committed \ answered
  /\ generation' = generation + 1
  /\ answered' = answered \cup {c}
  /\ UNCHANGED <<committed, cached, reader>>

(* the request pins the generation for its whole build *)
Pin(r) ==
  /\ reader[r].at = "idle"
  /\ reader' = [reader EXCEPT ![r] = [at |-> "lookup", gen |-> generation, shows |-> {},
                                      owed |-> answered]]
  /\ UNCHANGED <<committed, answered, generation, cached>>

(* the handler's locals: what it has read so far *)
Reads(r, at, shows) ==
  reader' = [reader EXCEPT ![r] = [at |-> at, gen |-> @.gen, shows |-> shows,
                                    owed |-> @.owed]]

(* get_dashboard *)
Lookup(r) ==
  LET found == cached[reader[r].gen]
  IN /\ reader[r].at = "lookup"
     /\ IF found = Missing THEN Reads(r, "jobs", {}) ELSE Reads(r, "done", found)
     /\ UNCHANGED <<committed, answered, generation, cached>>

(* jobs, approvals and events are read first, then repositories, slots and   *)
(* settings; the queries share no transaction                                *)
ReadJobs(r) ==
  /\ reader[r].at = "jobs"
  /\ Reads(r, "others", committed \cap JobChanges)
  /\ UNCHANGED <<committed, answered, generation, cached>>

ReadOthers(r) ==
  /\ reader[r].at = "others"
  /\ Reads(r, "store", reader[r].shows \cup (committed \cap OtherChanges))
  /\ UNCHANGED <<committed, answered, generation, cached>>

StoredUnderCurrent(r) == generation
(* set_dashboard(generation=cache_generation) *)
StoredUnder(r) == reader[r].gen

Store(r) ==
  /\ reader[r].at = "store"
  /\ cached' = [cached EXCEPT ![StoredUnder(r)] = reader[r].shows]
  /\ Reads(r, "done", reader[r].shows)
  /\ UNCHANGED <<committed, answered, generation>>

(* the client has its snapshot and may ask again *)
Close(r) ==
  /\ reader[r].at = "done"
  /\ reader' = [reader EXCEPT ![r] = [at |-> "idle", gen |-> 0, shows |-> {}, owed |-> {}]]
  /\ UNCHANGED <<committed, answered, generation, cached>>

(* DASHBOARD_TTL_SEC *)
Expire(g) ==
  /\ cached[g] # Missing
  /\ cached' = [cached EXCEPT ![g] = Missing]
  /\ UNCHANGED <<committed, answered, generation, reader>>

DashboardNext ==
  \/ \E c \in Changes : Commit(c) \/ Bump(c)
  \/ \E r \in Readers :
       \/ Pin(r)
       \/ Lookup(r)
       \/ ReadJobs(r)
       \/ ReadOthers(r)
       \/ Store(r)
       \/ Close(r)
  \/ \E g \in Generations : Expire(g)

(* A dashboard that is asked for after a change was answered shows the       *)
(* change, however slow builds and bumps interleave: a build that began      *)
(* before a bump never fills the new key (hot_cache.py:72-79).               *)
DashboardShowsAnswered ==
  \A r \in Readers : reader[r].at = "done" => reader[r].owed \subseteq reader[r].shows
=============================================================================
