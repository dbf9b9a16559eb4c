----------------------------- MODULE AgentSlots -----------------------------
(***************************************************************************)
(* The named agent slots and repositories of one user: which slot and which *)
(* repository are active, the Cursor agent a slot is linked to, and the      *)
(* runs launched from them.  Handlers of the bot and of the web application, *)
(* the worker's launches and the cloud sync all read and write these rows.   *)
(*                                                                           *)
(* A handler is the sequence of the statements it still has to execute, each *)
(* with its argument; a statement that branches replaces the rest.  A        *)
(* transaction is two of them, as under READ COMMITTED: its UPDATE takes the *)
(* committed rows, its commit shows the result.  Labels, tokens, runtime     *)
(* columns, cloud_status and active_run_id are left out: nothing here reads  *)
(* them, or DurableJobs models them.                                         *)
(***************************************************************************)
EXTENDS Naturals, Sequences, FiniteSets

CONSTANTS
  Handlers,      (* bot and web handlers that may run at the same time        *)
  Repos,         (* repositories the user may add                             *)
  Agents,        (* Cursor agents that may be created                         *)
  Jobs,          (* prompts that may be dispatched                            *)
  MaxSlots,      (* AGENT_SLOTS_MAX                                           *)
  MaxId,         (* how many slots are created in a behaviour                 *)
  MaxOps,        (* how many operations are begun                             *)
  MaxCrashes     (* how many of them a crash cuts off                         *)

Nothing == "nothing"
Worker == "worker"
Cron == "cron"
Procs == Handlers \cup {Worker, Cron}
SlotIds == 1..MaxId

ASSUME AgentSlotsAssumption ==
  /\ Nothing \notin Repos \cup Agents /\ IsFiniteSet(Repos)
  /\ Handlers \cap {Worker, Cron, Nothing} = {}
  /\ MaxSlots \in Nat \ {0} /\ MaxId \in Nat \ {0}
  /\ MaxOps \in Nat /\ MaxCrashes \in Nat

VARIABLES
  slots,        (* ids of the rows of user_agent_slots                        *)
  created,      (* ids given out so far                                       *)
  active,       (* slots whose is_active is set                               *)
  slotRepo,     (* [SlotIds -> repo_id]                                       *)
  slotAgent,    (* [SlotIds -> cursor_agent_id]                               *)
  repos,        (* rows of user_repos                                         *)
  activeRepos,  (* repositories whose is_active is set                        *)
  remote,       (* [Agents -> what Cursor knows of the agent]                 *)
  agentRepo,    (* [Agents -> repository it was created for]                  *)
  jobRepo,      (* [Jobs -> repository_url of the job row]                    *)
  ranIn,        (* [Jobs -> repository of the job's run]                      *)
  prog,         (* [Procs -> statements still to execute]                     *)
  copy,         (* [Procs -> the AgentSlot object in memory]                  *)
  theRepo,      (* [Procs -> the RepoConfig object in memory]                 *)
  snap,         (* [Procs -> slots its UPDATE found]                          *)
  alone,        (* the process nobody has interleaved with since it began     *)
  overlapped,   (* two of them once switched at the same time, or one died    *)
  ops, crashes

slotRows == <<slots, created, active, slotRepo, slotAgent>>
repoRows == <<repos, activeRepos>>
cursor == <<remote, agentRepo>>
jobs == <<jobRepo, ranIn>>
memory == <<copy, theRepo, snap>>
bounds == <<ops, crashes>>
vars == <<slots, created, active, slotRepo, slotAgent, repos, activeRepos, remote, agentRepo,
          jobRepo, ranIn, prog, copy, theRepo, snap, alone, overlapped, ops, crashes>>

SlotCopies == [id : SlotIds \cup {0}, repo : Repos \cup {Nothing},
               agent : Agents \cup {Nothing}]
NoCopy == [id |-> 0, repo |-> Nothing, agent |-> Nothing]
CopyOf(s) == [id |-> s, repo |-> slotRepo[s], agent |-> slotAgent[s]]

(* A user without any row, or one that has added its repositories and sent a *)
(* first prompt *)
Init ==
  /\ \/ /\ slots = {} /\ created = 0 /\ active = {}
        /\ repos = {} /\ activeRepos = {}
        /\ slotRepo = [s \in SlotIds |-> Nothing]
     \/ /\ slots = {1} /\ created = 1 /\ active = {1}
        /\ repos = Repos
        /\ \E r \in Repos : /\ activeRepos = {r}
                           /\ slotRepo = [s \in SlotIds |-> IF s = 1 THEN r ELSE Nothing]
  /\ slotAgent = [s \in SlotIds |-> Nothing]
  /\ remote = [a \in Agents |-> "absent"]
  /\ agentRepo = [a \in Agents |-> Nothing]
  /\ jobRepo = [j \in Jobs |-> Nothing]
  /\ ranIn = [j \in Jobs |-> Nothing]
  /\ prog = [c \in Procs |-> <<>>]
  /\ copy = [c \in Procs |-> NoCopy]
  /\ theRepo = [c \in Procs |-> Nothing]
  /\ snap = [c \in Procs |-> {}]
  /\ alone = Nothing /\ overlapped = FALSE
  /\ ops = 0 /\ crashes = 0

-----------------------------------------------------------------------------
Do(statement) == <<statement, Nothing>>
SetActiveSlot(s) == <<<<"activate_begin", s>>, <<"activate", s>>>>
SetActiveRepo(r) == <<Do("repos_off"), <<"repo_on", r>>>>
CreateSlot == <<Do("insert_begin"), Do("insert")>>
RunContext == <<Do("ensure"), Do("load")>>
SyncSlotRepo == <<Do("ensure"), Do("rebind")>>

Lowest(S) == CHOOSE s \in S : \A t \in S : s <= t

Idle(c) == prog[c] = <<>>
At(c, statement) == prog[c] # <<>> /\ Head(prog[c])[1] = statement
Arg(c) == Head(prog[c])[2]

(* A handler may switch slots or repositories as long as it runs; a launch   *)
(* does so once it has found no active slot, or a slot without repository    *)
Reading == {"ensure", "load", "launch", "link", "read", "probe", "unlink"}
Switching(c) ==
  IF c \in Handlers THEN ~Idle(c) ELSE \E i \in DOMAIN prog[c] : prog[c][i][1] \notin Reading
Overlap == \E c, d \in Procs : c # d /\ Switching(c) /\ Switching(d)

(* whatever a statement of c does, others have been interleaved with *)
Stepped(c) ==
  /\ alone' = IF alone = c THEN c ELSE Nothing
  /\ overlapped' = (overlapped \/ Overlap')
Then(c, more) == prog' = [prog EXCEPT ![c] = more \o Tail(@)] /\ Stepped(c)
Next1(c) == Then(c, <<>>)
Return(c) ==
  /\ prog' = [prog EXCEPT ![c] = <<>>]
  /\ Stepped(c)
Take(c, s) == copy' = [copy EXCEPT ![c] = CopyOf(s)]
Hold(c, r) == theRepo' = [theRepo EXCEPT ![c] = r]

(* A request or an update begins; its locals start empty, but for the        *)
(* repository it names                                                       *)
BeginWith(c, program, repo) ==
  /\ Idle(c)
  /\ ops < MaxOps
  /\ ops' = ops + 1
  /\ prog' = [prog EXCEPT ![c] = program]
  /\ alone' = IF \A d \in Procs : Idle(d) THEN c ELSE Nothing
  /\ overlapped' = (overlapped \/ Overlap')
  /\ copy' = [copy EXCEPT ![c] = NoCopy]
  /\ Hold(c, repo)
  /\ UNCHANGED <<slotRows, repoRows, cursor, jobs, snap, crashes>>
Begin(c, program) == BeginWith(c, program, Nothing)

-----------------------------------------------------------------------------
(* Operations of the user *)

(* activate_slot; a button may name a slot deleted since *)
SelectAgent(h, s) ==
  /\ s <= created
  /\ Begin(h, SetActiveSlot(s))

NewAgent(h) == Begin(h, <<Do("count"), Do("resolve")>> \o CreateSlot)

(* the web application activates the new slot once more *)
CreateAgentWeb(h) ==
  /\ Begin(h, <<Do("count"), Do("resolve")>> \o CreateSlot \o <<Do("reactivate")>>)

DeleteAgent(h, s) ==
  /\ s <= created
  /\ Begin(h, <<<<"read", s>>, Do("archive"), Do("delete_check"), Do("delete_begin"),
                Do("delete")>>)

ArchiveAgent(h, s) ==
  /\ s <= created
  /\ Begin(h, <<<<"read", s>>, Do("archive")>>)

(* /repo alias and the repository buttons go on with what set_active read    *)
(* back, the web application with the row it updated                         *)
SelectRepo(h, r) ==
  /\ r \in repos
  /\ Begin(h, SetActiveRepo(r) \o <<Do("reread"), Do("require")>> \o SyncSlotRepo)

UpdateRepoWeb(h, r) ==
  /\ r \in repos
  /\ BeginWith(h, SetActiveRepo(r) \o SyncSlotRepo, r)

InsertRepo(r, make) ==
  IF make THEN <<Do("repos_off"), <<"upsert_active", r>>>> ELSE <<<<"upsert", r>>>>

(* /repo add *)
AddRepo(h, r) == Begin(h, InsertRepo(r, repos = {}))

(* the web application may ask for the repository to be active *)
CreateRepoWeb(h, r) ==
  \E makeActive \in BOOLEAN :
    LET make == makeActive \/ repos = {}
    IN BeginWith(h, InsertRepo(r, make) \o (IF make THEN SyncSlotRepo ELSE <<>>), r)

Prompt(h, j) ==
  /\ jobRepo[j] = Nothing
  /\ Begin(h, RunContext \o <<<<"dispatch", j>>>>)

(* a prompt from the web application selects the slot it names *)
PromptWeb(h, j, s) ==
  /\ jobRepo[j] = Nothing /\ s <= created
  /\ Begin(h, SetActiveSlot(s) \o RunContext \o <<<<"dispatch", j>>>>)

(* execute_job.  The payload's slot and repository are not used. *)
Launch(j) ==
  /\ jobRepo[j] # Nothing /\ ranIn[j] = Nothing
  /\ Begin(Worker, RunContext \o <<<<"launch", j>>, Do("link")>>)

(* sync_linked_slots, for a slot of its listing *)
SyncSlot(s) ==
  /\ s \in slots /\ slotAgent[s] # Nothing
  /\ Begin(Cron, <<<<"read", s>>, Do("probe")>>)

-----------------------------------------------------------------------------
(* Statements on slots *)

Ensure(c) ==
  /\ At(c, "ensure")
  /\ \/ \E s \in active : Take(c, s) /\ Next1(c)
     \/ /\ active = {} /\ slots # {}
        /\ Then(c, SetActiveSlot(Lowest(slots)))
        /\ UNCHANGED copy
     \/ /\ slots = {}
        /\ Then(c, <<Do("resolve")>> \o CreateSlot)
        /\ UNCHANGED copy
  /\ UNCHANGED <<slotRows, repoRows, cursor, jobs, theRepo, snap, bounds>>

ActivateBegin(c) ==
  /\ At(c, "activate_begin")
  /\ IF Arg(c) \in slots
       THEN snap' = [snap EXCEPT ![c] = slots] /\ Next1(c)
       ELSE Return(c) /\ UNCHANGED snap
  /\ UNCHANGED <<slotRows, repoRows, cursor, jobs, copy, theRepo, bounds>>

DeactivatedNone(c) == active
Deactivated(c) == active \ snap[c]

(* the slot's repository becomes the active one, too *)
Activate(c) ==
  /\ At(c, "activate")
  /\ LET s == Arg(c)
     IN /\ active' = Deactivated(c) \cup ({s} \cap slots)
        /\ IF s \notin slots THEN Return(c)
           ELSE IF slotRepo[s] = Nothing THEN Next1(c)
           ELSE Then(c, SetActiveRepo(slotRepo[s]))
        /\ Take(c, s)
  /\ UNCHANGED <<slots, created, slotRepo, slotAgent, repoRows, cursor, jobs, theRepo, snap,
                 bounds>>

Reactivate(c) ==
  /\ At(c, "reactivate")
  /\ Then(c, SetActiveSlot(copy[c].id))
  /\ UNCHANGED <<slotRows, repoRows, cursor, jobs, memory, bounds>>

CountUnchecked(c) ==
  /\ At(c, "count")
  /\ Next1(c)
  /\ UNCHANGED <<slotRows, repoRows, cursor, jobs, memory, bounds>>

Count(c) ==
  /\ At(c, "count")
  /\ IF Cardinality(slots) >= MaxSlots THEN Return(c) ELSE Next1(c)
  /\ UNCHANGED <<slotRows, repoRows, cursor, jobs, memory, bounds>>

InsertBegin(c) ==
  /\ At(c, "insert_begin")
  /\ snap' = [snap EXCEPT ![c] = slots]
  /\ Next1(c)
  /\ UNCHANGED <<slotRows, repoRows, cursor, jobs, copy, theRepo, bounds>>

Insert(c) ==
  /\ At(c, "insert")
  /\ created < MaxId
  /\ LET s == created + 1
     IN /\ created' = s
        /\ slots' = slots \cup {s}
        /\ active' = Deactivated(c) \cup {s}
        /\ slotRepo' = [slotRepo EXCEPT ![s] = theRepo[c]]
        /\ copy' = [copy EXCEPT ![c] = [id |-> s, repo |-> theRepo[c], agent |-> Nothing]]
  /\ Next1(c)
  /\ UNCHANGED <<slotAgent, repoRows, cursor, jobs, theRepo, snap, bounds>>

Read(c) ==
  /\ At(c, "read")
  /\ IF Arg(c) \in slots THEN Take(c, Arg(c)) /\ Next1(c) ELSE Return(c) /\ UNCHANGED copy
  /\ UNCHANGED <<slotRows, repoRows, cursor, jobs, theRepo, snap, bounds>>

(* a failure to archive is only logged *)
Archive(c) ==
  /\ At(c, "archive")
  /\ \/ /\ copy[c].agent # Nothing
        /\ remote' = [remote EXCEPT ![copy[c].agent] = IF @ = "live" THEN "archived" ELSE @]
     \/ UNCHANGED remote
  /\ Next1(c)
  /\ UNCHANGED <<slotRows, repoRows, agentRepo, jobs, memory, bounds>>

DeleteCheck(c) ==
  /\ At(c, "delete_check")
  /\ IF copy[c].id \in slots /\ Cardinality(slots) > 1 THEN Next1(c) ELSE Return(c)
  /\ UNCHANGED <<slotRows, repoRows, cursor, jobs, memory, bounds>>

(* the transaction counts again; it remembers whether the slot was active *)
DeleteBegin(c) ==
  /\ At(c, "delete_begin")
  /\ IF copy[c].id \in slots /\ Cardinality(slots) > 1
       THEN /\ snap' = [snap EXCEPT ![c] = IF copy[c].id \in active THEN slots ELSE {}]
            /\ Next1(c)
       ELSE Return(c) /\ UNCHANGED snap
  /\ UNCHANGED <<slotRows, repoRows, cursor, jobs, copy, theRepo, bounds>>

DeleteLeavesNone(c) ==
  /\ At(c, "delete")
  /\ LET s == copy[c].id
     IN /\ slots' = slots \ {s}
        /\ active' = (active \ {s}) \ snap[c]
        /\ slotRepo' = [slotRepo EXCEPT ![s] = Nothing]
        /\ slotAgent' = [slotAgent EXCEPT ![s] = Nothing]
  /\ Next1(c)
  /\ UNCHANGED <<created, repoRows, cursor, jobs, memory, bounds>>

Delete(c) ==
  /\ At(c, "delete")
  /\ LET s == copy[c].id
         left == slots \ {s}
         follow == IF snap[c] # {} /\ left # {} THEN {Lowest(left)} ELSE {}
     IN /\ slots' = left
        /\ active' = ((active \ {s}) \ snap[c]) \cup follow
        /\ slotRepo' = [slotRepo EXCEPT ![s] = Nothing]
        /\ slotAgent' = [slotAgent EXCEPT ![s] = Nothing]
        /\ IF active' = {} THEN Return(c)
           ELSE \E a \in active' : Then(c, IF slotRepo[a] = Nothing THEN <<>>
                                           ELSE SetActiveRepo(slotRepo[a]))
  /\ UNCHANGED <<created, repoRows, cursor, jobs, memory, bounds>>

-----------------------------------------------------------------------------
(* Statements on repositories *)

ReposOffForgotten(c) ==
  /\ At(c, "repos_off")
  /\ Next1(c)
  /\ UNCHANGED <<slotRows, repoRows, cursor, jobs, memory, bounds>>

ReposOff(c) ==
  /\ At(c, "repos_off")
  /\ activeRepos' = {}
  /\ Next1(c)
  /\ UNCHANGED <<slotRows, repos, cursor, jobs, memory, bounds>>

RepoOn(c) ==
  /\ At(c, "repo_on")
  /\ activeRepos' = activeRepos \cup {Arg(c)}
  /\ Next1(c)
  /\ UNCHANGED <<slotRows, repos, cursor, jobs, memory, bounds>>

(* ON CONFLICT (alias) overwrites is_active with what was asked for *)
Upsert(c) ==
  /\ \/ /\ At(c, "upsert_active")
        /\ activeRepos' = activeRepos \cup {Arg(c)}
     \/ /\ At(c, "upsert")
        /\ activeRepos' = activeRepos \ {Arg(c)}
  /\ repos' = repos \cup {Arg(c)}
  /\ Next1(c)
  /\ UNCHANGED <<slotRows, cursor, jobs, memory, bounds>>

Reread(c) ==
  /\ At(c, "reread")
  /\ \/ activeRepos = {} /\ Hold(c, Nothing)
     \/ \E r \in activeRepos : Hold(c, r)
  /\ Next1(c)
  /\ UNCHANGED <<slotRows, repoRows, cursor, jobs, copy, snap, bounds>>

Require(c) ==
  /\ At(c, "require")
  /\ IF theRepo[c] = Nothing THEN Return(c) ELSE Next1(c)
  /\ UNCHANGED <<slotRows, repoRows, cursor, jobs, memory, bounds>>

(* resolve_active_repo, without a default repository to seed *)
Resolve(c) ==
  /\ At(c, "resolve")
  /\ \/ /\ \E r \in activeRepos : Hold(c, r)
        /\ Next1(c)
     \/ /\ activeRepos = {} /\ Cardinality(repos) = 1
        /\ \E r \in repos : Then(c, SetActiveRepo(r) \o <<Do("reread")>>)
        /\ UNCHANGED theRepo
     \/ /\ activeRepos = {} /\ Cardinality(repos) # 1
        /\ Hold(c, Nothing)
        /\ Next1(c)
  /\ UNCHANGED <<slotRows, repoRows, cursor, jobs, copy, snap, bounds>>

-----------------------------------------------------------------------------
(* Statements that relate a slot, its repository and its agent *)

RebindKeepsAgent(c) ==
  /\ At(c, "rebind")
  /\ IF copy[c].id \in slots /\ copy[c].repo # theRepo[c]
       THEN slotRepo' = [slotRepo EXCEPT ![copy[c].id] = theRepo[c]]
       ELSE UNCHANGED slotRepo
  /\ Next1(c)
  /\ UNCHANGED <<slots, created, active, slotAgent, repoRows, cursor, jobs, memory, bounds>>

(* rebind_repo drops the agent; not if the slot had the repository already *)
Rebind(c) ==
  /\ At(c, "rebind")
  /\ IF copy[c].id \in slots /\ copy[c].repo # theRepo[c]
       THEN /\ slotRepo' = [slotRepo EXCEPT ![copy[c].id] = theRepo[c]]
            /\ slotAgent' = [slotAgent EXCEPT ![copy[c].id] = Nothing]
       ELSE UNCHANGED <<slotRepo, slotAgent>>
  /\ Next1(c)
  /\ UNCHANGED <<slots, created, active, repoRows, cursor, jobs, memory, bounds>>

Load(c) ==
  /\ At(c, "load")
  /\ IF copy[c].repo # Nothing
       THEN Hold(c, copy[c].repo) /\ Next1(c)
       ELSE Then(c, <<Do("resolve"), Do("require"), Do("bind")>>) /\ UNCHANGED theRepo
  /\ UNCHANGED <<slotRows, repoRows, cursor, jobs, copy, snap, bounds>>

(* update_repo_id, then the slot is read again *)
Bind(c) ==
  /\ At(c, "bind")
  /\ IF copy[c].agent = Nothing /\ copy[c].id \in slots
       THEN /\ slotRepo' = [slotRepo EXCEPT ![copy[c].id] = theRepo[c]]
            /\ copy' = [copy EXCEPT ![c] = [id |-> @.id, repo |-> theRepo[c],
                                            agent |-> slotAgent[copy[c].id]]]
       ELSE UNCHANGED <<slotRepo, copy>>
  /\ Next1(c)
  /\ UNCHANGED <<slots, created, active, slotAgent, repoRows, cursor, jobs, theRepo, snap,
                 bounds>>

Dispatch(c) ==
  /\ At(c, "dispatch")
  /\ jobRepo' = [jobRepo EXCEPT ![Arg(c)] = theRepo[c]]
  /\ Next1(c)
  /\ UNCHANGED <<slotRows, repoRows, cursor, ranIn, memory, bounds>>

State(a) == IF a = Nothing THEN "absent" ELSE remote[a]

(* start_run: on the slot's agent, on a fresh one if it has none or if Cursor *)
(* does not serve it any more                                                *)
StartRun(c) ==
  /\ At(c, "launch")
  /\ LET a == copy[c].agent
         j == Arg(c)
     IN \/ /\ State(a) \in {"live", "archived"}
           /\ ranIn' = [ranIn EXCEPT ![j] = agentRepo[a]]
           /\ UNCHANGED <<cursor, copy>>
        \/ /\ State(a) # "live"
           /\ \E b \in Agents :
                /\ remote[b] = "absent"
                /\ remote' = [remote EXCEPT ![b] = "live"]
                /\ agentRepo' = [agentRepo EXCEPT ![b] = theRepo[c]]
                /\ copy' = [copy EXCEPT ![c].agent = b]
           /\ ranIn' = [ranIn EXCEPT ![j] = theRepo[c]]
  /\ Next1(c)
  /\ UNCHANGED <<slotRows, repoRows, jobRepo, theRepo, snap, bounds>>

Link(c) ==
  /\ At(c, "link")
  /\ slotAgent' = [slotAgent EXCEPT ![copy[c].id] =
                     IF copy[c].id \in slots THEN copy[c].agent ELSE @]
  /\ Next1(c)
  /\ UNCHANGED <<slots, created, active, slotRepo, repoRows, cursor, jobs, memory, bounds>>

ProbeAny(c) ==
  /\ At(c, "probe")
  /\ IF copy[c].agent = Nothing THEN Next1(c) ELSE Then(c, <<Do("unlink")>>)
  /\ UNCHANGED <<slotRows, repoRows, cursor, jobs, memory, bounds>>

(* only a 404 unlinks; a listed agent or another error does not *)
Probe(c) ==
  /\ At(c, "probe")
  /\ IF State(copy[c].agent) = "deleted"
       THEN Then(c, <<Do("unlink")>>) \/ Next1(c)
       ELSE Next1(c)
  /\ UNCHANGED <<slotRows, repoRows, cursor, jobs, memory, bounds>>

(* clear_cursor_agent, by the id of the slot *)
Unlink(c) ==
  /\ At(c, "unlink")
  /\ slotAgent' = [slotAgent EXCEPT ![copy[c].id] = Nothing]
  /\ Next1(c)
  /\ UNCHANGED <<slots, created, active, slotRepo, repoRows, cursor, jobs, memory, bounds>>

-----------------------------------------------------------------------------
(* The user deletes an agent in Cursor's own interface *)
RemoteDelete(a) ==
  /\ remote[a] \in {"live", "archived"}
  /\ remote' = [remote EXCEPT ![a] = "deleted"]
  /\ UNCHANGED <<slotRows, repoRows, agentRepo, jobs, prog, memory, alone, overlapped, bounds>>

Crash(c) ==
  /\ ~Idle(c)
  /\ crashes < MaxCrashes
  /\ crashes' = crashes + 1
  /\ prog' = [prog EXCEPT ![c] = <<>>]
  /\ alone' = Nothing
  /\ overlapped' = TRUE
  /\ UNCHANGED <<slotRows, repoRows, cursor, jobs, memory, ops>>

Statement(c) ==
  \/ Ensure(c) \/ ActivateBegin(c) \/ Activate(c) \/ Reactivate(c) \/ Count(c)
  \/ InsertBegin(c) \/ Insert(c)
  \/ Read(c) \/ Archive(c) \/ DeleteCheck(c) \/ DeleteBegin(c) \/ Delete(c)
  \/ ReposOff(c) \/ RepoOn(c) \/ Upsert(c) \/ Reread(c) \/ Require(c) \/ Resolve(c)
  \/ Rebind(c) \/ Load(c) \/ Bind(c) \/ Dispatch(c) \/ StartRun(c) \/ Link(c)
  \/ Probe(c) \/ Unlink(c)

Next ==
  \/ \E h \in Handlers :
       \/ \E s \in SlotIds : SelectAgent(h, s) \/ DeleteAgent(h, s) \/ ArchiveAgent(h, s)
       \/ NewAgent(h) \/ CreateAgentWeb(h)
       \/ \E r \in Repos : \/ SelectRepo(h, r) \/ UpdateRepoWeb(h, r)
                           \/ AddRepo(h, r) \/ CreateRepoWeb(h, r)
       \/ \E j \in Jobs : Prompt(h, j) \/ \E s \in SlotIds : PromptWeb(h, j, s)
  \/ \E j \in Jobs : Launch(j)
  \/ \E s \in SlotIds : SyncSlot(s)
  \/ \E c \in Procs : Statement(c) \/ Crash(c)
  \/ \E a \in Agents : RemoteDelete(a)

Spec == Init /\ [][Next]_vars

(* The locals of a handler that has returned are gone *)
View ==
  <<slotRows, repoRows, cursor, jobs, prog, alone, overlapped, bounds,
    [c \in Procs |-> IF Idle(c) THEN <<>> ELSE <<copy[c], theRepo[c], snap[c]>>]>>

-----------------------------------------------------------------------------
TypeOK ==
  /\ slots \subseteq SlotIds /\ created \in 0..MaxId /\ active \subseteq slots
  /\ slotRepo \in [SlotIds -> Repos \cup {Nothing}]
  /\ slotAgent \in [SlotIds -> Agents \cup {Nothing}]
  /\ repos \subseteq Repos /\ activeRepos \subseteq repos
  /\ remote \in [Agents -> {"absent", "live", "archived", "deleted"}]
  /\ agentRepo \in [Agents -> Repos \cup {Nothing}]
  /\ jobRepo \in [Jobs -> Repos \cup {Nothing}] /\ ranIn \in [Jobs -> Repos \cup {Nothing}]
  /\ copy \in [Procs -> SlotCopies] /\ theRepo \in [Procs -> Repos \cup {Nothing}]
  /\ snap \in [Procs -> SUBSET SlotIds]

(* As long as no two processes of a user switch slots or repositories at the *)
(* same time, whatever launches and the cron do meanwhile: the limit is      *)
(* kept, one slot is active as soon as there is one, at most one repository  *)
(* is, and between two switches it is the repository of the active slot.     *)
OneSlotOneRepo ==
  /\ TypeOK
  /\ ~overlapped =>
       /\ Cardinality(slots) <= MaxSlots
       /\ slots # {} => Cardinality(active) = 1
       /\ Cardinality(activeRepos) <= 1
       /\ (\A c \in Procs : ~Switching(c)) =>
            \A s \in active : slotRepo[s] = Nothing \/ activeRepos \subseteq {slotRepo[s]}

(* A switch that nobody interleaves with leaves exactly one slot, or         *)
(* repository, active, whatever earlier races and crashes left behind.       *)
SwitchHeals ==
  [][\A c \in Procs : alone = c /\ alone' = c /\ prog'[c] # prog[c] =>
       /\ At(c, "activate") => active' = {Arg(c)}
       /\ At(c, "insert") /\ slots' # slots => active' = {created'}
       /\ At(c, "repo_on") \/ At(c, "upsert_active") => activeRepos' = {Arg(c)}]_vars

(* An agent belongs to the repository of its slot.  What parts them is a     *)
(* launch whose slot was given another repository before it links its agent, *)
(* or whose agent was of another one already, and a process that found the   *)
(* slot without repository and agent and binds it after it was linked.       *)
Matches(s) == slotAgent[s] # Nothing => agentRepo[slotAgent[s]] = slotRepo[s]
MislinksHaveACause ==
  [][\A s \in SlotIds :
       Matches(s) =>
         \/ Matches(s)'
         \/ /\ At(Worker, "link") /\ copy[Worker].id = s
            /\ \/ slotRepo[s] # theRepo[Worker]
               \/ agentRepo[copy[Worker].agent] # theRepo[Worker]
         \/ \E c \in Procs : At(c, "bind") /\ copy[c].id = s /\ slotAgent[s] # copy[c].agent]_vars

(* The sync unlinks a slot only for an agent that Cursor has deleted.        *)
SyncUnlinksDeleted ==
  [][\A c \in Procs : At(c, "unlink") /\ prog'[c] # prog[c] =>
       remote[copy[c].agent] = "deleted"]_vars

(* services/durable_dispatch.py:1: only policy-approved work is enqueued.    *)
(* The policy has approved the repository of the job row; the run uses the   *)
(* repository of whichever slot is active when the worker gets to it.        *)
RunsWhereDispatched ==
  \A j \in Jobs : ranIn[j] # Nothing => ranIn[j] = jobRepo[j]
=============================================================================
