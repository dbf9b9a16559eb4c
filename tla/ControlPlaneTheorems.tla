------------------------ MODULE ControlPlaneTheorems ------------------------
(***************************************************************************)
(* Proofs of the safety properties of the dashboard cache, of deployments,   *)
(* of web access and of the voice session, for any number of changes,        *)
(* readers, requests, keys, rollbacks, users, challenges and recordings.     *)
(* Each part has its inductive invariant; a step of the control plane is a   *)
(* step of one part and a stutter of the others.                             *)
(***************************************************************************)
EXTENDS ControlPlane, FiniteSetTheorems, SequenceTheorems, TLAPS

-----------------------------------------------------------------------------
(* Dashboard cache *)

(* A snapshot stored under a generation shows what had been answered when    *)
(* that generation was current; every reader that pinned the generation is   *)
(* owed exactly this.                                                        *)
DashboardInv ==
  /\ DashboardTypeOK
  /\ generation = Cardinality(answered)
  /\ cached[generation] # Missing => answered \subseteq cached[generation]
  /\ \A g \in Generations : g > generation => cached[g] = Missing
  /\ \A r \in Readers : reader[r].at # "idle" =>
       /\ reader[r].gen <= generation
       /\ reader[r].gen = generation => reader[r].owed = answered
       /\ reader[r].owed \subseteq committed
       /\ cached[reader[r].gen] # Missing => reader[r].owed \subseteq cached[reader[r].gen]
       /\ \A q \in Readers : reader[q].at # "idle" /\ reader[q].gen = reader[r].gen
                               => reader[q].owed = reader[r].owed
       /\ reader[r].at = "others" => reader[r].owed \cap JobChanges \subseteq reader[r].shows
       /\ reader[r].at \in {"store", "done"} => reader[r].owed \subseteq reader[r].shows

LEMMA GenerationsAreNat == Generations = 0..Cardinality(Changes) /\ Cardinality(Changes) \in Nat
BY DashboardAssumption, FS_CardinalityType DEF Generations

USE DashboardAssumption, GenerationsAreNat
USE DEF DashboardInv, DashboardTypeOK

LEMMA DashboardInitially == DashboardInit => DashboardInv
<1>1. Cardinality({}) = 0 BY FS_EmptySet
<1>2. ASSUME DashboardInit PROVE DashboardTypeOK
  BY <1>2, SMTT(30) DEF DashboardInit
<1>3. QED BY <1>1, <1>2, SMTT(30) DEF DashboardInit

LEMMA CommitKeeps ==
  ASSUME DashboardInv, NEW c \in Changes, Commit(c)
  PROVE  DashboardInv'
BY DEF Commit

LEMMA BumpKeeps ==
  ASSUME DashboardInv, NEW c \in Changes, Bump(c)
  PROVE  DashboardInv'
<1>1. IsFiniteSet(answered)
  BY FS_Subset
<1>2. Cardinality(answered \cup {c}) = Cardinality(answered) + 1
  BY <1>1, FS_AddElement DEF Bump
<1>3. Cardinality(answered \cup {c}) <= Cardinality(Changes)
  BY FS_Subset DEF Bump
<1>4. generation' = Cardinality(answered') /\ generation' \in Generations
  BY <1>2, <1>3 DEF Bump
<1>5. QED BY <1>4, SMTT(30) DEF Bump

LEMMA ReaderKeeps ==
  ASSUME DashboardInv, NEW r \in Readers,
         Pin(r) \/ Lookup(r) \/ ReadJobs(r) \/ ReadOthers(r) \/ Store(r) \/ Close(r)
  PROVE  DashboardInv'
<1>1. CASE Pin(r) BY <1>1, SMTT(30) DEF Pin
<1>2. CASE Lookup(r)
  <2>1. CASE cached[reader[r].gen] = Missing
    BY <1>2, <2>1, SMTT(30) DEF Lookup, Reads
  <2>2. CASE cached[reader[r].gen] # Missing
    <3> DEFINE found == cached[reader[r].gen]
    <3>1. found \in SUBSET Changes /\ reader[r].owed \subseteq found
      BY <1>2, <2>2 DEF Lookup
    <3>2. /\ reader[r].at = "lookup" /\ Reads(r, "done", found)
          /\ UNCHANGED <<committed, answered, generation, cached>>
      BY <1>2, <2>2 DEF Lookup
    <3> HIDE DEF found
    <3>3. QED BY <3>1, <3>2, SMTT(30) DEF Reads
  <2>3. QED BY <2>1, <2>2
<1>3. CASE ReadJobs(r) BY <1>3, SMTT(30) DEF ReadJobs, Reads
<1>4. CASE ReadOthers(r)
  <2> DEFINE read == reader[r].shows \cup (committed \cap OtherChanges)
  <2>1. read \in SUBSET Changes /\ reader[r].owed \subseteq read
    BY <1>4, SMTT(30) DEF ReadOthers, Changes
  <2> HIDE DEF read
  <2>2. /\ reader[r].at = "others" /\ Reads(r, "store", read)
        /\ UNCHANGED <<committed, answered, generation, cached>>
    BY <1>4 DEF ReadOthers, read
  <2>3. QED BY <2>1, <2>2, SMTT(30) DEF Reads
<1>5. CASE Store(r) BY <1>5, SMTT(30) DEF Store, StoredUnder, Reads
<1>6. CASE Close(r) BY <1>6, SMTT(30) DEF Close
<1>7. QED BY <1>1, <1>2, <1>3, <1>4, <1>5, <1>6

LEMMA ExpireKeeps ==
  ASSUME DashboardInv, NEW g \in Generations, Expire(g)
  PROVE  DashboardInv'
<1>1. DashboardTypeOK' BY SMTT(30) DEF Expire
<1>2. QED BY <1>1, SMTT(30) DEF Expire

LEMMA DashboardKeeps ==
  ASSUME DashboardInv, DashboardNext \/ UNCHANGED dashboardVars
  PROVE  DashboardInv'
<1>1. CASE DashboardNext
  BY <1>1, CommitKeeps, BumpKeeps, ReaderKeeps, ExpireKeeps DEF DashboardNext
<1>2. CASE UNCHANGED dashboardVars
  BY <1>2 DEF dashboardVars
<1>3. QED BY <1>1, <1>2

HIDE DEF DashboardInv, DashboardTypeOK

-----------------------------------------------------------------------------
(* Deployments *)

(* A key that has not been dispatched has at most one request on its way to  *)
(* GitHub; so has a rollback, whose kept target is the sha its message       *)
(* shows; what is about to be recorded was dispatched.                       *)
KeyPart ==
  /\ claimed \in SUBSET Keys
  /\ web \in [Calls -> [at : {"new", "trigger", "record", "trim", "done"},
                        key : Keys \cup {NoKey}, sha : Shas \cup {NoSha}]]
  /\ dispatches \in [Keys \cup Rollbacks -> Nat]
  /\ \A k \in Keys : dispatches[k] <= 1 /\ (k \notin claimed => dispatches[k] = 0)
  /\ \A c \in Calls : web[c].at = "trigger" =>
       /\ web[c].key \in claimed
       /\ dispatches[web[c].key] = 0
       /\ \A d \in Calls : web[d].at = "trigger" /\ web[d].key = web[c].key => d = c

RollbackPart ==
  /\ bot = [at |-> bot.at, roll |-> bot.roll, sha |-> bot.sha]
  /\ bot.at # "idle" => bot.roll \in Rollbacks
  /\ button \in [Rollbacks -> {"none", "live", "spent"}]
  /\ target = [r \in Rollbacks |-> target[r]]
  /\ shown = [r \in Rollbacks |-> shown[r]]
  /\ dispatches \in [Keys \cup Rollbacks -> Nat]
  /\ RollbackIsAsShown
  /\ bot.at \in {"previous", "issue"} => button[bot.roll] = "none"
  /\ bot.at \in {"load", "trigger"} =>
       button[bot.roll] = "spent" /\ dispatches[bot.roll] = 0
  /\ \A r \in Rollbacks :
       /\ dispatches[r] <= 1
       /\ button[r] \in {"none", "live"} => dispatches[r] = 0
       /\ target[r] # NoSha => target[r] = shown[r]

RecordPart ==
  /\ history \in Seq(deployed)
  /\ \A c \in Calls : web[c].at = "record" => web[c].sha \in deployed
  /\ bot.at = "record" => bot.sha \in deployed

DeploymentsInductive == KeyPart /\ RollbackPart /\ RecordPart

USE DeploymentsAssumption
USE DEF KeyPart, RollbackPart, RecordPart, RollbackIsAsShown, Idle
USE DEF confirmation, workflow, WebAt, BotAt, Push, Dispatch

LEMMA DeploymentsInitially == DeploymentsInit => DeploymentsInductive
BY DEF DeploymentsInit, DeploymentsInductive

WebDeployStep ==
  \E c \in Calls : \/ \E k \in Keys, sha \in Shas : DispatchRequest(c, k, sha)
                   \/ WebTrigger(c) \/ WebRecord(c) \/ WebTrim(c)

BotDeployStep ==
  \/ \E r \in Rollbacks : RollbackCommand(r) \/ ButtonExpires(r) \/ TargetExpires(r) \/ Confirm(r)
  \/ Previous \/ Issue \/ Load \/ BotTrigger \/ BotRecord \/ BotTrim

(* requests: the idempotency key admits one of them                          *)
LEMMA WebKeepsKeys ==
  ASSUME KeyPart, WebDeployStep
  PROVE  KeyPart'
<1>1. PICK c \in Calls : \/ \E k \in Keys, sha \in Shas : DispatchRequest(c, k, sha)
                        \/ WebTrigger(c) \/ WebRecord(c) \/ WebTrim(c)
  BY DEF WebDeployStep
<1>2. ASSUME NEW k \in Keys, NEW sha \in Shas, DispatchRequest(c, k, sha)
      PROVE  KeyPart'
  BY <1>2, SMTT(30) DEF DispatchRequest, Free
<1>3. CASE WebTrigger(c)
  BY <1>3, SMTT(30) DEF WebTrigger
<1>4. CASE WebRecord(c) \/ WebTrim(c)
  BY <1>4, SMTT(30) DEF WebRecord, WebTrim
<1>5. QED BY <1>1, <1>2, <1>3, <1>4

LEMMA BotKeepsKeys ==
  ASSUME KeyPart, RollbackPart, BotDeployStep
  PROVE  KeyPart'
<1>1. CASE BotTrigger
  <2>1. \A k \in Keys : dispatches'[k] = dispatches[k]
    BY <1>1 DEF BotTrigger
  <2>2. dispatches' \in [Keys \cup Rollbacks -> Nat] /\ UNCHANGED <<claimed, web>>
    <3>1. bot.roll \in Rollbacks /\ dispatches[bot.roll] = 0 BY <1>1 DEF BotTrigger
    <3>2. \/ dispatches' = [dispatches EXCEPT ![bot.roll] = 1]
          \/ UNCHANGED dispatches
      BY <1>1, <3>1 DEF BotTrigger
    <3>3. QED BY <1>1, <3>1, <3>2 DEF BotTrigger
  <2>3. QED BY <2>1, <2>2
<1>2. CASE ~BotTrigger
  <2>1. UNCHANGED <<claimed, web, dispatches>>
    BY <1>2 DEF BotDeployStep, RollbackCommand, ButtonExpires, TargetExpires, Confirm,
       Previous, Issue, Load, BotRecord, BotTrim
  <2>2. QED BY <2>1
<1>3. QED BY <1>1, <1>2

(* the button is pressed once and the target it loads is the one shown       *)
LEMMA BotKeepsRollbacks ==
  ASSUME RollbackPart, BotDeployStep
  PROVE  RollbackPart'
<1>1. ASSUME NEW r \in Rollbacks, RollbackCommand(r) PROVE RollbackPart'
  BY <1>1, SMTT(30) DEF RollbackCommand
<1>2. ASSUME NEW r \in Rollbacks, ButtonExpires(r) \/ TargetExpires(r) \/ Confirm(r)
      PROVE  RollbackPart'
  <2>1. CASE ButtonExpires(r) BY <2>1, SMTT(30) DEF ButtonExpires
  <2>2. CASE TargetExpires(r)
    <3>1. target' = [q \in Rollbacks |-> IF q = r THEN NoSha ELSE target[q]]
      BY <2>2 DEF TargetExpires
    <3>2. UNCHANGED <<bot, button, shown, dispatches>>
      BY <2>2 DEF TargetExpires
    <3>3. QED BY <3>1, <3>2, SMTT(30)
  <2>3. CASE Confirm(r) BY <2>3, SMTT(30) DEF Confirm
  <2>4. QED BY <1>2, <2>1, <2>2, <2>3
<1>3. CASE Previous BY <1>3, SMTT(30) DEF Previous
<1>4. CASE Issue
  <2>1. bot.roll \in Rollbacks /\ button[bot.roll] = "none" BY <1>4 DEF Issue
  <2>2. target' = [r \in Rollbacks |-> IF r = bot.roll THEN bot.sha ELSE target[r]]
    BY <1>4, <2>1 DEF Issue
  <2>3. shown' = [r \in Rollbacks |-> IF r = bot.roll THEN bot.sha ELSE shown[r]]
    BY <1>4, <2>1 DEF Issue
  <2>4. button' = [r \in Rollbacks |-> IF r = bot.roll THEN "live" ELSE button[r]]
    BY <1>4, <2>1 DEF Issue
  <2>5. bot' = Idle /\ UNCHANGED dispatches
    BY <1>4 DEF Issue
  <2>6. dispatches[bot.roll] = 0
    BY <2>1
  <2>7. QED BY <2>1, <2>2, <2>3, <2>4, <2>5, <2>6, SMTT(30)
<1>5. CASE Load
  <2>1. bot.at = "load" /\ bot.roll \in Rollbacks /\ dispatches[bot.roll] = 0
    BY <1>5 DEF Load
  <2>2. target' = [r \in Rollbacks |-> IF r = bot.roll THEN NoSha ELSE target[r]]
    BY <1>5, <2>1 DEF Load
  <2>3. UNCHANGED <<button, shown, dispatches>>
    BY <1>5 DEF Load
  <2>4. \/ bot' = Idle
        \/ /\ bot' = [at |-> "trigger", roll |-> bot.roll, sha |-> target[bot.roll]]
           /\ target[bot.roll] = shown[bot.roll]
    BY <1>5, <2>1 DEF Load, Loaded
  <2>5. QED BY <2>1, <2>2, <2>3, <2>4, SMTT(30)
<1>6. CASE BotTrigger BY <1>6, SMTT(30) DEF BotTrigger
<1>7. CASE BotRecord \/ BotTrim BY <1>7, SMTT(30) DEF BotRecord, BotTrim
<1>8. QED BY <1>1, <1>2, <1>3, <1>4, <1>5, <1>6, <1>7 DEF BotDeployStep

LEMMA WebKeepsRollbacks ==
  ASSUME KeyPart, RollbackPart, WebDeployStep
  PROVE  RollbackPart'
<1>1. PICK c \in Calls : \/ \E k \in Keys, sha \in Shas : DispatchRequest(c, k, sha)
                        \/ WebTrigger(c) \/ WebRecord(c) \/ WebTrim(c)
  BY DEF WebDeployStep
<1>2. CASE WebTrigger(c)
  <2>1. \A r \in Rollbacks : dispatches'[r] = dispatches[r]
    BY <1>2 DEF WebTrigger
  <2>2. dispatches' \in [Keys \cup Rollbacks -> Nat] /\ UNCHANGED <<bot, button, target, shown>>
    <3>1. web[c].key \in Keys /\ dispatches[web[c].key] = 0 BY <1>2 DEF WebTrigger
    <3>2. \/ dispatches' = [dispatches EXCEPT ![web[c].key] = 1]
          \/ UNCHANGED dispatches
      BY <1>2, <3>1 DEF WebTrigger
    <3>3. QED BY <1>2, <3>1, <3>2 DEF WebTrigger
  <2>3. QED BY <2>1, <2>2
<1>3. CASE ~WebTrigger(c)
  <2>1. UNCHANGED <<bot, button, target, shown, dispatches>>
    BY <1>1, <1>3 DEF DispatchRequest, WebRecord, WebTrim
  <2>2. QED BY <2>1
<1>4. QED BY <1>2, <1>3

(* the history: what is pushed was dispatched before, trimming only shortens *)
LEMMA PushKeeps ==
  ASSUME RecordPart, NEW sha \in deployed, Push(sha)
  PROVE  history' \in Seq(deployed)
BY DEF Push

LEMMA TrimKeeps ==
  ASSUME RecordPart, Trim
  PROVE  history' \in Seq(deployed)
BY DEF Trim

LEMMA MoreDeployed ==
  ASSUME RecordPart, NEW sha
  PROVE  history \in Seq(deployed \cup {sha})
OBVIOUS

LEMMA WebKeepsRecords ==
  ASSUME KeyPart, RecordPart, WebDeployStep
  PROVE  RecordPart'
<1>1. PICK c \in Calls : \/ \E k \in Keys, sha \in Shas : DispatchRequest(c, k, sha)
                        \/ WebTrigger(c) \/ WebRecord(c) \/ WebTrim(c)
  BY DEF WebDeployStep
<1>2. ASSUME NEW k \in Keys, NEW sha \in Shas, DispatchRequest(c, k, sha)
      PROVE  RecordPart'
  BY <1>2, SMTT(30) DEF DispatchRequest
<1>3. CASE WebTrigger(c)
  BY <1>3, MoreDeployed, SMTT(30) DEF WebTrigger
<1>4. CASE WebRecord(c)
  <2>1. history' \in Seq(deployed) BY <1>4, PushKeeps DEF WebRecord
  <2>2. QED BY <1>4, <2>1 DEF WebRecord
<1>5. CASE WebTrim(c)
  <2>1. history' \in Seq(deployed) BY <1>5, TrimKeeps DEF WebTrim
  <2>2. QED BY <1>5, <2>1 DEF WebTrim
<1>6. QED BY <1>1, <1>2, <1>3, <1>4, <1>5

LEMMA BotKeepsRecords ==
  ASSUME RollbackPart, RecordPart, BotDeployStep
  PROVE  RecordPart'
<1>1. CASE BotTrigger
  BY <1>1, MoreDeployed, SMTT(30) DEF BotTrigger
<1>2. CASE BotRecord
  <2>1. history' \in Seq(deployed) BY <1>2, PushKeeps DEF BotRecord
  <2>2. QED BY <1>2, <2>1 DEF BotRecord
<1>3. CASE BotTrim
  <2>1. history' \in Seq(deployed) BY <1>3, TrimKeeps DEF BotTrim
  <2>2. QED BY <1>3, <2>1 DEF BotTrim
<1>4. CASE ~(BotTrigger \/ BotRecord \/ BotTrim)
  <2>1. UNCHANGED <<history, web, deployed>> /\ (bot'.at = "record" => bot' = bot)
    BY <1>4 DEF BotDeployStep, RollbackCommand, ButtonExpires, TargetExpires, Confirm,
       Previous, Issue, Load
  <2>2. QED BY <2>1
<1>5. QED BY <1>1, <1>2, <1>3, <1>4

LEMMA DeploymentsKeep ==
  ASSUME DeploymentsInductive, DeploymentsNext \/ UNCHANGED deployVars
  PROVE  DeploymentsInductive'
<1> USE DEF DeploymentsInductive
<1> HIDE DEF KeyPart, RollbackPart, RecordPart
<1>1. CASE WebDeployStep
  BY <1>1, WebKeepsKeys, WebKeepsRollbacks, WebKeepsRecords
<1>2. CASE BotDeployStep
  BY <1>2, BotKeepsKeys, BotKeepsRollbacks, BotKeepsRecords
<1>3. CASE UNCHANGED deployVars
  BY <1>3 DEF deployVars, KeyPart, RollbackPart, RecordPart
<1>4. DeploymentsNext => WebDeployStep \/ BotDeployStep
  BY DEF DeploymentsNext, WebDeployStep, BotDeployStep
<1>5. QED BY <1>1, <1>2, <1>3, <1>4

LEMMA DeploymentsHold == DeploymentsInductive => DeploymentInv
BY DEF DeploymentsInductive, DeploymentInv, DispatchedOnce, HistoryWasDeployed

HIDE DEF KeyPart, RollbackPart, RecordPart, RollbackIsAsShown
HIDE DEF confirmation, workflow, WebAt, BotAt, Push, Dispatch, Idle

-----------------------------------------------------------------------------
(* Web access *)

Holds(r) == call[r].at \in {"register", "mark", "mint", "exchange"}

(* A challenge that was issued is in Redis, or held by one request, or spent; *)
(* nothing has come of it before it is spent.                                *)
AccessInductive ==
  /\ kind \in [Challenges -> Kinds \cup {NoId}]
  /\ owner \in [Challenges -> Users \cup {NoOne}]
  /\ stored \in SUBSET Challenges
  /\ effects \in [Challenges -> Nat]
  /\ github \in [Users -> Challenges \cup {NoId}]
  /\ call \in [AccessCalls -> [at : {"idle", "register", "mark", "mint", "exchange", "listing"},
                               id : Challenges \cup {NoId}, user : Users \cup {NoOne}]]
  /\ \A c \in Challenges :
       /\ effects[c] <= 1
       /\ c \in stored => effects[c] = 0 /\ kind[c] # NoId
       /\ kind[c] = NoId => effects[c] = 0
  /\ \A r \in AccessCalls : Holds(r) =>
       /\ call[r].id \in Challenges
       /\ call[r].id \notin stored
       /\ effects[call[r].id] = 0
       /\ kind[call[r].id] # NoId
       /\ call[r].at = "exchange" => owner[call[r].id] = call[r].user
       /\ \A q \in AccessCalls : Holds(q) /\ call[q].id = call[r].id => q = r
  /\ \A u \in Users : github[u] # NoId =>
       kind[github[u]] # NoId /\ owner[github[u]] = u

USE WebAccessAssumption
USE DEF AccessInductive, Holds, Kinds, Waiting, challenges, sessions, CallAt, Happened, Done

LEMMA AccessInitially == AccessInit => AccessInductive
BY DEF AccessInit

(* what the invariant speaks of                                              *)
accessCore == <<kind, owner, stored, effects, github, call>>

LEMMA CoreUnchanged ==
  ASSUME AccessInductive, UNCHANGED accessCore
  PROVE  AccessInductive'
BY DEF accessCore

LEMMA StoreKeeps ==
  ASSUME AccessInductive, NEW c \in Challenges, NEW k \in Kinds,
         NEW u \in Users \cup {NoOne}, StoreChallenge(c, k, u)
  PROVE  AccessInductive'
<1>1. kind[c] = NoId /\ c \notin stored /\ effects[c] = 0
  BY DEF StoreChallenge
<1>2. k # NoId
  BY DEF NoId
<1>3. QED BY <1>1, <1>2, SMTT(30) DEF StoreChallenge

LEMMA ConsumeKeeps ==
  ASSUME AccessInductive, NEW r \in AccessCalls, NEW c \in Challenges, NEW k \in Kinds,
         NEW u \in Users \cup {NoOne}, NEW next \in {"register", "mark", "exchange"},
         Consume(r, c, k, u, next)
  PROVE  AccessInductive'
<1>1. /\ effects[c] = 0 /\ kind[c] # NoId /\ c \notin stored'
      /\ \A q \in AccessCalls : Holds(q) => call[q].id # c
  BY DEF Consume, Taken
<1>2. CASE kind[c] = k /\ owner[c] = u
  <2>1. call' = [q \in AccessCalls |-> IF q = r THEN [at |-> next, id |-> c, user |-> u]
                                                ELSE call[q]]
    BY <1>2 DEF Consume
  <2>2. stored' = stored \ {c} /\ UNCHANGED <<kind, owner, effects, github>>
    BY DEF Consume, Taken
  <2>3. /\ call'[r].at = next /\ call'[r].id = c /\ call'[r].user = u
        /\ \A q \in AccessCalls : q # r => call'[q] = call[q]
    BY <2>1
  <2>4. call' \in [AccessCalls -> [at : {"idle", "register", "mark", "mint", "exchange", "listing"},
                                  id : Challenges \cup {NoId}, user : Users \cup {NoOne}]]
    BY <2>1
  <2> HIDE DEF Waiting, CallAt
  <2>5. ASSUME NEW p \in AccessCalls, Holds(p)'
        PROVE  /\ call'[p].id \in Challenges
               /\ call'[p].id \notin stored'
               /\ effects[call'[p].id] = 0
               /\ kind[call'[p].id] # NoId
               /\ call'[p].at = "exchange" => owner[call'[p].id] = call'[p].user
               /\ \A q \in AccessCalls : Holds(q)' /\ call'[q].id = call'[p].id => q = p
    <3>1. CASE p = r BY <1>1, <1>2, <2>2, <2>3, <2>5, <3>1
    <3>2. CASE p # r BY <1>1, <2>2, <2>3, <2>5, <3>2
    <3>3. QED BY <3>1, <3>2
  <2>6. QED BY <2>2, <2>4, <2>5
<1>3. CASE ~(kind[c] = k /\ owner[c] = u)
  BY <1>1, <1>3, SMTT(30) DEF Consume, Taken
<1>4. QED BY <1>2, <1>3

(* the request that held the challenge spends it and lets it go             *)
LEMMA SpendKeeps ==
  ASSUME AccessInductive, NEW r \in AccessCalls, Holds(r), Happened(call[r].id), Done(r),
         UNCHANGED <<kind, owner, stored, github>>
  PROVE  AccessInductive'
BY SMTT(30)

LEMMA ConnectKeeps ==
  ASSUME AccessInductive, NEW r \in AccessCalls, Connect(r)
  PROVE  AccessInductive'
<1>1. call[r].id \in Challenges /\ kind[call[r].id] # NoId /\ owner[call[r].id] = call[r].user
  BY DEF Connect
<1>2. github' = [u \in Users |-> IF u = call[r].user THEN call[r].id ELSE github[u]]
  BY DEF Connect
<1>3. /\ github' \in [Users -> Challenges \cup {NoId}]
      /\ \A u \in Users : github'[u] # NoId => kind[github'[u]] # NoId /\ owner[github'[u]] = u
  BY <1>1, <1>2
<1>4. Holds(r) /\ Happened(call[r].id) /\ Done(r) /\ UNCHANGED <<kind, owner, stored>>
  BY DEF Connect
<1>5. QED BY <1>3, <1>4, SMTT(30)

LEMMA DisconnectKeeps ==
  ASSUME AccessInductive, UNCHANGED challenges,
         UNCHANGED github \/ \E u \in Users \cup {NoOne} : github' = [github EXCEPT ![u] = NoId],
         \/ UNCHANGED call
         \/ \E r \in AccessCalls : Done(r)
  PROVE  AccessInductive'
<1>1. \A u \in Users : github'[u] = github[u] \/ github'[u] = NoId
  OBVIOUS
<1>2. github' \in [Users -> Challenges \cup {NoId}]
  OBVIOUS
<1>3. /\ call' \in [AccessCalls -> [at : {"idle", "register", "mark", "mint", "exchange", "listing"},
                                    id : Challenges \cup {NoId}, user : Users \cup {NoOne}]]
      /\ \A r \in AccessCalls : call'[r] = call[r] \/ call'[r] = Waiting
  <2>1. CASE UNCHANGED call BY <2>1
  <2>2. ASSUME NEW r \in AccessCalls, Done(r)
        PROVE  call' = [q \in AccessCalls |-> IF q = r THEN Waiting ELSE call[q]]
    BY <2>2
  <2>3. QED BY <2>1, <2>2
<1>4. QED BY <1>1, <1>2, <1>3, SMTT(30)

LEMMA MoveKeeps ==
  ASSUME AccessInductive, NEW r \in AccessCalls, NEW u \in Users,
         MarkUsed(r, u) \/ ListRepositories(r, u)
  PROVE  AccessInductive'
<1>1. CASE MarkUsed(r, u) BY <1>1, SMTT(30) DEF MarkUsed
<1>2. CASE ListRepositories(r, u) BY <1>2, SMTT(30) DEF ListRepositories
<1>3. QED BY <1>1, <1>2

LEMMA CallKeeps ==
  ASSUME AccessInductive, NEW r \in AccessCalls,
         \/ \E c \in Challenges, u \in Users : RegistrationVerify(r, c, u)
         \/ \E c \in Challenges : AuthenticationVerify(r, c) \/ OAuthCallback(r, c)
         \/ Fail(r) \/ Register(r) \/ Connect(r) \/ Listed(r)
         \/ \E u \in Users : MarkUsed(r, u) \/ ListRepositories(r, u)
         \/ \E s \in Sessions : PasskeyLogin(r, s)
  PROVE  AccessInductive'
<1>1. ASSUME NEW c \in Challenges, NEW u \in Users, RegistrationVerify(r, c, u)
      PROVE  AccessInductive'
  <2>1. Consume(r, c, "register", u, "register") BY <1>1 DEF RegistrationVerify
  <2>2. QED BY <2>1, ConsumeKeeps DEF Kinds
<1>2. ASSUME NEW c \in Challenges, AuthenticationVerify(r, c)
      PROVE  AccessInductive'
  <2>1. Consume(r, c, "authenticate", NoOne, "mark") BY <1>2 DEF AuthenticationVerify
  <2>2. QED BY <2>1, ConsumeKeeps DEF Kinds
<1>3. ASSUME NEW c \in Challenges, OAuthCallback(r, c)
      PROVE  AccessInductive'
  <2>1. Consume(r, c, "oauth", owner[c], "exchange") BY <1>3 DEF OAuthCallback
  <2>2. owner[c] \in Users \cup {NoOne} OBVIOUS
  <2>3. QED BY <2>1, <2>2, ConsumeKeeps DEF Kinds
<1>4. CASE Fail(r)
  BY <1>4, DisconnectKeeps DEF Fail
<1>5. CASE Listed(r)
  <2>1. call[r].user \in Users \cup {NoOne} OBVIOUS
  <2>2. QED BY <1>5, <2>1, DisconnectKeeps DEF Listed
<1>6. CASE Register(r)
  BY <1>6, SpendKeeps DEF Register
<1>7. ASSUME NEW s \in Sessions, PasskeyLogin(r, s)
      PROVE  AccessInductive'
  BY <1>7, SpendKeeps DEF PasskeyLogin
<1>8. QED BY <1>1, <1>2, <1>3, <1>4, <1>5, <1>6, <1>7, ConnectKeeps, MoveKeeps

LEMMA AccessKeeps ==
  ASSUME AccessInductive, AccessNext \/ UNCHANGED accessVars
  PROVE  AccessInductive'
<1> HIDE DEF AccessInductive
<1>1. ASSUME NEW c \in Challenges,
             \/ \E u \in Users : RegistrationOptions(c, u) \/ BeginOAuth(c, u)
             \/ AuthenticationOptions(c)
      PROVE  AccessInductive'
  <2>1. \E k \in Kinds, u \in Users \cup {NoOne} : StoreChallenge(c, k, u)
    BY <1>1 DEF RegistrationOptions, BeginOAuth, AuthenticationOptions, Kinds
  <2>2. QED BY <2>1, StoreKeeps
<1>2. ASSUME NEW c \in Challenges, ChallengeExpires(c) PROVE AccessInductive'
  BY <1>2, SMTT(30) DEF ChallengeExpires, AccessInductive
<1>3. ASSUME NEW u \in Users, Disconnect(u) PROVE AccessInductive'
  BY <1>3, DisconnectKeeps DEF Disconnect
<1>4. CASE \/ Refuse \/ Tick \/ UNCHANGED accessVars
           \/ \E s \in Sessions, u \in Users : TelegramLogin(s, u) \/ MintFromMiniApp(s, u)
           \/ \E s \in Sessions : Logout(s)
  <2>1. UNCHANGED accessCore
    BY <1>4 DEF Refuse, Tick, accessVars, TelegramLogin, MintFromMiniApp, Logout, accessCore
  <2>2. QED BY <2>1, CoreUnchanged
<1>5. QED BY <1>1, <1>2, <1>3, <1>4, CallKeeps DEF AccessNext

HIDE DEF AccessInductive, Holds
HIDE DashboardAssumption
HIDE GenerationsAreNat
HIDE DeploymentsAssumption
HIDE WebAccessAssumption

-----------------------------------------------------------------------------
(* Voice *)

(* The provider's buffer as it will be when the messages before the i-th     *)
(* have been taken: every other control message than a request empties it.   *)
Empties(m) == m.type \in {"session.cancel", "barge_in", "audio.start", "audio.end"}
Quiet(j, i) == \A k \in DOMAIN upstream : j < k /\ k < i => ~Empties(upstream[k])
HeardAt(i, t) ==
  \/ Quiet(0, i) /\ \E k \in DOMAIN hearing : hearing[k] = t
  \/ \E j \in DOMAIN upstream : j < i /\ upstream[j].type = "audio" /\ t \in upstream[j].of
                                /\ Quiet(j, i)

(* the buffer when all that is on its way has been taken                     *)
StillHeard(t) == HeardAt(Len(upstream) + 1, t)

EndedAt(i) == i \in DOMAIN upstream /\ upstream[i].type = "audio.end"

(* The recording is, or will be, in a transcript or in a request.            *)
Committed(t) ==
  \/ \E i \in DOMAIN upstream : EndedAt(i) /\ HeardAt(i, t)
  \/ \E item \in items : t \in item
  \/ \E i \in DOMAIN upstream : upstream[i].type = "plan.request" /\ t \in upstream[i].of
  \/ request[t] # "none"

UpstreamMessages ==
  [type : {"audio", "audio.end", "session.cancel", "barge_in", "audio.start", "plan.request"},
   of : SUBSET (1..turn)]

SessionPart ==
  /\ turn \in 0..MaxTurns /\ recorded \in Nat
  /\ hearing \in Seq(1..turn) /\ buffered = Len(hearing)
  /\ upstream \in Seq(UpstreamMessages)
  /\ \A i \in DOMAIN upstream : upstream[i].type = "audio" => \E t \in 1..turn : upstream[i].of = {t}
  /\ items \subseteq SUBSET (1..turn) /\ {} \notin items
  /\ request \in [Turns -> RequestStates]
  /\ socket \in {"open", "none"}
  /\ socket = "none" => upstream = <<>> /\ hearing = <<>> /\ items = {}

(* A recording that is not shown as open has been overtaken by an answer.    *)
CapturePart ==
  /\ mics \cup timers \cup discarded \subseteq 1..turn
  /\ mics \cap discarded = {}
  /\ capturing \in BOOLEAN /\ overtaken \in BOOLEAN
  /\ IF capturing THEN turn \in mics ELSE mics = {}
  /\ phase = "listening" => capturing
  /\ capturing /\ phase # "listening" => overtaken
  /\ ~overtaken => mics \subseteq {turn}

CommitPart ==
  /\ \A t \in Turns : Committed(t) =>
       /\ t <= turn /\ t \notin discarded
       /\ t = turn => ~capturing /\ recorded >= MinAudio
  /\ \A t \in Turns : StillHeard(t) => t \notin discarded

SinglePart ==
  ~overtaken =>
    /\ \A t \in Turns : StillHeard(t) => t = turn
    /\ \A i \in DOMAIN upstream : EndedAt(i) =>
         \A s, t \in Turns : HeardAt(i, s) /\ HeardAt(i, t) => s = t
    /\ \A item \in items : \A s, t \in item : s = t

VoiceInductive == SessionPart /\ CapturePart /\ CommitPart /\ SinglePart /\ NoRequestVanishes

USE VoiceAssumption
USE DEF browser, gateway, stt, voiceVars, Turns

(* What is heard depends on the messages before.                             *)
LEMMA SameStream ==
  ASSUME NEW t, NEW i, UNCHANGED <<upstream, hearing>>
  PROVE  /\ HeardAt(i, t)' <=> HeardAt(i, t)
         /\ StillHeard(t)' <=> StillHeard(t)
         /\ EndedAt(i)' <=> EndedAt(i)
BY DEF HeardAt, StillHeard, EndedAt, Quiet, Empties

LEMMA InFlightMessages ==
  /\ \A t : t \in InFlight <=> \E i \in DOMAIN upstream : upstream[i].type = "plan.request"
                                                          /\ t \in upstream[i].of
  /\ \A t : t \in InFlight' <=> \E i \in DOMAIN upstream' : upstream'[i].type = "plan.request"
                                                            /\ t \in upstream'[i].of
BY DEF InFlight

(* messages sent                                                             *)
LEMMA Longer ==
  ASSUME NEW S, upstream \in Seq(S), NEW ms \in Seq(S), upstream' = upstream \o ms
  PROVE  /\ upstream' \in Seq(S) /\ Len(upstream') = Len(upstream) + Len(ms)
         /\ Len(upstream) \in Nat /\ Len(ms) \in Nat
         /\ DOMAIN upstream = 1..Len(upstream)
         /\ DOMAIN upstream' = 1..(Len(upstream) + Len(ms))
         /\ \A i \in DOMAIN upstream : upstream'[i] = upstream[i]
         /\ \A i \in 1..Len(ms) : upstream'[Len(upstream) + i] = ms[i]
         /\ \A i \in DOMAIN upstream' : i \in DOMAIN upstream
                                        \/ \E j \in 1..Len(ms) : i = Len(upstream) + j
<1>1. Len(upstream) \in Nat /\ Len(ms) \in Nat /\ DOMAIN upstream = 1..Len(upstream) OBVIOUS
<1>2. upstream' \in Seq(S) /\ Len(upstream') = Len(upstream) + Len(ms)
  BY ConcatProperties
<1>3. \A i \in 1..(Len(upstream) + Len(ms)) :
        upstream'[i] = IF i <= Len(upstream) THEN upstream[i] ELSE ms[i - Len(upstream)]
  BY ConcatProperties
<1>4. DOMAIN upstream' = 1..(Len(upstream) + Len(ms)) BY <1>2
<1>5. \A i \in 1..Len(ms) : upstream'[Len(upstream) + i] = ms[i]
  <2>1. ASSUME NEW i \in 1..Len(ms) PROVE upstream'[Len(upstream) + i] = ms[i]
    <3>1. Len(upstream) + i \in 1..(Len(upstream) + Len(ms)) BY <1>1
    <3>2. ~(Len(upstream) + i <= Len(upstream)) /\ Len(upstream) + i - Len(upstream) = i BY <1>1
    <3>3. QED BY <1>3, <3>1, <3>2
  <2>2. QED BY <2>1
<1>6. ASSUME NEW i \in DOMAIN upstream', i \notin DOMAIN upstream
      PROVE  \E j \in 1..Len(ms) : i = Len(upstream) + j
  <2>1. i - Len(upstream) \in 1..Len(ms) /\ i = Len(upstream) + (i - Len(upstream))
    BY <1>1, <1>4, <1>6
  <2>2. QED BY <2>1
<1>7. QED BY <1>1, <1>2, <1>3, <1>4, <1>5, <1>6

LEMMA HeardBefore ==
  ASSUME NEW S, upstream \in Seq(S), NEW ms \in Seq(S), upstream' = upstream \o ms,
         UNCHANGED hearing, NEW t, NEW i \in 1..(Len(upstream) + 1)
  PROVE  HeardAt(i, t)' <=> HeardAt(i, t)
<1>1. /\ Len(upstream) \in Nat /\ Len(ms) \in Nat
      /\ DOMAIN upstream = 1..Len(upstream)
      /\ DOMAIN upstream' = 1..(Len(upstream) + Len(ms))
      /\ \A j \in DOMAIN upstream : upstream'[j] = upstream[j]
  BY Longer
<1>2. \A j \in DOMAIN upstream' : j < i => j \in DOMAIN upstream BY <1>1
<1>3. \A j \in DOMAIN upstream : j \in DOMAIN upstream' BY <1>1
<1>4. \A j : Quiet(j, i)' <=> Quiet(j, i)
  BY <1>1, <1>2, <1>3 DEF Quiet, Empties
<1>5. QED BY <1>1, <1>2, <1>3, <1>4 DEF HeardAt

(* Nothing is heard past a message that empties the buffer.                  *)
LEMMA EmptiedBefore ==
  ASSUME NEW i, NEW t, NEW k \in DOMAIN upstream, k < i, Empties(upstream[k]),
         \A j \in DOMAIN upstream : j < i => j < k \/ j = k,
         \A j \in DOMAIN upstream : 0 < j
  PROVE  ~HeardAt(i, t)
<1>1. ~Quiet(0, i) BY DEF Quiet
<1>2. ASSUME NEW j \in DOMAIN upstream, j < i, upstream[j].type = "audio", Quiet(j, i) PROVE FALSE
  <2>1. CASE j < k BY <1>2, <2>1 DEF Quiet
  <2>2. CASE j = k BY <1>2, <2>2 DEF Empties
  <2>3. QED BY <1>2, <2>1, <2>2
<1>3. QED BY <1>1, <1>2 DEF HeardAt

LEMMA ControlsSent ==
  ASSUME NEW S, upstream \in Seq(S), NEW ms \in Seq(S), ms # <<>>,
         \A j \in 1..Len(ms) : Empties(ms[j]),
         upstream' = upstream \o ms, UNCHANGED hearing, NEW t
  PROVE  /\ ~StillHeard(t)'
         /\ \A i : EndedAt(i)' /\ HeardAt(i, t)' =>
              \/ EndedAt(i) /\ HeardAt(i, t)
              \/ i \notin DOMAIN upstream /\ StillHeard(t) /\ ms[1].type = "audio.end"
<1>1. /\ Len(upstream') = Len(upstream) + Len(ms)
      /\ Len(upstream) \in Nat /\ Len(ms) \in Nat
      /\ DOMAIN upstream = 1..Len(upstream)
      /\ DOMAIN upstream' = 1..(Len(upstream) + Len(ms))
      /\ \A i \in DOMAIN upstream : upstream'[i] = upstream[i]
      /\ \A i \in 1..Len(ms) : upstream'[Len(upstream) + i] = ms[i]
  BY Longer
<1>2. Len(ms) >= 1 BY <1>1, EmptySeq
<1>3. ASSUME NEW i \in 1..(Len(upstream) + Len(ms) + 1), i > Len(upstream) + 1
      PROVE  ~HeardAt(i, t)'
  <2>1. i - 1 \in DOMAIN upstream' /\ i - 1 < i /\ Empties(upstream[i - 1])'
    <3>1. i - 1 - Len(upstream) \in 1..Len(ms) BY <1>1, <1>3
    <3>2. upstream'[i - 1] = ms[i - 1 - Len(upstream)]
      <4>1. Len(upstream) + (i - 1 - Len(upstream)) = i - 1 BY <1>1
      <4>2. QED BY <1>1, <3>1, <4>1
    <3>3. QED BY <1>1, <1>3, <3>1, <3>2 DEF Empties
  <2>2. ~Quiet(0, i)' BY <1>1, <1>3, <2>1 DEF Quiet
  <2>3. ASSUME NEW j \in DOMAIN upstream', j < i, upstream'[j].type = "audio", Quiet(j, i)'
        PROVE  FALSE
    <3>1. CASE j < i - 1 BY <2>1, <2>3, <3>1 DEF Quiet
    <3>2. CASE j = i - 1 BY <2>1, <2>3, <3>2 DEF Empties
    <3>3. j < i - 1 \/ j = i - 1 BY <1>1, <1>3, <2>3
    <3>4. QED BY <3>1, <3>2, <3>3
  <2>4. QED BY <2>2, <2>3 DEF HeardAt
<1>4. ~StillHeard(t)' BY <1>1, <1>2, <1>3 DEF StillHeard
<1>5. ASSUME NEW i, EndedAt(i)', HeardAt(i, t)', ~(EndedAt(i) /\ HeardAt(i, t))
      PROVE  i \notin DOMAIN upstream /\ StillHeard(t) /\ ms[1].type = "audio.end"
  <2>1. i \in 1..(Len(upstream) + 1) BY <1>1, <1>3, <1>5 DEF EndedAt
  <2>2. HeardAt(i, t) BY <1>5, <2>1, HeardBefore
  <2>3. i = Len(upstream) + 1 BY <1>1, <1>5, <2>1, <2>2 DEF EndedAt
  <2>4. QED BY <1>1, <1>2, <1>5, <2>2, <2>3 DEF EndedAt, StillHeard
<1>6. QED BY <1>4, <1>5

LEMMA OtherSent ==
  ASSUME NEW S, upstream \in Seq(S), NEW m \in S, ~Empties(m),
         upstream' = upstream \o <<m>>, UNCHANGED hearing, NEW t
  PROVE  /\ StillHeard(t)' => StillHeard(t) \/ (m.type = "audio" /\ t \in m.of)
         /\ \A i : EndedAt(i)' /\ HeardAt(i, t)' => EndedAt(i) /\ HeardAt(i, t)
<1> DEFINE ms == <<m>>
<1>0. ms \in Seq(S) /\ Len(ms) = 1 /\ ms[1] = m OBVIOUS
<1>00. upstream' = upstream \o ms OBVIOUS
<1> HIDE DEF ms
<1>1. /\ Len(upstream') = Len(upstream) + 1
      /\ Len(upstream) \in Nat
      /\ DOMAIN upstream = 1..Len(upstream)
      /\ DOMAIN upstream' = 1..(Len(upstream) + 1)
      /\ \A i \in DOMAIN upstream : upstream'[i] = upstream[i]
      /\ upstream'[Len(upstream) + 1] = m
  BY <1>0, <1>00, Longer
<1>2. PICK n \in DOMAIN upstream' : n = Len(upstream) + 1 /\ n \in 1..(Len(upstream) + 1) BY <1>1
<1>3. \A i \in 1..(Len(upstream) + 1) : HeardAt(i, t)' <=> HeardAt(i, t)
  BY <1>0, <1>00, HeardBefore
<1>4. ASSUME NEW i, EndedAt(i)', HeardAt(i, t)' PROVE EndedAt(i) /\ HeardAt(i, t)
  <2>1. i \in DOMAIN upstream /\ EndedAt(i) BY <1>1, <1>4 DEF EndedAt, Empties
  <2>2. QED BY <1>1, <1>3, <1>4, <2>1
<1>5. ASSUME StillHeard(t)', ~(m.type = "audio" /\ t \in m.of) PROVE StillHeard(t)
  <2>1. HeardAt(n + 1, t)' BY <1>1, <1>2, <1>5 DEF StillHeard
  <2>2. \A j : Quiet(j, n + 1)' => Quiet(j, n)'
    BY <1>1, <1>2 DEF Quiet
  <2>3. ASSUME NEW j \in DOMAIN upstream', j < n + 1, upstream'[j].type = "audio",
               t \in upstream'[j].of
        PROVE  j < n
    BY <1>1, <1>2, <1>5, <2>3
  <2>4. HeardAt(n, t)' BY <2>1, <2>2, <2>3 DEF HeardAt
  <2>5. QED BY <1>2, <1>3, <2>4 DEF StillHeard
<1>6. QED BY <1>4, <1>5

(* the first message taken                                                   *)
LEMMA HeadTaken ==
  ASSUME NEW S, upstream \in Seq(S), upstream # <<>>, upstream' = Tail(upstream), NEW t,
         (\E k \in DOMAIN hearing' : hearing'[k] = t) =>
           /\ ~Empties(upstream[1])
           /\ \/ \E k \in DOMAIN hearing : hearing[k] = t
              \/ upstream[1].type = "audio" /\ t \in upstream[1].of
  PROVE  /\ StillHeard(t)' => StillHeard(t)
         /\ \A i : EndedAt(i)' /\ HeardAt(i, t)' => EndedAt(i + 1) /\ HeardAt(i + 1, t)
<1>1. /\ Len(upstream) \in Nat \ {0} /\ upstream' \in Seq(S)
      /\ Len(upstream') = Len(upstream) - 1
      /\ DOMAIN upstream = 1..Len(upstream) /\ DOMAIN upstream' = 1..(Len(upstream) - 1)
  BY HeadTailProperties, EmptySeq
<1>2. \A j \in DOMAIN upstream' : j + 1 \in DOMAIN upstream /\ upstream'[j] = upstream[j + 1]
  BY <1>1, HeadTailProperties
<1>3. ASSUME NEW i \in 1..Len(upstream), HeardAt(i, t)' PROVE HeardAt(i + 1, t)
  <2>1. ASSUME NEW j \in Nat, Quiet(j, i)', NEW k \in DOMAIN upstream, j + 1 < k, k < i + 1
        PROVE  ~Empties(upstream[k])
    <3>1. k - 1 \in DOMAIN upstream' /\ j < k - 1 /\ k - 1 < i BY <1>1, <1>3, <2>1
    <3>2. ~Empties(upstream[k - 1])' BY <2>1, <3>1 DEF Quiet
    <3>3. upstream'[k - 1] = upstream[k] BY <1>1, <1>2, <3>1
    <3>4. QED BY <3>2, <3>3 DEF Empties
  <2>2. \A j \in Nat : Quiet(j, i)' => Quiet(j + 1, i + 1) BY <2>1 DEF Quiet
  <2>3. 1 \in DOMAIN upstream /\ 1 < i + 1 BY <1>1, <1>3
  <2>4. CASE Quiet(0, i)' /\ \E k \in DOMAIN hearing' : hearing'[k] = t
    <3>1. Quiet(1, i + 1) BY <2>2, <2>4
    <3>2. Quiet(0, i + 1)
      <4>1. \A k \in DOMAIN upstream : 0 < k => k = 1 \/ 1 < k BY <1>1
      <4>2. QED BY <2>4, <3>1, <4>1 DEF Quiet
    <3>3. QED BY <2>3, <2>4, <3>1, <3>2 DEF HeardAt
  <2>5. ASSUME NEW j \in DOMAIN upstream', j < i, upstream'[j].type = "audio",
               t \in upstream'[j].of, Quiet(j, i)'
        PROVE  HeardAt(i + 1, t)
    <3>1. j \in Nat /\ j + 1 \in DOMAIN upstream /\ j + 1 < i + 1 /\ upstream'[j] = upstream[j + 1]
      BY <1>1, <1>2, <1>3, <2>5
    <3>2. QED BY <2>2, <2>5, <3>1 DEF HeardAt
  <2>6. QED BY <1>3, <2>4, <2>5 DEF HeardAt
<1>4. StillHeard(t)' => StillHeard(t)
  <2>0. Len(upstream) \in 1..Len(upstream) BY <1>1
  <2>1. PICK n \in 1..Len(upstream) : n = Len(upstream) BY <2>0
  <2>2. Len(upstream') + 1 = n BY <1>1, <2>1
  <2>3. HeardAt(n, t)' => HeardAt(n + 1, t) BY <1>3, <2>1
  <2>4. QED BY <2>1, <2>2, <2>3 DEF StillHeard
<1>5. ASSUME NEW i, EndedAt(i)', HeardAt(i, t)' PROVE EndedAt(i + 1) /\ HeardAt(i + 1, t)
  BY <1>1, <1>2, <1>3, <1>5 DEF EndedAt
<1>6. \A i : EndedAt(i)' /\ HeardAt(i, t)' => EndedAt(i + 1) /\ HeardAt(i + 1, t) BY <1>5
<1>7. QED BY <1>4, <1>6

LEMMA VoiceInitially == VoiceInit => VoiceInductive
<1> SUFFICES ASSUME VoiceInit PROVE VoiceInductive OBVIOUS
<1>1. upstream = <<>> /\ hearing = <<>> /\ DOMAIN upstream = {} /\ DOMAIN hearing = {}
  BY DEF VoiceInit
<1>2. \A S : upstream \in Seq(S) /\ hearing \in Seq(S) BY <1>1
<1>3. SessionPart BY <1>1, <1>2 DEF VoiceInit, SessionPart, RequestStates
<1>4. CapturePart BY DEF VoiceInit, CapturePart
<1>5. \A i, t : ~HeardAt(i, t) /\ ~EndedAt(i) BY <1>1 DEF HeardAt, EndedAt
<1>6. \A t \in Turns : ~Committed(t) /\ ~StillHeard(t)
  BY <1>1, <1>5 DEF VoiceInit, Committed, StillHeard
<1>7. CommitPart /\ SinglePart BY <1>5, <1>6 DEF VoiceInit, CommitPart, SinglePart
<1>8. NoRequestVanishes BY DEF VoiceInit, NoRequestVanishes
<1>9. QED BY <1>3, <1>4, <1>7, <1>8 DEF VoiceInductive

LEMMA VoiceHolds == VoiceInductive => VoiceInv
<1> SUFFICES ASSUME VoiceInductive PROVE VoiceInv OBVIOUS
<1>1. discarded \subseteq Turns /\ items \subseteq SUBSET Turns /\ {} \notin items
  BY DEF VoiceInductive, SessionPart, CapturePart
<1>2. DiscardedIsNotSent
  BY <1>1 DEF VoiceInductive, CommitPart, Committed, DiscardedIsNotSent
<1>3. ASSUME ~overtaken, NEW item \in items PROVE Cardinality(item) = 1
  <2>1. PICK t : t \in item BY <1>1, <1>3
  <2>2. \A s \in item : s = t BY <1>3, <2>1 DEF VoiceInductive, SinglePart
  <2>3. item = {t} BY <2>1, <2>2
  <2>4. QED BY <2>3, FS_Singleton
<1>4. QED BY <1>2, <1>3 DEF VoiceInv, OneTurnPerTranscript, VoiceInductive

(* Steps that leave what is on its way and what is heard alone.              *)
LEMMA NothingHeard ==
  ASSUME VoiceInductive, UNCHANGED <<upstream, hearing, items, turn, discarded, recorded>>,
         SessionPart', CapturePart', NoRequestVanishes',
         \A t \in Turns : request'[t] # "none" => request[t] # "none",
         capturing' => capturing, overtaken => overtaken'
  PROVE  VoiceInductive'
<1>1. \A i, t : (HeardAt(i, t)' <=> HeardAt(i, t)) /\ (StillHeard(t)' <=> StillHeard(t))
                /\ (EndedAt(i)' <=> EndedAt(i))
  BY SameStream
<1>2. \A t \in Turns : Committed(t)' => Committed(t)
  BY <1>1 DEF Committed
<1>3. CommitPart' BY <1>1, <1>2 DEF VoiceInductive, CommitPart, CapturePart
<1>4. SinglePart' BY <1>1 DEF VoiceInductive, SinglePart, CapturePart
<1>5. QED BY <1>3, <1>4 DEF VoiceInductive

(* The gateway shows a phase, or nothing.                                    *)
LEMMA ShowingKeeps ==
  ASSUME VoiceInductive, BrowserKept, NEW p, p # "listening", Shows(p) \/ UNCHANGED <<phase, overtaken>>
  PROVE  CapturePart' /\ (overtaken => overtaken')
<1>1. overtaken \in BOOLEAN /\ capturing \in BOOLEAN BY DEF VoiceInductive, CapturePart
<1>2. CASE Shows(p)
  <2>1. phase' # "listening" /\ overtaken' = (overtaken \/ (capturing /\ phase = "listening"))
    BY <1>2 DEF Shows
  <2>2. QED BY <1>1, <2>1 DEF BrowserKept, VoiceInductive, CapturePart
<1>3. CASE UNCHANGED <<phase, overtaken>>
  BY <1>1, <1>3 DEF BrowserKept, VoiceInductive, CapturePart
<1>4. QED BY <1>2, <1>3

(* What is left at the end of a session is in a request, or forgotten.       *)
LEMMA SessionEndKeeps ==
  ASSUME VoiceInductive, NEW d \in {"refused", "orphaned"}, SessionOver(d), BrowserKept,
         NEW p, p # "listening", Shows(p) \/ UNCHANGED <<phase, overtaken>>
  PROVE  VoiceInductive'
<1>1. /\ upstream' = <<>> /\ hearing' = <<>> /\ items' = {} /\ buffered' = 0 /\ socket' = "none"
      /\ UNCHANGED <<turn, mics, capturing, recorded, discarded>>
  BY DEF SessionOver, BrowserKept
<1>2. DOMAIN upstream' = {} /\ DOMAIN hearing' = {} /\ \A S : upstream' \in Seq(S) /\ hearing' \in Seq(S)
  BY <1>1
<1>3. \A i, t : ~HeardAt(i, t)' /\ ~EndedAt(i)' BY <1>2 DEF HeardAt, EndedAt
<1>4. CapturePart' BY ShowingKeeps
<1>5. ASSUME NEW t \in Turns
      PROVE  /\ request'[t] \in RequestStates
             /\ request'[t] # "none" => Committed(t)
             /\ request'[t] \notin {"sent", "dispatching", "polled", "spoken"}
  <2>1. request'[t] = AfterSession(d)[t] BY DEF SessionOver
  <2>2. request[t] \in RequestStates BY DEF VoiceInductive, SessionPart
  <2>3. request[t] = "sent" => t \in InFlight BY DEF VoiceInductive, NoRequestVanishes
  <2>4. t \in InFlight \/ request[t] # "none" => Committed(t) BY InFlightMessages DEF Committed
  <2>5. QED BY <2>1, <2>2, <2>3, <2>4 DEF AfterSession, RequestStates
<1>6. request' \in [Turns -> RequestStates]
  <2>1. request' = AfterSession(d) BY DEF SessionOver
  <2>2. AfterSession(d) = [t \in Turns |-> AfterSession(d)[t]] BY DEF AfterSession
  <2>3. QED BY <1>5, <2>1, <2>2
<1>7. SessionPart' BY <1>1, <1>2, <1>6 DEF VoiceInductive, SessionPart
<1>8. \A t \in Turns : (Committed(t)' => Committed(t)) /\ ~StillHeard(t)'
  BY <1>1, <1>2, <1>3, <1>5 DEF Committed, StillHeard
<1>9. CommitPart' BY <1>1, <1>8 DEF VoiceInductive, CommitPart
<1>10. SinglePart' BY <1>1, <1>2, <1>3, <1>8 DEF SinglePart
<1>11. NoRequestVanishes' BY <1>5 DEF NoRequestVanishes
<1>12. QED BY <1>4, <1>7, <1>9, <1>10, <1>11 DEF VoiceInductive

(* Steps of jobs, of results and of the connection.                          *)
LEMMA ServiceKeeps ==
  ASSUME VoiceInductive,
         \/ PlaybackDone \/ ProviderGone \/ Reconnect \/ ReconnectRefused \/ UNCHANGED voiceVars
         \/ \E t \in Turns : Dispatched(t) \/ JobEnds(t) \/ Speaking(t) \/ SpeakFails(t)
  PROVE  VoiceInductive'
<1>1. UNCHANGED <<upstream, hearing, items, turn, mics, capturing, recorded, timers, discarded,
                  buffered>>
  BY DEF PlaybackDone, ProviderGone, Reconnect, ReconnectRefused, Dispatched, JobEnds, Speaking,
         SpeakError, SpeakResult, SpeakEnds, FallsSilent, SpeakFails, BrowserKept
<1>2. CapturePart' /\ (overtaken => overtaken')
  <2>1. \/ UNCHANGED <<phase, overtaken>> \/ Shows("error") \/ Shows("speaking")
        \/ phase = "speaking" /\ phase' = "idle" /\ UNCHANGED overtaken
    BY DEF PlaybackDone, ProviderGone, Reconnect, ReconnectRefused, Dispatched, JobEnds, Speaking,
           SpeakError, SpeakResult, SpeakEnds, FallsSilent, SpeakFails
  <2>2. CASE phase = "speaking" /\ phase' = "idle" /\ UNCHANGED overtaken
    BY <1>1, <2>2 DEF VoiceInductive, CapturePart
  <2>3. BrowserKept \/ (phase = "speaking" /\ phase' = "idle" /\ UNCHANGED overtaken)
    BY DEF PlaybackDone, ProviderGone, Reconnect, ReconnectRefused, Dispatched, JobEnds, Speaking,
           SpeakError, SpeakResult, SpeakEnds, FallsSilent, SpeakFails, BrowserKept
  <2>4. QED BY <2>1, <2>2, <2>3, ShowingKeeps
<1>3. \/ UNCHANGED request
      \/ \E t \in Turns, s \in RequestStates \ {"none", "sent"} :
           /\ request[t] # "none" /\ request' = [request EXCEPT ![t] = s]
           /\ s \in {"polled", "spoken"} => request[t] \in {"dispatching", "polled", "spoken"}
           /\ s # "dispatching"
  <2>1. ASSUME NEW t \in Turns, Dispatched(t)
        PROVE  \E s \in RequestStates \ {"none", "sent"} :
                 /\ request[t] # "none" /\ request' = [request EXCEPT ![t] = s]
                 /\ s \in {"polled", "spoken"} => request[t] \in {"dispatching", "polled", "spoken"}
                 /\ s # "dispatching"
    BY <2>1 DEF Dispatched, RequestStates, VoiceInductive, SessionPart
  <2>2. ASSUME NEW t \in Turns, Speaking(t) \/ SpeakFails(t)
        PROVE  \E s \in RequestStates \ {"none", "sent"} :
                 /\ request[t] # "none" /\ request' = [request EXCEPT ![t] = s]
                 /\ s \in {"polled", "spoken"} => request[t] \in {"dispatching", "polled", "spoken"}
                 /\ s # "dispatching"
    BY <2>2 DEF Speaking, SpeakError, SpeakResult, SpeakEnds, FallsSilent, SpeakFails, RequestStates
  <2>3. QED BY <2>1, <2>2 DEF PlaybackDone, ProviderGone, Reconnect, ReconnectRefused, JobEnds
<1>4. request' \in [Turns -> RequestStates]
  BY <1>3 DEF VoiceInductive, SessionPart
<1>5. \A t \in Turns : request'[t] # "none" => request[t] # "none"
  BY <1>3 DEF VoiceInductive, SessionPart
<1>6. socket' = socket \/ (socket = "none" /\ socket' = "open")
  BY DEF PlaybackDone, ProviderGone, Reconnect, ReconnectRefused, Dispatched, JobEnds, Speaking,
         SpeakError, SpeakResult, SpeakEnds, FallsSilent, SpeakFails
<1>7. SessionPart' BY <1>1, <1>4, <1>6 DEF VoiceInductive, SessionPart, UpstreamMessages
<1>8. NoRequestVanishes'
  <2>1. \A t : t \in InFlight' <=> t \in InFlight BY <1>1 DEF InFlight
  <2>2. \A t \in Turns : /\ request'[t] = "sent" => request[t] = "sent"
                         /\ request'[t] \in {"dispatching", "polled", "spoken"} =>
                              request[t] \in {"dispatching", "polled", "spoken"}
    BY <1>3 DEF VoiceInductive, SessionPart
  <2>3. QED BY <1>6, <2>1, <2>2 DEF VoiceInductive, NoRequestVanishes
<1>9. QED BY <1>1, <1>2, <1>5, <1>7, <1>8, NothingHeard

LEMMA DispatchRefusedKeeps ==
  ASSUME VoiceInductive, NEW t \in Turns, DispatchRefused(t)
  PROVE  VoiceInductive'
<1>1. CASE CloseWithError("refused")
  BY <1>1, SessionEndKeeps DEF DispatchRefused, CloseWithError
<1>2. CASE request[t] = "orphaned" /\ request' = [request EXCEPT ![t] = "refused"]
           /\ UNCHANGED <<phase, overtaken, gateway, stt>>
  <2>1. UNCHANGED <<upstream, hearing, items, turn, mics, capturing, recorded, discarded, buffered,
                    socket>>
    BY <1>2 DEF DispatchRefused, BrowserKept
  <2>2. CapturePart' /\ (overtaken => overtaken')
    BY <1>2, ShowingKeeps DEF DispatchRefused
  <2>3. request' \in [Turns -> RequestStates]
        /\ \A u \in Turns : request'[u] = IF u = t THEN "refused" ELSE request[u]
    BY <1>2 DEF VoiceInductive, SessionPart, RequestStates
  <2>4. SessionPart' BY <2>1, <2>3 DEF VoiceInductive, SessionPart, UpstreamMessages
  <2>5. NoRequestVanishes'
    BY <2>1, <2>3 DEF VoiceInductive, NoRequestVanishes, InFlight
  <2>6. QED BY <1>2, <2>1, <2>2, <2>3, <2>4, <2>5, NothingHeard
<1>3. QED BY <1>1, <1>2 DEF DispatchRefused

LEMMA HeardFirst ==
  ASSUME NEW t, \E k \in DOMAIN hearing : hearing[k] = t, NEW S, upstream \in Seq(S)
  PROVE  HeardAt(1, t)
<1>1. Quiet(0, 1) BY DEF Quiet
<1>2. QED BY <1>1 DEF HeardAt

LEMMA TakingKeeps ==
  ASSUME VoiceInductive, socket = "open", upstream # <<>>, upstream' = Tail(upstream), UNCHANGED socket,
         BrowserKept, Shows("error") \/ UNCHANGED <<phase, overtaken>>,
         hearing' \in Seq(1..turn), buffered' = Len(hearing'),
         \A t \in Turns : (\E k \in DOMAIN hearing' : hearing'[k] = t) =>
           /\ ~Empties(upstream[1])
           /\ \/ \E k \in DOMAIN hearing : hearing[k] = t
              \/ upstream[1].type = "audio" /\ t \in upstream[1].of,
         \/ UNCHANGED items
         \/ /\ upstream[1].type = "audio.end" /\ items' = items \cup {{hearing[k] : k \in DOMAIN hearing}}
            /\ DOMAIN hearing # {},
         \/ UNCHANGED request /\ upstream[1].type # "plan.request"
         \/ /\ upstream[1].type = "plan.request"
            /\ request' = [t \in Turns |-> IF t \in upstream[1].of THEN "dispatching" ELSE request[t]]
  PROVE  VoiceInductive'
<1> DEFINE new == {hearing[k] : k \in DOMAIN hearing}
<1>1. /\ Len(upstream) \in Nat \ {0} /\ upstream \in Seq(UpstreamMessages)
      /\ upstream' \in Seq(UpstreamMessages)
      /\ Len(upstream') = Len(upstream) - 1
      /\ DOMAIN upstream = 1..Len(upstream) /\ DOMAIN upstream' = 1..(Len(upstream) - 1)
      /\ \A j \in 1..(Len(upstream) - 1) : upstream'[j] = upstream[j + 1]
  BY HeadTailProperties, EmptySeq DEF VoiceInductive, SessionPart
<1>2. /\ \A j \in DOMAIN upstream' : j + 1 \in DOMAIN upstream /\ upstream'[j] = upstream[j + 1]
      /\ \A j \in DOMAIN upstream : j # 1 => j - 1 \in DOMAIN upstream' /\ upstream'[j - 1] = upstream[j]
  BY <1>1
<1>3. UNCHANGED <<turn, mics, capturing, recorded, discarded>> BY DEF BrowserKept
<1>4. CapturePart' /\ (overtaken => overtaken') BY ShowingKeeps
<1>5. ASSUME NEW t \in Turns
      PROVE  /\ StillHeard(t)' => StillHeard(t)
             /\ \A i : EndedAt(i)' /\ HeardAt(i, t)' => EndedAt(i + 1) /\ HeardAt(i + 1, t)
  BY <1>1, HeadTaken
<1>6. \A t \in new : t \in 1..turn /\ HeardAt(1, t)
  <2>1. \A k \in DOMAIN hearing : hearing[k] \in 1..turn
    BY ElementOfSeq DEF VoiceInductive, SessionPart
  <2>2. QED BY <1>1, <2>1, HeardFirst
<1>7. items' = items \/ (EndedAt(1) /\ items' = items \cup {new} /\ new # {})
  BY <1>1 DEF EndedAt
<1>8. /\ request' \in [Turns -> RequestStates]
      /\ \A t \in Turns : \/ request'[t] = request[t] /\ ~(upstream[1].type = "plan.request" /\ t \in upstream[1].of)
                          \/ /\ upstream[1].type = "plan.request" /\ t \in upstream[1].of
                             /\ request'[t] = "dispatching"
  BY DEF VoiceInductive, SessionPart, RequestStates
<1> HIDE DEF new
<1>9. SessionPart'
  <2>1. UpstreamMessages' = UpstreamMessages BY <1>3 DEF UpstreamMessages
  <2>2. items' \subseteq SUBSET (1..turn) /\ {} \notin items'
    BY <1>6, <1>7 DEF VoiceInductive, SessionPart
  <2>3. \A i \in DOMAIN upstream' : upstream'[i].type = "audio" => \E t \in 1..turn : upstream'[i].of = {t}
    <3>1. \A i \in DOMAIN upstream : upstream[i].type = "audio" => \E t \in 1..turn : upstream[i].of = {t}
      BY DEF VoiceInductive, SessionPart
    <3>2. QED BY <1>2, <3>1
  <2>4. QED BY <1>1, <1>3, <1>8, <2>1, <2>2, <2>3 DEF VoiceInductive, SessionPart
<1>10. ASSUME NEW t \in Turns, Committed(t)' PROVE Committed(t)
  <2>1. CASE \E i \in DOMAIN upstream' : EndedAt(i)' /\ HeardAt(i, t)'
    BY <1>2, <1>5, <2>1 DEF Committed
  <2>2. CASE \E item \in items' : t \in item
    <3>1. CASE \E item \in items : t \in item BY <3>1 DEF Committed
    <3>2. CASE EndedAt(1) /\ t \in new
      BY <1>1, <1>6, <3>2 DEF Committed, EndedAt
    <3>3. QED BY <1>7, <2>2, <3>1, <3>2
  <2>3. CASE \E i \in DOMAIN upstream' : upstream'[i].type = "plan.request" /\ t \in upstream'[i].of
    BY <1>2, <2>3 DEF Committed
  <2>4. CASE request'[t] # "none"
    <3>1. 1 \in DOMAIN upstream BY <1>1
    <3>2. QED BY <1>8, <2>4, <3>1 DEF Committed
  <2>5. QED BY <1>10, <2>1, <2>2, <2>3, <2>4 DEF Committed
<1>11. CommitPart' BY <1>3, <1>5, <1>10 DEF VoiceInductive, CommitPart
<1>12. SinglePart'
  <2> SUFFICES ASSUME ~overtaken' PROVE
        /\ \A t \in Turns : StillHeard(t)' => t = turn'
        /\ \A i \in DOMAIN upstream' : EndedAt(i)' =>
             \A s, t \in Turns : HeardAt(i, s)' /\ HeardAt(i, t)' => s = t
        /\ \A item \in items' : \A s, t \in item : s = t
    BY DEF SinglePart
  <2>1. /\ \A t \in Turns : StillHeard(t) => t = turn
        /\ \A i \in DOMAIN upstream : EndedAt(i) =>
             \A s, t \in Turns : HeardAt(i, s) /\ HeardAt(i, t) => s = t
        /\ \A item \in items : \A s, t \in item : s = t
    BY <1>4 DEF VoiceInductive, SinglePart
  <2>2. \A s, t \in new : EndedAt(1) => s = t
    <3>1. new \subseteq Turns BY <1>6 DEF VoiceInductive, SessionPart
    <3>2. 1 \in DOMAIN upstream BY <1>1
    <3>3. QED BY <1>6, <2>1, <3>1, <3>2
  <2>3. \A item \in items' : \A s, t \in item : s = t BY <1>7, <2>1, <2>2
  <2>4. QED BY <1>2, <1>3, <1>5, <2>1, <2>3
<1>13. NoRequestVanishes'
  <2>1. ASSUME NEW t \in Turns, request'[t] = "sent" PROVE t \in InFlight'
    <3>1. request[t] = "sent" /\ ~(upstream[1].type = "plan.request" /\ t \in upstream[1].of)
      BY <1>8, <2>1
    <3>2. t \in InFlight BY <3>1 DEF VoiceInductive, NoRequestVanishes
    <3>3. PICK i \in DOMAIN upstream : upstream[i].type = "plan.request" /\ t \in upstream[i].of
      BY <3>2, InFlightMessages
    <3>4. i # 1 BY <3>1, <3>3
    <3>5. i - 1 \in DOMAIN upstream' /\ upstream'[i - 1] = upstream[i] BY <1>2, <3>3, <3>4
    <3>6. QED BY <3>3, <3>5, InFlightMessages
  <2>2. QED BY <2>1 DEF NoRequestVanishes
<1>14. QED BY <1>4, <1>9, <1>11, <1>12, <1>13 DEF VoiceInductive

LEMMA ReceiveKeeps ==
  ASSUME VoiceInductive, Receive
  PROVE  VoiceInductive'
<1> DEFINE m == upstream[1]
<1>1. /\ socket = "open" /\ upstream # <<>> /\ BrowserKept /\ upstream \in Seq(UpstreamMessages)
      /\ TakeAudio(m) \/ TakeEnd(m) \/ TakeClear(m) \/ TakeRequest(m)
      /\ Head(upstream) = m
  BY DEF Receive, VoiceInductive, SessionPart
<1>2. /\ hearing \in Seq(1..turn) /\ buffered = Len(hearing) /\ Len(hearing) \in Nat
      /\ DOMAIN hearing = 1..Len(hearing) /\ <<>> \in Seq(1..turn) /\ Len(<<>>) = 0
      /\ DOMAIN <<>> = {}
  BY DEF VoiceInductive, SessionPart
<1>3. CASE CloseWithError("refused")
  BY <1>1, <1>3, SessionEndKeeps DEF CloseWithError
<1>4. CASE TakeAudio(m) /\ ~CloseWithError("refused")
  <2>1. /\ m.type = "audio" /\ upstream' = Tail(upstream) /\ buffered' = buffered + 1
        /\ hearing' = hearing \o <<CHOOSE t \in m.of : TRUE>>
        /\ UNCHANGED <<socket, phase, overtaken, items, request>>
    BY <1>4 DEF TakeAudio, Consumed
  <2>2. 1 \in DOMAIN upstream BY <1>1
  <2>3. PICK u \in 1..turn : m.of = {u}
    BY <2>1, <2>2 DEF VoiceInductive, SessionPart
  <2>4. (CHOOSE t \in m.of : TRUE) = u BY <2>3
  <2>5. hearing' = Append(hearing, u) BY <1>2, <2>1, <2>4
  <2>6. /\ hearing' \in Seq(1..turn) /\ Len(hearing') = Len(hearing) + 1
        /\ \A k \in DOMAIN hearing' : hearing'[k] = u \/ (k \in DOMAIN hearing /\ hearing'[k] = hearing[k])
    BY <1>2, <2>5, AppendProperties
  <2>7. ~Empties(m) BY <2>1 DEF Empties
  <2>8. \A t \in Turns : (\E k \in DOMAIN hearing' : hearing'[k] = t) =>
           /\ ~Empties(upstream[1])
           /\ \/ \E k \in DOMAIN hearing : hearing[k] = t
              \/ upstream[1].type = "audio" /\ t \in upstream[1].of
    BY <2>1, <2>3, <2>6, <2>7
  <2>9. buffered' = Len(hearing') BY <1>2, <2>1, <2>6
  <2>10. QED BY <1>1, <2>1, <2>6, <2>8, <2>9, TakingKeeps
<1>5. CASE TakeEnd(m) /\ ~CloseWithError("refused")
  <2>1. /\ m.type = "audio.end" /\ upstream' = Tail(upstream) /\ buffered' = 0 /\ hearing' = <<>>
        /\ UNCHANGED <<socket, request>>
        /\ Shows("error") \/ UNCHANGED <<phase, overtaken>>
        /\ \/ UNCHANGED items
           \/ buffered >= MinAudio /\ items' = items \cup {{hearing[i] : i \in DOMAIN hearing}}
    <3>1. CASE buffered < MinAudio
      BY <1>5, <3>1 DEF TakeEnd, Consumed, ClearBuffer
    <3>2. CASE ~(buffered < MinAudio)
      BY <1>2, <1>5, <3>2 DEF TakeEnd, Consumed, ClearBuffer
    <3>3. QED BY <3>1, <3>2
  <2>2. buffered >= MinAudio => DOMAIN hearing # {} BY <1>2
  <2>3. \A t : ~\E k \in DOMAIN hearing' : hearing'[k] = t BY <1>2, <2>1
  <2>4. QED BY <1>1, <1>2, <2>1, <2>2, <2>3, TakingKeeps
<1>6. CASE TakeClear(m) /\ ~CloseWithError("refused")
  <2>1. /\ m.type \in {"session.cancel", "barge_in", "audio.start"} /\ upstream' = Tail(upstream)
        /\ UNCHANGED <<socket, request, phase, overtaken, items>>
        /\ \/ buffered' = 0 /\ hearing' = <<>>
           \/ buffered = 0 /\ UNCHANGED <<hearing, buffered>>
    BY <1>6 DEF TakeClear, Consumed, ClearBuffer
  <2>2. hearing' = <<>> /\ buffered' = 0 BY <1>2, <2>1, EmptySeq
  <2>3. \A t : ~\E k \in DOMAIN hearing' : hearing'[k] = t BY <1>2, <2>2
  <2>4. m.type # "plan.request" BY <2>1
  <2>5. QED BY <1>1, <1>2, <2>1, <2>2, <2>3, <2>4, TakingKeeps
<1>7. CASE TakeRequest(m)
  <2>1. /\ m.type = "plan.request" /\ upstream' = Tail(upstream)
        /\ UNCHANGED <<socket, phase, overtaken, items, hearing, buffered>>
        /\ request' = [t \in Turns |-> IF t \in m.of THEN "dispatching" ELSE request[t]]
    BY <1>7 DEF TakeRequest, Consumed
  <2>2. ~Empties(m) BY <2>1 DEF Empties
  <2>3. QED BY <1>1, <1>2, <2>1, <2>2, TakingKeeps
<1>8. QED BY <1>1, <1>3, <1>4, <1>5, <1>6, <1>7

(* Messages sent by the browser and by an answer.                            *)
LEMMA SendsMessages ==
  ASSUME NEW ms, Sends(ms)
  PROVE  /\ socket = "open" => upstream' = upstream \o ms
         /\ socket # "open" => upstream' = upstream
BY DEF Sends

LEMMA TranscriptKeeps ==
  ASSUME VoiceInductive, NEW item, Transcript(item)
  PROVE  VoiceInductive'
<1>1. /\ item \in items /\ items' = items \ {item} /\ Shows("planning") /\ BrowserKept
      /\ UNCHANGED <<socket, buffered, hearing, turn, mics, capturing, recorded, discarded>>
      /\ \/ UNCHANGED <<upstream, request>>
         \/ /\ Sends(<<Msg("plan.request", item)>>)
            /\ request' = [t \in Turns |-> IF t \in item THEN "sent" ELSE request[t]]
  BY DEF Transcript, BrowserKept
<1>2. socket = "open" /\ item \subseteq 1..turn /\ upstream \in Seq(UpstreamMessages)
  BY <1>1 DEF VoiceInductive, SessionPart
<1>3. CapturePart' /\ (overtaken => overtaken') BY <1>1, ShowingKeeps
<1>4. CASE UNCHANGED <<upstream, request>>
  <2>1. \A i, t : (HeardAt(i, t)' <=> HeardAt(i, t)) /\ (StillHeard(t)' <=> StillHeard(t))
                  /\ (EndedAt(i)' <=> EndedAt(i))
    BY <1>1, <1>4, SameStream
  <2>2. \A t \in Turns : Committed(t)' => Committed(t) BY <1>1, <1>4, <2>1 DEF Committed
  <2>3. SessionPart' BY <1>1, <1>4 DEF VoiceInductive, SessionPart, UpstreamMessages
  <2>4. CommitPart' BY <1>1, <2>1, <2>2 DEF VoiceInductive, CommitPart
  <2>5. SinglePart' BY <1>1, <1>3, <1>4, <2>1 DEF VoiceInductive, SinglePart
  <2>6. NoRequestVanishes' BY <1>1, <1>4 DEF VoiceInductive, NoRequestVanishes, InFlight
  <2>7. QED BY <1>3, <2>3, <2>4, <2>5, <2>6 DEF VoiceInductive
<1>5. CASE /\ Sends(<<Msg("plan.request", item)>>)
           /\ request' = [t \in Turns |-> IF t \in item THEN "sent" ELSE request[t]]
  <2> DEFINE m == Msg("plan.request", item)
  <2>1. m \in UpstreamMessages /\ ~Empties(m) /\ m.type = "plan.request" /\ m.of = item
    BY <1>2 DEF Msg, UpstreamMessages, Empties
  <2>2. upstream' = upstream \o <<m>> BY <1>2, <1>5, SendsMessages
  <2>3. <<m>> \in Seq(UpstreamMessages) /\ Len(<<m>>) = 1 /\ <<m>>[1] = m BY <2>1
  <2> HIDE DEF m
  <2>4. /\ upstream' \in Seq(UpstreamMessages)
        /\ DOMAIN upstream \subseteq DOMAIN upstream'
        /\ \A i \in DOMAIN upstream : upstream'[i] = upstream[i]
        /\ Len(upstream) + 1 \in DOMAIN upstream' /\ upstream'[Len(upstream) + 1] = m
        /\ \A i \in DOMAIN upstream' : i \in DOMAIN upstream \/ i = Len(upstream) + 1
    BY <1>2, <2>2, <2>3, Longer
  <2>5. ASSUME NEW t \in Turns
        PROVE  /\ StillHeard(t)' => StillHeard(t)
               /\ \A i : EndedAt(i)' /\ HeardAt(i, t)' => EndedAt(i) /\ HeardAt(i, t)
    BY <1>1, <1>2, <2>1, <2>2, OtherSent
  <2>6. /\ request' \in [Turns -> RequestStates]
        /\ \A t \in Turns : request'[t] = IF t \in item THEN "sent" ELSE request[t]
    BY <1>5 DEF VoiceInductive, SessionPart, RequestStates
  <2>7. ASSUME NEW t \in Turns, Committed(t)' PROVE Committed(t)
    <3>1. CASE \E i \in DOMAIN upstream' : EndedAt(i)' /\ HeardAt(i, t)'
      BY <2>5, <3>1 DEF Committed, EndedAt
    <3>2. CASE \E it \in items' : t \in it BY <1>1, <3>2 DEF Committed
    <3>3. CASE \E i \in DOMAIN upstream' : upstream'[i].type = "plan.request" /\ t \in upstream'[i].of
      BY <1>1, <2>1, <2>4, <3>3 DEF Committed
    <3>4. CASE request'[t] # "none" BY <1>1, <2>6, <3>4 DEF Committed
    <3>5. QED BY <2>7, <3>1, <3>2, <3>3, <3>4 DEF Committed
  <2>8. SessionPart'
    <3>1. UpstreamMessages' = UpstreamMessages BY <1>1 DEF UpstreamMessages
    <3>2. \A i \in DOMAIN upstream' : upstream'[i].type = "audio" => \E t \in 1..turn : upstream'[i].of = {t}
      <4>1. \A i \in DOMAIN upstream : upstream[i].type = "audio" => \E t \in 1..turn : upstream[i].of = {t}
        BY DEF VoiceInductive, SessionPart
      <4>2. QED BY <2>1, <2>4, <4>1
    <3>3. QED BY <1>1, <1>2, <2>4, <2>6, <3>1, <3>2 DEF VoiceInductive, SessionPart
  <2>9. CommitPart' BY <1>1, <2>5, <2>7 DEF VoiceInductive, CommitPart
  <2>10. SinglePart'
    <3>1. \A i : EndedAt(i)' => i \in DOMAIN upstream /\ EndedAt(i) BY <2>1, <2>4 DEF EndedAt
    <3>2. QED BY <1>1, <1>3, <2>5, <3>1 DEF VoiceInductive, SinglePart
  <2>11. NoRequestVanishes'
    <3>1. ASSUME NEW t \in Turns, request'[t] = "sent" PROVE t \in InFlight'
      <4>1. CASE t \in item BY <2>1, <2>4, <4>1, InFlightMessages
      <4>2. CASE t \notin item
        <5>1. t \in InFlight BY <2>6, <3>1, <4>2 DEF VoiceInductive, NoRequestVanishes
        <5>2. QED BY <2>4, <5>1, InFlightMessages
      <4>3. QED BY <4>1, <4>2
    <3>2. QED BY <1>1, <1>2, <3>1 DEF NoRequestVanishes
  <2>12. QED BY <1>3, <2>8, <2>9, <2>10, <2>11 DEF VoiceInductive
<1>6. QED BY <1>1, <1>4, <1>5

(* The user                                                                  *)

LEMMA HeardIsTyped ==
  ASSUME VoiceInductive, NEW i, NEW t, HeardAt(i, t)
  PROVE  t \in 1..turn /\ socket = "open"
<1>1. \A k \in DOMAIN hearing : hearing[k] \in 1..turn
  BY ElementOfSeq DEF VoiceInductive, SessionPart
<1>2. \A j \in DOMAIN upstream : upstream[j].type = "audio" => upstream[j].of \subseteq 1..turn
  BY DEF VoiceInductive, SessionPart
<1>3. socket = "open" \/ (upstream = <<>> /\ hearing = <<>>)
  BY DEF VoiceInductive, SessionPart
<1>4. DOMAIN <<>> = {} OBVIOUS
<1>5. QED BY <1>1, <1>2, <1>3, <1>4 DEF HeardAt

LEMMA SendChunkKeeps ==
  ASSUME VoiceInductive, NEW u \in Turns, SendChunk(u)
  PROVE  VoiceInductive'
<1> DEFINE m == Msg("audio", {u})
<1>1. /\ u \in mics /\ capturing /\ upstream' = upstream \o <<m>>
      /\ recorded' = IF recorded < MinAudio THEN recorded + 1 ELSE recorded
      /\ UNCHANGED <<phase, turn, mics, capturing, timers, discarded, overtaken, socket, buffered,
                     hearing, items, request>>
  BY SendsMessages DEF SendChunk
<1>2. u \in 1..turn /\ upstream \in Seq(UpstreamMessages) /\ socket = "open"
  BY <1>1 DEF VoiceInductive, SessionPart, CapturePart, SendChunk
<1>3. m \in UpstreamMessages /\ ~Empties(m) /\ m.type = "audio" /\ m.of = {u}
  BY <1>2 DEF Msg, UpstreamMessages, Empties
<1>4. <<m>> \in Seq(UpstreamMessages) /\ Len(<<m>>) = 1 /\ <<m>>[1] = m BY <1>3
<1> HIDE DEF m
<1>5. /\ upstream' \in Seq(UpstreamMessages)
      /\ DOMAIN upstream \subseteq DOMAIN upstream'
      /\ \A i \in DOMAIN upstream : upstream'[i] = upstream[i]
      /\ Len(upstream) + 1 \in DOMAIN upstream' /\ upstream'[Len(upstream) + 1] = m
      /\ \A i \in DOMAIN upstream' : i \in DOMAIN upstream \/ i = Len(upstream) + 1
  BY <1>1, <1>2, <1>4, Longer
<1>6. ASSUME NEW t \in Turns
      PROVE  /\ StillHeard(t)' => StillHeard(t) \/ t = u
             /\ \A i : EndedAt(i)' /\ HeardAt(i, t)' => EndedAt(i) /\ HeardAt(i, t)
  <2>1. UNCHANGED hearing BY <1>1
  <2>2. upstream' = upstream \o <<m>> BY <1>1
  <2>3. /\ StillHeard(t)' => StillHeard(t) \/ (m.type = "audio" /\ t \in m.of)
        /\ \A i : EndedAt(i)' /\ HeardAt(i, t)' => EndedAt(i) /\ HeardAt(i, t)
    BY <1>2, <1>3, <2>1, <2>2, OtherSent
  <2>4. QED BY <1>3, <2>3
<1>7. \A i : EndedAt(i)' => i \in DOMAIN upstream /\ EndedAt(i) BY <1>3, <1>5 DEF EndedAt
<1>8. ASSUME NEW t \in Turns, Committed(t)' PROVE Committed(t)
  <2>1. \A i \in DOMAIN upstream' : upstream'[i].type = "plan.request" => i \in DOMAIN upstream
                                                                   /\ upstream'[i] = upstream[i]
    BY <1>3, <1>5
  <2>2. QED BY <1>1, <1>6, <1>7, <1>8, <2>1 DEF Committed
<1>9. SessionPart'
  <2>1. UpstreamMessages' = UpstreamMessages BY <1>1 DEF UpstreamMessages
  <2>2. \A i \in DOMAIN upstream' : upstream'[i].type = "audio" => \E t \in 1..turn : upstream'[i].of = {t}
    <3>1. \A i \in DOMAIN upstream : upstream[i].type = "audio" => \E t \in 1..turn : upstream[i].of = {t}
      BY DEF VoiceInductive, SessionPart
    <3>2. QED BY <1>2, <1>3, <1>5, <3>1
  <2>3. recorded' \in Nat BY <1>1 DEF VoiceInductive, SessionPart
  <2>4. /\ turn \in 0..MaxTurns
        /\ hearing \in Seq(1..turn) /\ buffered = Len(hearing)
        /\ items \subseteq SUBSET (1..turn) /\ {} \notin items
        /\ request \in [Turns -> RequestStates]
    BY DEF VoiceInductive, SessionPart
  <2>5. QED BY <1>1, <1>2, <1>5, <2>1, <2>2, <2>3, <2>4 DEF SessionPart
<1>10. CapturePart' BY <1>1 DEF VoiceInductive, CapturePart
<1>11. CommitPart' BY <1>1, <1>6, <1>8 DEF VoiceInductive, CommitPart, CapturePart
<1>12. SinglePart' BY <1>1, <1>6, <1>7 DEF VoiceInductive, SinglePart, CapturePart
<1>13. NoRequestVanishes'
  <2>1. \A t : t \in InFlight => t \in InFlight' BY <1>5, InFlightMessages
  <2>2. QED BY <1>1, <2>1 DEF VoiceInductive, NoRequestVanishes
<1>14. QED BY <1>9, <1>10, <1>11, <1>12, <1>13 DEF VoiceInductive

LEMMA SeqGrows ==
  ASSUME NEW S, NEW T, S \subseteq T, NEW q \in Seq(S)
  PROVE  q \in Seq(T)
<1>1. Len(q) \in Nat /\ q = [i \in 1..Len(q) |-> q[i]] OBVIOUS
<1>2. \A i \in 1..Len(q) : q[i] \in T BY ElementOfSeq
<1>3. QED BY <1>1, <1>2, IsASeq

(* Control messages, sent or not.                                            *)
LEMMA ControlsKeep ==
  ASSUME VoiceInductive, NEW ms \in Seq(UpstreamMessages'), ms # <<>>,
         \A j \in 1..Len(ms) : Empties(ms[j]), Sends(ms),
         turn <= turn', turn' \in Nat,
         UNCHANGED <<socket, hearing, items, request>>
  PROVE  /\ upstream' \in Seq(UpstreamMessages')
         /\ \A i \in DOMAIN upstream' : upstream'[i].type = "audio" => \E t \in 1..turn : upstream'[i].of = {t}
         /\ socket = "none" => upstream' = <<>>
         /\ \A t \in Turns : ~StillHeard(t)'
         /\ \A t \in Turns : Committed(t)' => Committed(t) \/ (StillHeard(t) /\ ms[1].type = "audio.end")
         /\ \A i \in DOMAIN upstream', t \in Turns : EndedAt(i)' /\ HeardAt(i, t)' =>
              \/ EndedAt(i) /\ HeardAt(i, t)
              \/ i \notin DOMAIN upstream /\ StillHeard(t) /\ ms[1].type = "audio.end"
         /\ NoRequestVanishes'
<1>1. /\ upstream \in Seq(UpstreamMessages) /\ turn \in Nat
      /\ socket = "open" \/ (socket = "none" /\ upstream = <<>>)
      /\ \A i \in DOMAIN upstream : upstream[i].type = "audio" => \E t \in 1..turn : upstream[i].of = {t}
  <2>1. upstream \in Seq(UpstreamMessages) /\ turn \in 0..MaxTurns
        /\ socket \in {"open", "none"} /\ (socket = "none" => upstream = <<>>)
    BY DEF VoiceInductive, SessionPart
  <2>2. \A i \in DOMAIN upstream : upstream[i].type = "audio" => \E t \in 1..turn : upstream[i].of = {t}
    BY DEF VoiceInductive, SessionPart
  <2>3. QED BY <2>1, <2>2
<1>2. upstream \in Seq(UpstreamMessages')
  <2>1. 1..turn \subseteq 1..turn' BY <1>1
  <2>2. UpstreamMessages \subseteq UpstreamMessages' BY <2>1 DEF UpstreamMessages
  <2>3. QED BY <1>1, <2>2, SeqGrows
<1>3. CASE socket = "open"
  <2>1. upstream' = upstream \o ms BY <1>3, SendsMessages
  <2>2. /\ upstream' \in Seq(UpstreamMessages')
        /\ Len(upstream) \in Nat
        /\ DOMAIN upstream \subseteq DOMAIN upstream'
        /\ \A i \in DOMAIN upstream : upstream'[i] = upstream[i]
        /\ \A j \in 1..Len(ms) : upstream'[Len(upstream) + j] = ms[j]
        /\ \A i \in DOMAIN upstream' : i \in DOMAIN upstream \/ \E j \in 1..Len(ms) : i = Len(upstream) + j
    BY <1>2, <2>1, Longer
  <2>3. \A i \in DOMAIN upstream' : upstream'[i].type \in {"audio", "plan.request"} =>
          i \in DOMAIN upstream /\ upstream'[i] = upstream[i]
    BY <2>2 DEF Empties
  <2>4. ASSUME NEW t \in Turns
        PROVE  /\ ~StillHeard(t)'
               /\ \A i : EndedAt(i)' /\ HeardAt(i, t)' =>
                    \/ EndedAt(i) /\ HeardAt(i, t)
                    \/ i \notin DOMAIN upstream /\ StillHeard(t) /\ ms[1].type = "audio.end"
    BY <1>2, <2>1, ControlsSent
  <2>5. ASSUME NEW t \in Turns, Committed(t)'
        PROVE  Committed(t) \/ (StillHeard(t) /\ ms[1].type = "audio.end")
    <3>1. CASE \E i \in DOMAIN upstream' : EndedAt(i)' /\ HeardAt(i, t)'
      BY <2>4, <3>1 DEF Committed, EndedAt
    <3>2. CASE (\E item \in items : t \in item) \/ request[t] # "none" BY <3>2 DEF Committed
    <3>3. CASE \E i \in DOMAIN upstream' : upstream'[i].type = "plan.request" /\ t \in upstream'[i].of
      BY <2>3, <3>3 DEF Committed
    <3>4. QED BY <2>5, <3>1, <3>2, <3>3 DEF Committed
  <2>6. NoRequestVanishes'
    <3>1. \A t : t \in InFlight => t \in InFlight' BY <2>2, InFlightMessages
    <3>2. QED BY <3>1 DEF VoiceInductive, NoRequestVanishes
  <2>7. \A i \in DOMAIN upstream' : upstream'[i].type = "audio" => \E t \in 1..turn : upstream'[i].of = {t}
    BY <1>1, <2>3
  <2>8. QED BY <1>3, <2>2, <2>4, <2>5, <2>6, <2>7
<1>4. CASE socket = "none"
  <2>1. upstream' = upstream /\ UNCHANGED <<upstream, hearing>>
    <3>1. socket # "open" BY <1>4
    <3>2. QED BY <3>1, SendsMessages
  <2>2. \A i, t : (HeardAt(i, t)' <=> HeardAt(i, t)) /\ (StillHeard(t)' <=> StillHeard(t))
                  /\ (EndedAt(i)' <=> EndedAt(i))
    BY <2>1, SameStream
  <2>3. \A i, t : ~HeardAt(i, t) /\ ~StillHeard(t) BY <1>4, HeardIsTyped DEF StillHeard
  <2>4. \A t \in Turns : Committed(t)' => Committed(t) BY <2>1, <2>2 DEF Committed
  <2>5. NoRequestVanishes' BY <2>1 DEF VoiceInductive, NoRequestVanishes, InFlight
  <2>6. QED BY <1>1, <1>2, <1>4, <2>1, <2>2, <2>3, <2>4, <2>5
<1>5. QED BY <1>1, <1>3, <1>4

LEMMA StartListeningKeeps ==
  ASSUME VoiceInductive, StartListening
  PROVE  VoiceInductive'
<1> DEFINE ms == <<Control("barge_in"), Control("audio.start")>>
<1>1. /\ phase # "listening" /\ turn' = turn + 1 /\ turn \in 0..MaxTurns /\ turn < MaxTurns
      /\ mics' = mics \cup {turn'} /\ capturing' = TRUE /\ recorded' = 0
      /\ timers' = timers \cup {turn'} /\ phase' = "listening" /\ Sends(ms)
      /\ UNCHANGED <<discarded, overtaken, socket, buffered, hearing, items, request>>
  BY DEF StartListening, VoiceInductive, SessionPart
<1>2. turn' \in 1..MaxTurns /\ turn' \in Turns /\ turn <= turn' /\ turn' \in Nat /\ turn' \notin 1..turn
      /\ 1..turn \subseteq 1..turn' /\ turn' \in 1..turn'
  BY <1>1
<1>3. /\ ms \in Seq(UpstreamMessages') /\ ms # <<>> /\ Len(ms) = 2
      /\ \A j \in 1..Len(ms) : Empties(ms[j])
      /\ ms[1].type # "audio.end"
  BY DEF Control, Msg, UpstreamMessages, Empties
<1> HIDE DEF ms
<1>4. /\ upstream' \in Seq(UpstreamMessages')
      /\ \A i \in DOMAIN upstream' : upstream'[i].type = "audio" => \E t \in 1..turn : upstream'[i].of = {t}
      /\ socket = "none" => upstream' = <<>>
      /\ \A t \in Turns : ~StillHeard(t)'
      /\ \A t \in Turns : Committed(t)' => Committed(t) \/ (StillHeard(t) /\ ms[1].type = "audio.end")
      /\ \A i \in DOMAIN upstream', t \in Turns : EndedAt(i)' /\ HeardAt(i, t)' =>
           \/ EndedAt(i) /\ HeardAt(i, t)
           \/ i \notin DOMAIN upstream /\ StillHeard(t) /\ ms[1].type = "audio.end"
      /\ NoRequestVanishes'
  <2>1. UNCHANGED <<socket, hearing, items, request>> BY <1>1
  <2>2. QED BY <1>1, <1>2, <1>3, <2>1, ControlsKeep
<1>5. SessionPart'
  <2>1. /\ hearing \in Seq(1..turn) /\ buffered = Len(hearing)
        /\ items \subseteq SUBSET (1..turn) /\ {} \notin items
        /\ request \in [Turns -> RequestStates] /\ socket \in {"open", "none"}
        /\ socket = "none" => hearing = <<>> /\ items = {}
    BY DEF VoiceInductive, SessionPart
  <2>2. hearing' \in Seq(1..turn')
    BY <1>1, <1>2, <2>1, SeqGrows
  <2>3. items' \subseteq SUBSET (1..turn') BY <1>1, <1>2, <2>1
  <2>4. \A i \in DOMAIN upstream' : upstream'[i].type = "audio" => \E t \in 1..turn' : upstream'[i].of = {t}
    BY <1>2, <1>4
  <2>5. turn' \in 0..MaxTurns /\ recorded' \in Nat BY <1>1, <1>2
  <2>6. /\ buffered' = Len(hearing') /\ {} \notin items' /\ request' \in [Turns -> RequestStates]
        /\ socket' \in {"open", "none"}
        /\ socket' = "none" => upstream' = <<>> /\ hearing' = <<>> /\ items' = {}
    BY <1>1, <1>4, <2>1
  <2>7. QED BY <1>4, <2>2, <2>3, <2>4, <2>5, <2>6 DEF SessionPart
<1>6. CapturePart'
  <2>1. mics \cup timers \cup discarded \subseteq 1..turn BY DEF VoiceInductive, CapturePart
  <2>2. ~overtaken => mics = {} BY <1>1 DEF VoiceInductive, CapturePart
  <2>3. mics' \cup timers' \cup discarded' \subseteq 1..turn' BY <1>1, <1>2, <2>1
  <2>4. mics' \cap discarded' = {} BY <1>1, <1>2, <2>1 DEF VoiceInductive, CapturePart
  <2>5. QED BY <1>1, <2>2, <2>3, <2>4 DEF VoiceInductive, CapturePart
<1>7. \A t \in Turns : Committed(t)' => Committed(t) BY <1>3, <1>4
<1>8. CommitPart'
  <2>1. \A t \in Turns : Committed(t) => t <= turn /\ t \notin discarded
    BY DEF VoiceInductive, CommitPart
  <2>2. ~(turn' <= turn) BY <1>1
  <2>3. \A t \in Turns : Committed(t)' => t <= turn' BY <1>1, <1>7, <2>1
  <2>4. \A t \in Turns : Committed(t)' => t # turn' BY <1>7, <2>1, <2>2
  <2>5. QED BY <1>1, <1>4, <1>7, <2>1, <2>3, <2>4 DEF CommitPart
<1>9. SinglePart'
  <2>1. ASSUME NEW i \in DOMAIN upstream', NEW t \in Turns, EndedAt(i)', HeardAt(i, t)'
        PROVE  i \in DOMAIN upstream /\ EndedAt(i) /\ HeardAt(i, t)
    BY <1>3, <1>4, <2>1 DEF EndedAt
  <2>2. QED BY <1>1, <1>4, <2>1 DEF VoiceInductive, SinglePart
<1>10. QED BY <1>4, <1>5, <1>6, <1>8, <1>9 DEF VoiceInductive

(* The end of a recording: it is discarded, or was long enough.              *)
LEMMA StopKeeps ==
  ASSUME VoiceInductive, NEW ms \in Seq(UpstreamMessages), ms # <<>>,
         \A j \in 1..Len(ms) : Empties(ms[j]), StopCapture(ms), UNCHANGED overtaken,
         phase' # "listening", timers' \subseteq timers,
         \/ discarded' = discarded \cup {turn} /\ turn \in Turns /\ ~Committed(turn)
            /\ ms[1].type # "audio.end"
         \/ UNCHANGED discarded /\ recorded >= MinAudio
  PROVE  VoiceInductive'
<1>1. /\ capturing' = FALSE /\ mics' = {} /\ Sends(ms) /\ turn \in 0..MaxTurns
      /\ UNCHANGED <<turn, recorded, socket, buffered, hearing, items, request>>
  BY DEF StopCapture, VoiceInductive, SessionPart
<1>2. UpstreamMessages' = UpstreamMessages BY <1>1 DEF UpstreamMessages
<1>3. /\ upstream' \in Seq(UpstreamMessages')
      /\ \A i \in DOMAIN upstream' : upstream'[i].type = "audio" => \E t \in 1..turn : upstream'[i].of = {t}
      /\ socket = "none" => upstream' = <<>>
      /\ \A t \in Turns : ~StillHeard(t)'
      /\ \A t \in Turns : Committed(t)' => Committed(t) \/ (StillHeard(t) /\ ms[1].type = "audio.end")
      /\ \A i \in DOMAIN upstream', t \in Turns : EndedAt(i)' /\ HeardAt(i, t)' =>
           \/ EndedAt(i) /\ HeardAt(i, t)
           \/ i \notin DOMAIN upstream /\ StillHeard(t) /\ ms[1].type = "audio.end"
      /\ NoRequestVanishes'
  <2>1. turn <= turn' /\ turn' \in Nat BY <1>1
  <2>2. UNCHANGED <<socket, hearing, items, request>> BY <1>1
  <2>3. ms \in Seq(UpstreamMessages') BY <1>2
  <2>4. QED BY <1>1, <2>1, <2>2, <2>3, ControlsKeep
<1>4. SessionPart'
  <2>1. /\ hearing \in Seq(1..turn) /\ buffered = Len(hearing)
        /\ items \subseteq SUBSET (1..turn) /\ {} \notin items /\ recorded \in Nat
        /\ request \in [Turns -> RequestStates] /\ socket \in {"open", "none"}
        /\ socket = "none" => hearing = <<>> /\ items = {}
    BY DEF VoiceInductive, SessionPart
  <2>2. QED BY <1>1, <1>3, <2>1 DEF SessionPart
<1>5. CapturePart'
  <2>1. mics \cup timers \cup discarded \subseteq 1..turn /\ overtaken \in BOOLEAN
    BY DEF VoiceInductive, CapturePart
  <2>2. turn \in Turns => turn \in 1..turn BY <1>1
  <2>3. mics' \cup timers' \cup discarded' \subseteq 1..turn' BY <1>1, <2>1, <2>2
  <2>4. QED BY <1>1, <2>1, <2>3 DEF CapturePart
<1>6. ASSUME NEW t \in Turns, StillHeard(t) PROVE t \in 1..turn /\ t \notin discarded
  BY <1>6, HeardIsTyped DEF StillHeard, VoiceInductive, CommitPart
<1>7. CommitPart'
  <2>1. ASSUME NEW t \in Turns, Committed(t)'
        PROVE  t <= turn /\ t \notin discarded' /\ (t = turn => recorded >= MinAudio)
    <3>1. CASE Committed(t)
      BY <3>1 DEF VoiceInductive, CommitPart
    <3>2. CASE StillHeard(t) /\ ms[1].type = "audio.end"
      <4>1. t <= turn /\ t \notin discarded BY <1>1, <1>6, <3>2
      <4>2. QED BY <3>2, <4>1
    <3>3. QED BY <1>3, <2>1, <3>1, <3>2
  <2>2. QED BY <1>1, <1>3, <2>1 DEF CommitPart
<1>8. SinglePart'
  <2> SUFFICES ASSUME ~overtaken PROVE
        \A i \in DOMAIN upstream' : EndedAt(i)' =>
             \A s, t \in Turns : HeardAt(i, s)' /\ HeardAt(i, t)' => s = t
    BY <1>1, <1>3 DEF VoiceInductive, SinglePart
  <2>1. /\ \A t \in Turns : StillHeard(t) => t = turn
        /\ \A i \in DOMAIN upstream : EndedAt(i) =>
             \A s, t \in Turns : HeardAt(i, s) /\ HeardAt(i, t) => s = t
    BY DEF VoiceInductive, SinglePart
  <2>2. \A i : EndedAt(i) => i \in DOMAIN upstream BY DEF EndedAt
  <2>3. QED BY <1>3, <2>1, <2>2
<1>9. QED BY <1>3, <1>4, <1>5, <1>7, <1>8 DEF VoiceInductive

LEMMA UserStopKeeps ==
  ASSUME VoiceInductive, FinishListening \/ CancelListening \/ \E t \in Turns : MaxDuration(t)
  PROVE  VoiceInductive'
<1> DEFINE cancel == <<Control("session.cancel")>>
           cancel2 == <<Control("session.cancel"), Control("barge_in")>>
           end == <<Control("audio.end")>>
<1>1. /\ cancel \in Seq(UpstreamMessages) /\ cancel # <<>> /\ cancel[1].type # "audio.end"
      /\ \A j \in 1..Len(cancel) : Empties(cancel[j])
  BY DEF Control, Msg, UpstreamMessages, Empties
<1>2. /\ cancel2 \in Seq(UpstreamMessages) /\ cancel2 # <<>> /\ cancel2[1].type # "audio.end"
      /\ \A j \in 1..Len(cancel2) : Empties(cancel2[j])
  BY DEF Control, Msg, UpstreamMessages, Empties
<1>3. /\ end \in Seq(UpstreamMessages) /\ end # <<>>
      /\ \A j \in 1..Len(end) : Empties(end[j])
  BY DEF Control, Msg, UpstreamMessages, Empties
<1>4. /\ turn \in 0..MaxTurns /\ recorded \in Nat /\ timers \subseteq 1..turn /\ mics \subseteq 1..turn
      /\ phase = "listening" => turn \in mics /\ capturing
      /\ \A t \in Turns : Committed(t) => (t = turn => ~capturing /\ recorded >= MinAudio)
  BY DEF VoiceInductive, SessionPart, CapturePart, CommitPart
<1>5. phase = "listening" => turn \in Turns /\ ~Committed(turn) BY <1>4
<1> HIDE DEF cancel, cancel2, end
<1>6. CASE CancelListening
  <2>1. /\ phase = "listening" /\ StopCapture(cancel2) /\ timers' = timers \ {turn}
        /\ discarded' = discarded \cup {turn} /\ phase' = "idle" /\ UNCHANGED overtaken
    BY <1>6 DEF CancelListening, Discard, cancel2
  <2>2. timers' \subseteq timers /\ phase' # "listening" BY <2>1
  <2>3. QED BY <1>2, <1>5, <2>1, <2>2, StopKeeps
<1>7. CASE FinishListening
  <2>1. CASE DiscardShort
    <3>1. /\ phase = "listening" /\ StopCapture(cancel) /\ timers' = timers \ {turn}
          /\ discarded' = discarded \cup {turn} /\ phase' = "error" /\ UNCHANGED overtaken
      BY <1>7, <2>1 DEF FinishListening, DiscardShort, Discard, cancel
    <3>2. timers' \subseteq timers /\ phase' # "listening" BY <3>1
    <3>3. QED BY <1>1, <1>5, <3>1, <3>2, StopKeeps
  <2>2. CASE ~DiscardShort
    <3>1. /\ recorded >= MinAudio /\ StopCapture(end) /\ timers' = timers \ {turn}
          /\ phase' = "transcribing" /\ UNCHANGED <<discarded, overtaken>>
      BY <1>7, <2>2 DEF FinishListening, end
    <3>2. timers' \subseteq timers /\ phase' # "listening" BY <3>1
    <3>3. QED BY <1>3, <3>1, <3>2, StopKeeps
  <2>3. QED BY <2>1, <2>2
<1>8. ASSUME NEW t \in Turns, MaxDuration(t) PROVE VoiceInductive'
  <2>1. t \in timers /\ timers' \subseteq timers /\ UNCHANGED overtaken BY <1>8 DEF MaxDuration
  <2>2. turn \in Turns BY <1>4, <2>1
  <2>3. CASE recorded < MinAudio
    <3>1. /\ StopCapture(cancel) /\ discarded' = discarded \cup {turn} /\ phase' # "listening"
      BY <1>8, <2>3 DEF MaxDuration, cancel
    <3>2. ~Committed(turn) BY <1>4, <2>2, <2>3
    <3>3. QED BY <1>1, <2>1, <2>2, <3>1, <3>2, StopKeeps
  <2>4. CASE ~(recorded < MinAudio)
    <3>1. /\ StopCapture(end) /\ UNCHANGED discarded /\ phase' # "listening"
      BY <1>8, <2>4 DEF MaxDuration, end
    <3>2. recorded >= MinAudio BY <1>4, <2>4
    <3>3. QED BY <1>3, <2>1, <3>1, <3>2, StopKeeps
  <2>5. QED BY <2>3, <2>4
<1>9. QED BY <1>6, <1>7, <1>8

LEMMA VoiceKeeps ==
  ASSUME VoiceInductive, VoiceNext \/ UNCHANGED voiceVars
  PROVE  VoiceInductive'
<1>1. CASE ConnectionLost
  BY <1>1, SessionEndKeeps DEF ConnectionLost, BrowserKept
<1>2. CASE Browser
  BY <1>2, StartListeningKeeps, UserStopKeeps, SendChunkKeeps, ServiceKeeps DEF Browser, User
<1>3. CASE Network /\ ~ConnectionLost BY <1>3, ServiceKeeps DEF Network
<1>4. CASE Transcribing BY <1>4, TranscriptKeeps DEF Transcribing
<1>5. ASSUME NEW t \in Turns, Served(t) \/ SpeakFails(t) PROVE VoiceInductive'
  BY <1>5, ServiceKeeps, DispatchRefusedKeeps DEF Served, Dispatching
<1>6. QED BY <1>1, <1>2, <1>3, <1>4, <1>5, ReceiveKeeps, ServiceKeeps DEF VoiceNext

HIDE DEF VoiceInductive

-----------------------------------------------------------------------------
(* The control plane: a step belongs to one part                             *)

LEMMA ShowsAnswered == DashboardInv => DashboardShowsAnswered
BY DEF DashboardInv, DashboardShowsAnswered

LEMMA AccessHolds == AccessInductive => AccessInv
BY DEF AccessInductive, AccessInv, ChallengesAreSpent, ConnectionsAreOwn

LEMMA OnePartSteps ==
  ASSUME [Next]_vars
  PROVE  /\ DashboardNext \/ UNCHANGED dashboardVars
         /\ DeploymentsNext \/ UNCHANGED deployVars
         /\ AccessNext \/ UNCHANGED accessVars
         /\ VoiceNext \/ UNCHANGED voiceVars
BY DEF Next, vars

(* Every dashboard shows the changes that were answered before it was asked  *)
(* for, for any number of changes and of concurrent readers                  *)
(* (hot_cache.py:72-79, web/app.py:241-295).                                 *)
THEOREM DashboardsAreCurrent == Spec => []DashboardShowsAnswered
<1>1. Init => DashboardInv
  BY DashboardInitially DEF Init
<1>2. DashboardInv /\ [Next]_vars => DashboardInv'
  BY OnePartSteps, DashboardKeeps
<1>3. QED BY <1>1, <1>2, ShowsAnswered, PTL DEF Spec

(* A deploy or rollback is dispatched once, as confirmed, and recorded only  *)
(* after it was (web/app.py:906-954, callbacks.py:372-447).                  *)
THEOREM DeploysAreConfirmedOnce == Spec => []DeploymentInv
<1>1. Init => DeploymentsInductive
  BY DeploymentsInitially DEF Init
<1>2. DeploymentsInductive /\ [Next]_vars => DeploymentsInductive'
  BY OnePartSteps, DeploymentsKeep
<1>3. QED BY <1>1, <1>2, DeploymentsHold, PTL DEF Spec

(* A challenge has one effect at most, and a connection belongs to who began *)
(* it (passkey_auth.py:524-545, github_oauth.py).                            *)
THEOREM ChallengesActOnce == Spec => []AccessInv
<1>1. Init => AccessInductive
  BY AccessInitially DEF Init
<1>2. AccessInductive /\ [Next]_vars => AccessInductive'
  BY OnePartSteps, AccessKeeps
<1>3. QED BY <1>1, <1>2, AccessHolds, PTL DEF Spec

(* A transcript is of one recording unless an answer took the phase from an  *)
(* open one, what was discarded is never sent, and no request vanishes, for  *)
(* any number of recordings, chunks and faults (useVoiceSession.ts:465,      *)
(* gateway.py:225, web/app.py:1114).                                         *)
THEOREM RecordingsStayApart == Spec => []VoiceInv
<1>1. Init => VoiceInductive
  BY VoiceInitially DEF Init
<1>2. VoiceInductive /\ [Next]_vars => VoiceInductive'
  BY OnePartSteps, VoiceKeeps
<1>3. QED BY <1>1, <1>2, VoiceHolds, PTL DEF Spec
=============================================================================
