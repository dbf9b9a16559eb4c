------------------------------ MODULE WebAccess ------------------------------
(***************************************************************************)
(* How a browser gets and loses its session, and how a user connects GitHub: *)
(* one-time challenges and OAuth states in Redis, session keys with a TTL,   *)
(* the rate limiter in front of the public endpoints.  Signatures and        *)
(* initData are external: a verification succeeds or fails.                  *)
(***************************************************************************)
EXTENDS Naturals, FiniteSets

CONSTANTS
  Users,        (* allowlisted operators and owners                           *)
  Owners,       (* the owners: only they register and use passkeys            *)
  Challenges,   (* challenge ids and OAuth states, used once each             *)
  Sessions,     (* browser session tokens, used once each                     *)
  AccessCalls,  (* HTTP requests that may be handled at the same time         *)
  Limit,        (* requests a subject may make per window                     *)
  Window        (* length of the window in ticks                              *)

Kinds == {"register", "authenticate", "oauth"}
NoOne == "no_one"
NoId == "no_id"

ASSUME WebAccessAssumption ==
  /\ Owners \subseteq Users /\ NoOne \notin Users /\ NoId \notin Challenges \cup Sessions
  /\ Limit \in Nat \ {0} /\ Window \in Nat \ {0}

VARIABLES
  kind,        (* [Challenges -> kind it was issued for, NoId: not issued]    *)
  owner,       (* [Challenges -> userId stored with it, NoOne for a login]    *)
  stored,      (* challenges in Redis                                         *)
  effects,     (* [Challenges -> credentials, sessions or connections from it] *)
  session,     (* [Sessions -> its user, NoOne: not in Redis]                 *)
  ended,       (* sessions that were logged out                               *)
  github,      (* [Users -> OAuth state its token came from, NoId: none]      *)
  call,        (* [AccessCalls -> control point, challenge, user]             *)
  hits,        (* count of the limiter's key, up to Limit + 1; 0: no key      *)
  ttl          (* ticks until the key expires                                 *)

accessVars == <<kind, owner, stored, effects, session, ended, github, call, hits, ttl>>
challenges == <<kind, owner, stored, effects>>
sessions == <<session, ended>>
limiter == <<hits, ttl>>

Waiting == [at |-> "idle", id |-> NoId, user |-> NoOne]

AccessTypeOK ==
  /\ kind \in [Challenges -> Kinds \cup {NoId}]
  /\ owner \in [Challenges -> Users \cup {NoOne}]
  /\ stored \in SUBSET Challenges
  /\ effects \in [Challenges -> Nat]
  /\ session \in [Sessions -> Users \cup {NoOne}]
  /\ ended \in SUBSET Sessions
  /\ github \in [Users -> Challenges \cup {NoId}]
  /\ call \in [AccessCalls -> [at : {"idle", "register", "mark", "mint", "exchange", "listing"},
                               id : Challenges \cup {NoId}, user : Users \cup {NoOne}]]
  /\ hits \in 0..(Limit + 1) /\ ttl \in 0..Window

AccessInit ==
  /\ kind = [c \in Challenges |-> NoId] /\ owner = [c \in Challenges |-> NoOne]
  /\ stored = {} /\ effects = [c \in Challenges |-> 0]
  /\ session = [s \in Sessions |-> NoOne] /\ ended = {}
  /\ github = [u \in Users |-> NoId]
  /\ call = [c \in AccessCalls |-> Waiting]
  /\ hits = 0 /\ ttl = 0

-----------------------------------------------------------------------------
(* RedisRateLimiter.check *)

Counted == IF hits <= Limit THEN hits + 1 ELSE hits
ArmedAlways == Window
(* the script sets the expiry with the first hit of a window only *)
Armed == IF hits = 0 THEN Window ELSE ttl
Hit == hits' = Counted /\ ttl' = Armed
Passes == hits < Limit

(* a public endpoint refuses with 429 *)
Refuse ==
  /\ ~Passes
  /\ Hit
  /\ UNCHANGED <<challenges, sessions, github, call>>

Tick ==
  /\ ttl > 0
  /\ ttl' = ttl - 1
  /\ hits' = IF ttl = 1 THEN 0 ELSE hits
  /\ UNCHANGED <<challenges, sessions, github, call>>

-----------------------------------------------------------------------------
(* challenges and OAuth states *)

(* _store_challenge and begin_oauth *)
StoreChallenge(c, k, u) ==
  /\ kind[c] = NoId
  /\ kind' = [kind EXCEPT ![c] = k]
  /\ owner' = [owner EXCEPT ![c] = u]
  /\ stored' = stored \cup {c}
  /\ UNCHANGED <<effects, sessions, github, call>>

(* an owner in the Mini App *)
RegistrationOptions(c, u) == u \in Owners /\ StoreChallenge(c, "register", u) /\ UNCHANGED limiter
AuthenticationOptions(c) == Passes /\ Hit /\ StoreChallenge(c, "authenticate", NoOne)
BeginOAuth(c, u) == StoreChallenge(c, "oauth", u) /\ UNCHANGED limiter

ChallengeExpires(c) ==
  /\ c \in stored
  /\ stored' = stored \ {c}
  /\ UNCHANGED <<kind, owner, effects, sessions, github, call, limiter>>

LeftThere(c) == stored
(* GETDEL: whoever comes first has the challenge, good or bad *)
Taken(c) == stored \ {c}

CallAt(r, at, c, u) == call' = [call EXCEPT ![r] = [at |-> at, id |-> c, user |-> u]]

(* _consume_challenge (OAuth states have keys of their own), then kind and user   *)
(* are compared                                                              *)
Consume(r, c, k, u, next) ==
  /\ call[r] = Waiting
  /\ c \in stored
  /\ stored' = Taken(c)
  /\ IF kind[c] = k /\ owner[c] = u THEN CallAt(r, next, c, u) ELSE UNCHANGED call
  /\ UNCHANGED <<kind, owner, effects, sessions, github>>

RegistrationVerify(r, c, u) ==
  /\ u \in Owners /\ kind[c] # "oauth"
  /\ Consume(r, c, "register", u, "register")
  /\ UNCHANGED limiter

(* the passkey decides whose login it is *)
AuthenticationVerify(r, c) ==
  kind[c] # "oauth" /\ Passes /\ Hit /\ Consume(r, c, "authenticate", NoOne, "mark")

(* complete_oauth takes the user from the state *)
OAuthCallback(r, c) ==
  /\ kind[c] = "oauth"
  /\ Consume(r, c, "oauth", owner[c], "exchange")
  /\ UNCHANGED limiter

Happened(c) == effects' = [effects EXCEPT ![c] = @ + 1]
Done(r) == call' = [call EXCEPT ![r] = Waiting]

(* the verification or the exchange fails: the challenge is gone *)
Fail(r) ==
  /\ call[r].at \in {"register", "mark", "exchange"}
  /\ Done(r)
  /\ UNCHANGED <<challenges, sessions, github, limiter>>

(* PasskeyRepository.create *)
Register(r) ==
  /\ call[r].at = "register"
  /\ Happened(call[r].id)
  /\ Done(r)
  /\ UNCHANGED <<kind, owner, stored, sessions, github, limiter>>

(* an owner's passkey, the signature holds: PasskeyRepository.mark_used *)
MarkUsed(r, u) ==
  /\ u \in Owners /\ call[r].at = "mark"
  /\ CallAt(r, "mint", call[r].id, u)
  /\ UNCHANGED <<challenges, sessions, github, limiter>>

(* GitHub answered: GithubTokenRepository.upsert *)
Connect(r) ==
  /\ call[r].at = "exchange"
  /\ Happened(call[r].id)
  /\ github' = [github EXCEPT ![call[r].user] = call[r].id]
  /\ Done(r)
  /\ UNCHANGED <<kind, owner, stored, sessions, limiter>>

Disconnect(u) ==
  /\ github[u] # NoId
  /\ github' = [github EXCEPT ![u] = NoId]
  /\ UNCHANGED <<challenges, sessions, call, limiter>>

(* list_repositories has read the token *)
ListRepositories(r, u) ==
  /\ call[r] = Waiting /\ github[u] # NoId
  /\ CallAt(r, "listing", github[u], u)
  /\ UNCHANGED <<challenges, sessions, github, limiter>>

(* 401 deletes the user's token, also one that was stored after the read;    *)
(* any other answer changes nothing                                          *)
Listed(r) ==
  /\ call[r].at = "listing"
  /\ \/ UNCHANGED github
     \/ github' = [github EXCEPT ![call[r].user] = NoId]
  /\ Done(r)
  /\ UNCHANGED <<challenges, sessions, limiter>>

-----------------------------------------------------------------------------
(* sessions *)

(* _mint_browser_session under a new token *)
Minted(s, u) == session' = [session EXCEPT ![s] = u] /\ UNCHANGED ended
Fresh(s) == session[s] = NoOne /\ s \notin ended

PasskeyLogin(r, s) ==
  /\ call[r].at = "mint" /\ Fresh(s)
  /\ Minted(s, call[r].user)
  /\ Happened(call[r].id)
  /\ Done(r)
  /\ UNCHANGED <<kind, owner, stored, github, limiter>>

(* telegram_login *)
TelegramLogin(s, u) ==
  /\ Passes /\ Hit
  /\ Fresh(s) /\ Minted(s, u)
  /\ UNCHANGED <<challenges, github, call>>

(* mint_session_from_tma *)
MintFromMiniApp(s, u) ==
  /\ Fresh(s) /\ Minted(s, u)
  /\ UNCHANGED <<challenges, github, call, limiter>>

(* logout deletes the key, or its TTL does; the token is not issued again *)
Logout(s) ==
  /\ session[s] # NoOne
  /\ session' = [session EXCEPT ![s] = NoOne]
  /\ ended' = ended \cup {s}
  /\ UNCHANGED <<challenges, github, call, limiter>>

AccessNext ==
  \/ Refuse
  \/ Tick
  \/ \E c \in Challenges :
       \/ \E u \in Users : RegistrationOptions(c, u) \/ BeginOAuth(c, u)
       \/ AuthenticationOptions(c)
       \/ ChallengeExpires(c)
  \/ \E r \in AccessCalls :
       \/ \E c \in Challenges, u \in Users : RegistrationVerify(r, c, u)
       \/ \E c \in Challenges : AuthenticationVerify(r, c) \/ OAuthCallback(r, c)
       \/ Fail(r)
       \/ Register(r)
       \/ Connect(r)
       \/ Listed(r)
       \/ \E u \in Users : MarkUsed(r, u) \/ ListRepositories(r, u)
       \/ \E s \in Sessions : PasskeyLogin(r, s)
  \/ \E u \in Users : Disconnect(u)
  \/ \E s \in Sessions, u \in Users : TelegramLogin(s, u) \/ MintFromMiniApp(s, u)
  \/ \E s \in Sessions : Logout(s)

(* A challenge or OAuth state leads to one credential, session or connection *)
(* at most, however often its request is repeated (passkey_auth.py:524-545). *)
ChallengesAreSpent == \A c \in Challenges : effects[c] <= 1

(* A GitHub token is connected for the user who began that OAuth flow.       *)
ConnectionsAreOwn == \A u \in Users : github[u] # NoId => owner[github[u]] = u

AccessInv == ChallengesAreSpent /\ ConnectionsAreOwn

(* A subject that is refused is let in again, even if it keeps asking: hits  *)
(* after the first do not prolong the window (rate_limit.py:11-17).          *)
RefusalEnds == hits > Limit ~> hits = 0
=============================================================================
