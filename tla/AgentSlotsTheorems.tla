------------------------- MODULE AgentSlotsTheorems --------------------------
(****************************************************************************)
(* Proofs, for any number of handlers, repositories, agents, prompts and    *)
(* crashes.  The statements of a program have ascending ranks, and what a   *)
(* statement puts in place of the rest has lower ranks than it has: that is *)
(* how a proof knows what a process still has to do.                        *)
(*                                                                          *)
(* ReferencesInv: rows, programs and objects in memory refer to what there  *)
(* is.  Roles: which process executes which statements.  AloneInv: what a   *)
(* transaction nobody interleaves with has found.  OrderlyInv: the rows and *)
(* the switch in progress while switches come one after the other.          *)
(****************************************************************************)
EXTENDS AgentSlots, FiniteSetTheorems, SequenceTheorems, WellFoundedInduction, TLAPS

-----------------------------------------------------------------------------
(* Programs *)

Statements ==
  ({"activate_begin", "activate", "read"} \X SlotIds)
    \cup ({"repo_on", "upsert_active", "upsert"} \X Repos)
    \cup ({"dispatch", "launch"} \X Jobs)
    \cup ({"count", "repos_off", "unlink", "reread", "resolve", "require", "bind",
           "insert_begin", "insert", "ensure", "rebind", "load", "link", "reactivate",
           "archive", "probe", "delete_check", "delete_begin", "delete"} \X {Nothing})

(* In a program every statement has a higher rank than those before it; what *)
(* a statement puts in its place has lower ranks than it has.                *)
Rank(x) ==
  CASE x[1] = "count" -> 0
    [] x[1] \in {"repos_off", "unlink"} -> 1
    [] x[1] \in {"repo_on", "upsert_active", "upsert"} -> 2
    [] x[1] = "reread" -> 3
    [] x[1] = "resolve" -> 4
    [] x[1] = "require" -> 5
    [] x[1] = "bind" -> 6
    [] x[1] = "activate_begin" -> 7
    [] x[1] = "activate" -> 8
    [] x[1] = "insert_begin" -> 9
    [] x[1] = "insert" -> 10
    [] x[1] = "ensure" -> 11
    [] x[1] = "rebind" -> 12
    [] x[1] = "load" -> 13
    [] x[1] \in {"dispatch", "launch"} -> 14
    [] x[1] = "link" -> 15
    [] x[1] = "reactivate" -> 16
    [] x[1] = "read" -> 17
    [] x[1] \in {"archive", "probe"} -> 18
    [] x[1] = "delete_check" -> 19
    [] x[1] = "delete_begin" -> 20
    [] x[1] = "delete" -> 21
    [] OTHER -> 22

(* Which statement may come before y *)
Turns(x) == x[1] \in {"repo_on", "upsert_active"}
Precedes(x, y) ==
  /\ y[1] # "unlink"
  /\ y[1] = "activate" => x = <<"activate_begin", y[2]>>
  /\ y[1] = "insert_begin" => x[1] \in {"resolve", "reread"}
  /\ y[1] = "insert" => x[1] = "insert_begin"
  /\ y[1] = "reactivate" => x[1] = "insert"
  /\ Turns(y) => x[1] = "repos_off"
  /\ y[1] = "reread" => x[1] = "repo_on"
  /\ y[1] = "require" => x[1] \in {"resolve", "reread"}
  /\ y[1] = "bind" => x[1] = "require"
  /\ y[1] = "delete" => x[1] = "delete_begin"

Program(p) ==
  /\ p \in Seq(Statements)
  /\ \A i, k \in 1..Len(p) : i < k => Rank(p[i]) < Rank(p[k])
  /\ \A i \in 1..Len(p) : i < Len(p) => Precedes(p[i], p[i + 1])

-----------------------------------------------------------------------------
(* Types and references *)

Has(c, names) == \E i \in DOMAIN prog[c] : prog[c][i][1] \in names

(* The repository in hand is a row, or one that the request is to insert *)
Stored(c) ==
  \/ theRepo[c] \in repos \cup {Nothing}
  \/ \E i \in DOMAIN prog[c] : prog[c][i] \in {<<"upsert", theRepo[c]>>, <<"upsert_active", theRepo[c]>>}

(* What a process holds and still has to do refers to rows and agents there are *)
Ref(c) ==
  /\ copy[c].repo \in repos \cup {Nothing}
  /\ copy[c].agent # Nothing => remote[copy[c].agent] # "absent"
  /\ prog[c] # <<>> => Stored(c)
  /\ \A i \in DOMAIN prog[c] : prog[c][i][1] = "repo_on" => prog[c][i][2] \in repos
  /\ At(c, "reactivate") => copy[c].id \in SlotIds
  /\ At(c, "unlink") => copy[c].agent # Nothing /\ remote[copy[c].agent] = "deleted"

Programs == prog \in [Procs -> Seq(Statements)] /\ \A c \in Procs : Program(prog[c])

Rows ==
  /\ slots \subseteq 1..created
  /\ \A s \in SlotIds : slotRepo[s] \in repos \cup {Nothing}
  /\ \A s \in SlotIds \ slots : slotAgent[s] = Nothing
  /\ \A s \in SlotIds : slotAgent[s] # Nothing => remote[slotAgent[s]] # "absent"

ReferencesInv == TypeOK /\ Programs /\ Rows /\ \A c \in Procs : Ref(c)

(* A process that nobody has interleaved with finds what its transaction saw *)
AloneInv ==
  \A c \in Procs : alone = c =>
    /\ At(c, "activate") \/ At(c, "insert") => snap[c] = slots
    /\ At(c, "activate") => Arg(c) \in slots
    /\ At(c, "repo_on") \/ At(c, "upsert_active") => activeRepos = {}

-----------------------------------------------------------------------------
(* Switches one after the other *)

Rebinds(c) == Has(c, {"rebind"})
Turning(c) == Has(c, {"repo_on", "upsert_active"})
Fits(s, r) == slotRepo[s] \in {Nothing, r}
Settled == \A s \in active : \A r \in activeRepos : Fits(s, r)
Chosen(c) == theRepo[c] = Nothing \/ activeRepos \subseteq {theRepo[c]}

(* How a sync of the active slot is reached *)
Follows(x, y, r) ==
  /\ y[1] = "rebind" => x[1] \in {"ensure", "insert"}
  /\ y[1] = "require" => x[1] = "reread"
  /\ y[1] = "ensure" => x[1] = "require" \/ (Turns(x) /\ x[2] = r)

(* What a process in progress has found and still has to do *)
Room(c) == Has(c, {"insert"}) /\ ~At(c, "count") => Cardinality(slots) < MaxSlots

Found(c) ==
  /\ At(c, "activate") => Arg(c) \in slots /\ snap[c] = slots
  /\ At(c, "insert") => snap[c] = slots
  /\ At(c, "delete") => /\ copy[c].id \in slots /\ slots # {copy[c].id}
                        /\ snap[c] = IF copy[c].id \in active THEN slots ELSE {}
  /\ At(c, "repo_on") \/ At(c, "upsert_active") => activeRepos = {}
  /\ At(c, "count") => ~Turning(c)
  /\ At(c, "require") \/ At(c, "bind") \/ At(c, "insert_begin") \/ At(c, "insert")
       \/ At(c, "rebind") \/ (At(c, "ensure") /\ Rebinds(c)) => Chosen(c)

Fitting(c) ==
  \A i \in DOMAIN prog[c] : Turns(prog[c][i]) =>
    Rebinds(c) \/ \A s \in active : Fits(s, prog[c][i][2])

Syncing(c) ==
  Rebinds(c) =>
    /\ c \in Handlers /\ ~At(c, "count") /\ ~Has(c, {"activate_begin", "activate"})
    /\ At(c, "reread") => activeRepos # {}
    /\ At(c, "require") => theRepo[c] # Nothing
    /\ At(c, "rebind") => active = {copy[c].id} /\ slotRepo[copy[c].id] = copy[c].repo
    /\ \A i \in DOMAIN prog[c] : i + 1 \in DOMAIN prog[c] =>
         Follows(prog[c][i], prog[c][i + 1], theRepo[c])

Place(c) == Room(c) /\ Found(c) /\ Fitting(c) /\ Syncing(c)

OneSwitch == \A c, d \in Procs : Switching(c) /\ Switching(d) => c = d
OneActive ==
  /\ Cardinality(slots) <= MaxSlots
  /\ slots # {} => \E s \in slots : active = {s}
  /\ \A q, r \in activeRepos : q = r
Calm == (\A c \in Procs : ~Rebinds(c) /\ ~Turning(c)) => Settled

Orderly == OneSwitch /\ OneActive /\ Calm /\ \A c \in Procs : Place(c)
OrderlyInv == ~overlapped => Orderly

-----------------------------------------------------------------------------
(* Lemmas about programs *)

LEMMA Pushed ==
  ASSUME NEW S, NEW p \in Seq(S), p # <<>>, NEW more \in Seq(S)
  PROVE  /\ more \o Tail(p) \in Seq(S)
         /\ Len(p) \in Nat /\ Len(p) > 0 /\ Len(more) \in Nat
         /\ Len(more \o Tail(p)) = Len(more) + Len(p) - 1
         /\ \A i \in 1..Len(more) : (more \o Tail(p))[i] = more[i]
         /\ \A i \in 2..Len(p) : (more \o Tail(p))[Len(more) + i - 1] = p[i]
         /\ \A j \in 1..Len(more \o Tail(p)) : j > Len(more) =>
              /\ j - Len(more) + 1 \in 2..Len(p)
              /\ (more \o Tail(p))[j] = p[j - Len(more) + 1]
<1>1. /\ Tail(p) \in Seq(S) /\ Len(Tail(p)) = Len(p) - 1
      /\ \A i \in 1..Len(Tail(p)) : Tail(p)[i] = p[i + 1]
  BY HeadTailProperties
<1>2. Len(p) \in Nat /\ Len(p) > 0 /\ Len(more) \in Nat
  BY EmptySeq, LenProperties
<1>3. /\ more \o Tail(p) \in Seq(S)
      /\ Len(more \o Tail(p)) = Len(more) + Len(Tail(p))
      /\ \A i \in 1..Len(more) + Len(Tail(p)) :
           (more \o Tail(p))[i] = IF i <= Len(more) THEN more[i] ELSE Tail(p)[i - Len(more)]
  BY <1>1, ConcatProperties
<1>4. QED BY <1>1, <1>2, <1>3

LEMMA RankIsNatural == ASSUME NEW x PROVE Rank(x) \in 0..22
BY DEF Rank

LEMMA ProgramPushed ==
  ASSUME NEW p, Program(p), p # <<>>, NEW more, Program(more),
         \A i \in 1..Len(more) : Rank(more[i]) < Rank(p[1]),
         (more # <<>> /\ Len(p) > 1) => Precedes(more[Len(more)], p[2])
  PROVE  Program(more \o Tail(p))
<1> DEFINE q == more \o Tail(p)
           m == Len(more)
<1>1. /\ q \in Seq(Statements)
      /\ Len(p) \in Nat /\ Len(p) > 0 /\ m \in Nat
      /\ Len(q) = m + Len(p) - 1
      /\ \A i \in 1..m : q[i] = more[i]
      /\ \A j \in 1..Len(q) : j > m => j - m + 1 \in 2..Len(p) /\ q[j] = p[j - m + 1]
  BY Pushed DEF Program
<1> HIDE DEF q, m
<1>2. ASSUME NEW i \in 1..Len(q), NEW k \in 1..Len(q), i < k
      PROVE  Rank(q[i]) < Rank(q[k])
  <2>1. CASE k <= m
    BY <1>1, <1>2, <2>1 DEF Program, m
  <2>2. CASE i <= m /\ k > m
    <3>1. q[k] = p[k - m + 1] /\ q[i] = more[i] /\ k - m + 1 \in 2..Len(p) BY <1>1, <2>2
    <3>2. PICK b \in 2..Len(p) : b = k - m + 1 BY <3>1
    <3>3. 1 \in 1..Len(p) /\ b \in 1..Len(p) /\ 1 < b BY <1>1
    <3>4. Rank(p[1]) < Rank(p[b]) BY <3>3 DEF Program
    <3>5. i \in 1..m BY <1>1, <2>2
    <3>6. Rank(more[i]) < Rank(p[1]) BY <3>5 DEF m
    <3>7. PICK x \in 0..22 : x = Rank(p[1]) BY RankIsNatural
    <3>8. PICK y \in 0..22 : y = Rank(more[i]) BY RankIsNatural
    <3>9. PICK z \in 0..22 : z = Rank(p[b]) BY RankIsNatural
    <3>10. y < x /\ x < z BY <3>4, <3>6, <3>7, <3>8, <3>9
    <3>11. y < z BY <3>10
    <3>12. Rank(more[i]) < Rank(p[b]) BY <3>11, <3>8, <3>9
    <3>13. QED BY <3>1, <3>2, <3>12
  <2>3. CASE i > m
    <3>1. q[k] = p[k - m + 1] /\ q[i] = p[i - m + 1] BY <1>1, <1>2, <2>3
    <3>2. k - m + 1 \in 1..Len(p) /\ i - m + 1 \in 1..Len(p) /\ i - m + 1 < k - m + 1
      BY <1>1, <1>2, <2>3
    <3>3. QED BY <3>1, <3>2 DEF Program
  <2>4. QED BY <1>1, <2>1, <2>2, <2>3
<1>3. ASSUME NEW i \in 1..Len(q), i < Len(q)
      PROVE  Precedes(q[i], q[i + 1])
  <2>1. CASE i + 1 <= m
    <3>1. i \in 1..m /\ i + 1 \in 1..m /\ i < m
      BY <1>1, <1>3, <2>1
    <3>2. QED BY <1>1, <3>1 DEF Program, m
  <2>2. CASE i = m
    <3>1. Len(p) > 1 /\ more # <<>> BY <1>1, <1>3, <2>2, EmptySeq DEF m
    <3>2. q[i] = more[Len(more)] BY <1>1, <2>2 DEF m
    <3>3. q[i + 1] = p[2] BY <1>1, <1>3, <2>2
    <3>4. QED BY <3>1, <3>2, <3>3
  <2>3. CASE i > m
    <3>1. q[i] = p[i - m + 1] /\ q[i + 1] = p[i - m + 1 + 1] BY <1>1, <1>3, <2>3
    <3>2. i - m + 1 \in 1..Len(p) /\ i - m + 1 < Len(p) BY <1>1, <1>3, <2>3
    <3>3. QED BY <3>1, <3>2 DEF Program
  <2>4. QED BY <1>1, <2>1, <2>2, <2>3
<1>4. QED BY <1>1, <1>2, <1>3 DEF Program, q

LEMMA Concat12 ==
  ASSUME NEW a, NEW b, NEW c
  PROVE  <<a>> \o <<b, c>> = <<a, b, c>>
<1> DEFINE S == {a, b, c}
<1>1. <<a>> \in Seq(S) /\ <<b, c>> \in Seq(S) /\ <<a, b, c>> \in Seq(S)
  OBVIOUS
<1>2. /\ <<a>> \o <<b, c>> \in Seq(S)
      /\ Len(<<a>> \o <<b, c>>) = 3
      /\ \A i \in 1..3 : (<<a>> \o <<b, c>>)[i] = <<a, b, c>>[i]
  BY <1>1, ConcatProperties
<1>3. QED BY <1>1, <1>2, SeqEqual

LEMMA Concat21 ==
  ASSUME NEW a, NEW b, NEW c
  PROVE  <<a, b>> \o <<c>> = <<a, b, c>>
<1> DEFINE S == {a, b, c}
<1>1. <<a, b>> \in Seq(S) /\ <<c>> \in Seq(S) /\ <<a, b, c>> \in Seq(S)
  OBVIOUS
<1>2. /\ <<a, b>> \o <<c>> \in Seq(S)
      /\ Len(<<a, b>> \o <<c>>) = 3
      /\ \A i \in 1..3 : (<<a, b>> \o <<c>>)[i] = <<a, b, c>>[i]
  BY <1>1, ConcatProperties
<1>3. QED BY <1>1, <1>2, SeqEqual

LEMMA Concat22 ==
  ASSUME NEW a, NEW b, NEW c, NEW d
  PROVE  <<a, b>> \o <<c, d>> = <<a, b, c, d>>
<1> DEFINE S == {a, b, c, d}
<1>1. <<a, b>> \in Seq(S) /\ <<c, d>> \in Seq(S) /\ <<a, b, c, d>> \in Seq(S)
  OBVIOUS
<1>2. /\ <<a, b>> \o <<c, d>> \in Seq(S)
      /\ Len(<<a, b>> \o <<c, d>>) = 4
      /\ \A i \in 1..4 : (<<a, b>> \o <<c, d>>)[i] = <<a, b, c, d>>[i]
  BY <1>1, ConcatProperties
<1>3. QED BY <1>1, <1>2, SeqEqual

LEMMA Concat41 ==
  ASSUME NEW a, NEW b, NEW c, NEW d, NEW e
  PROVE  <<a, b, c, d>> \o <<e>> = <<a, b, c, d, e>>
<1> DEFINE S == {a, b, c, d, e}
<1>1. <<a, b, c, d>> \in Seq(S) /\ <<e>> \in Seq(S) /\ <<a, b, c, d, e>> \in Seq(S)
  OBVIOUS
<1>2. /\ <<a, b, c, d>> \o <<e>> \in Seq(S)
      /\ Len(<<a, b, c, d>> \o <<e>>) = 5
      /\ \A i \in 1..5 : (<<a, b, c, d>> \o <<e>>)[i] = <<a, b, c, d, e>>[i]
  BY <1>1, ConcatProperties
<1>3. QED BY <1>1, <1>2, SeqEqual

LEMMA Concat42 ==
  ASSUME NEW a, NEW b, NEW c, NEW d, NEW e, NEW f
  PROVE  <<a, b, c, d>> \o <<e, f>> = <<a, b, c, d, e, f>>
<1> DEFINE S == {a, b, c, d, e, f}
<1>1. <<a, b, c, d>> \in Seq(S) /\ <<e, f>> \in Seq(S) /\ <<a, b, c, d, e, f>> \in Seq(S)
  OBVIOUS
<1>2. /\ <<a, b, c, d>> \o <<e, f>> \in Seq(S)
      /\ Len(<<a, b, c, d>> \o <<e, f>>) = 6
      /\ \A i \in 1..6 : (<<a, b, c, d>> \o <<e, f>>)[i] = <<a, b, c, d, e, f>>[i]
  BY <1>1, ConcatProperties
<1>3. QED BY <1>1, <1>2, SeqEqual

(* The programs a statement puts in its place *)
LEMMA NoProgram == Program(<<>>)
BY EmptySeq DEF Program

LEMMA SlotPrograms ==
  ASSUME NEW s \in SlotIds
  PROVE  /\ Program(SetActiveSlot(s))
         /\ Program(<<<<"read", s>>, Do("archive")>>)
         /\ Program(<<<<"read", s>>, Do("probe")>>)
         /\ Program(<<<<"read", s>>, Do("archive"), Do("delete_check"), Do("delete_begin"),
                      Do("delete")>>)
<1>1. Program(SetActiveSlot(s))
  BY DEF Program, SetActiveSlot, Statements, Rank, Precedes, Turns
<1>2. Program(<<<<"read", s>>, Do("archive")>>)
  BY DEF Program, Do, Statements, Rank, Precedes, Turns
<1>3. Program(<<<<"read", s>>, Do("probe")>>)
  BY DEF Program, Do, Statements, Rank, Precedes, Turns
<1>4. Program(<<<<"read", s>>, Do("archive"), Do("delete_check"), Do("delete_begin"),
                Do("delete")>>)
  BY SMTT(30) DEF Program, Do, Statements, Rank, Precedes, Turns
<1>5. QED BY <1>1, <1>2, <1>3, <1>4

LEMMA RepoPrograms ==
  ASSUME NEW r \in Repos, NEW make \in BOOLEAN
  PROVE  /\ Program(SetActiveRepo(r))
         /\ InsertRepo(r, make) \in {<<Do("repos_off"), <<"upsert_active", r>>>>, <<<<"upsert", r>>>>}
         /\ Program(<<Do("repos_off"), <<"upsert_active", r>>>>)
         /\ Program(<<<<"upsert", r>>>>)
<1>1. Program(SetActiveRepo(r))
  BY DEF Program, SetActiveRepo, Do, Statements, Rank, Precedes, Turns
<1>2. Program(<<Do("repos_off"), <<"upsert_active", r>>>>)
  BY DEF Program, Do, Statements, Rank, Precedes, Turns
<1>3. Program(<<<<"upsert", r>>>>)
  BY DEF Program, Do, Statements, Rank, Precedes, Turns
<1>4. QED BY <1>1, <1>2, <1>3 DEF InsertRepo

LEMMA Reselect ==
  ASSUME NEW r \in Repos
  PROVE  /\ SetActiveRepo(r) \o <<Do("reread")>> = <<Do("repos_off"), <<"repo_on", r>>, Do("reread")>>
         /\ Program(SetActiveRepo(r) \o <<Do("reread")>>)
<1>1. SetActiveRepo(r) \o <<Do("reread")>> = <<Do("repos_off"), <<"repo_on", r>>, Do("reread")>>
  BY Concat21 DEF SetActiveRepo
<1>2. Program(<<Do("repos_off"), <<"repo_on", r>>, Do("reread")>>)
  BY DEF Program, Do, Statements, Rank, Precedes, Turns
<1>3. QED BY <1>1, <1>2

LEMMA Creation ==
  /\ <<Do("resolve")>> \o CreateSlot = <<Do("resolve"), Do("insert_begin"), Do("insert")>>
  /\ Program(<<Do("resolve"), Do("insert_begin"), Do("insert")>>)
  /\ Program(<<Do("resolve"), Do("require"), Do("bind")>>)
  /\ Program(<<Do("unlink")>>)
<1>1. <<Do("resolve")>> \o CreateSlot = <<Do("resolve"), Do("insert_begin"), Do("insert")>>
  BY Concat12 DEF CreateSlot
<1>2. Program(<<Do("resolve"), Do("insert_begin"), Do("insert")>>)
  BY DEF Program, Do, Statements, Rank, Precedes, Turns
<1>3. Program(<<Do("resolve"), Do("require"), Do("bind")>>)
  BY DEF Program, Do, Statements, Rank, Precedes, Turns
<1>4. Program(<<Do("unlink")>>)
  BY DEF Program, Do, Statements, Rank, Precedes, Turns
<1>5. QED BY <1>1, <1>2, <1>3, <1>4

(* The programs of the operations *)
LEMMA NewAgentProgram ==
  /\ <<Do("count"), Do("resolve")>> \o CreateSlot
       = <<Do("count"), Do("resolve"), Do("insert_begin"), Do("insert")>>
  /\ Program(<<Do("count"), Do("resolve"), Do("insert_begin"), Do("insert")>>)
<1>1. <<Do("count"), Do("resolve")>> \o CreateSlot
        = <<Do("count"), Do("resolve"), Do("insert_begin"), Do("insert")>>
  BY Concat22 DEF CreateSlot
<1>2. Program(<<Do("count"), Do("resolve"), Do("insert_begin"), Do("insert")>>)
  BY SMTT(30) DEF Program, Do, Statements, Rank, Precedes, Turns
<1>3. QED BY <1>1, <1>2

LEMMA CreateAgentProgram ==
  /\ <<Do("count"), Do("resolve")>> \o CreateSlot \o <<Do("reactivate")>>
       = <<Do("count"), Do("resolve"), Do("insert_begin"), Do("insert"), Do("reactivate")>>
  /\ Program(<<Do("count"), Do("resolve"), Do("insert_begin"), Do("insert"), Do("reactivate")>>)
<1>1. <<Do("count"), Do("resolve")>> \o CreateSlot \o <<Do("reactivate")>>
        = <<Do("count"), Do("resolve"), Do("insert_begin"), Do("insert"), Do("reactivate")>>
  BY NewAgentProgram, Concat41
<1>2. Program(<<Do("count"), Do("resolve"), Do("insert_begin"), Do("insert"), Do("reactivate")>>)
  BY SMTT(30) DEF Program, Do, Statements, Rank, Precedes, Turns
<1>3. QED BY <1>1, <1>2

LEMMA SelectRepoProgram ==
  ASSUME NEW r \in Repos
  PROVE  /\ SetActiveRepo(r) \o <<Do("reread"), Do("require")>> \o SyncSlotRepo
              = <<Do("repos_off"), <<"repo_on", r>>, Do("reread"), Do("require"), Do("ensure"),
                  Do("rebind")>>
         /\ Program(<<Do("repos_off"), <<"repo_on", r>>, Do("reread"), Do("require"),
                      Do("ensure"), Do("rebind")>>)
<1>1. SetActiveRepo(r) \o <<Do("reread"), Do("require")>>
        = <<Do("repos_off"), <<"repo_on", r>>, Do("reread"), Do("require")>>
  BY Concat22 DEF SetActiveRepo
<1>2. SetActiveRepo(r) \o <<Do("reread"), Do("require")>> \o SyncSlotRepo
        = <<Do("repos_off"), <<"repo_on", r>>, Do("reread"), Do("require"), Do("ensure"),
            Do("rebind")>>
  <2>1. <<Do("repos_off"), <<"repo_on", r>>, Do("reread"), Do("require")>>
            \o <<Do("ensure"), Do("rebind")>>
          = <<Do("repos_off"), <<"repo_on", r>>, Do("reread"), Do("require"), Do("ensure"),
              Do("rebind")>>
    <3>1. PICK x : x = <<"repo_on", r>> OBVIOUS
    <3>2. <<Do("repos_off"), x, Do("reread"), Do("require")>> \o <<Do("ensure"), Do("rebind")>>
            = <<Do("repos_off"), x, Do("reread"), Do("require"), Do("ensure"), Do("rebind")>>
      BY Concat42
    <3>3. QED BY <3>1, <3>2
  <2>2. QED BY <1>1, <2>1 DEF SyncSlotRepo
<1>3. Program(<<Do("repos_off"), <<"repo_on", r>>, Do("reread"), Do("require"),
                Do("ensure"), Do("rebind")>>)
  BY SMTT(60) DEF Program, Do, Statements, Rank, Precedes, Turns
<1>4. QED BY <1>2, <1>3

LEMMA UpdateRepoProgram ==
  ASSUME NEW r \in Repos
  PROVE  /\ SetActiveRepo(r) \o SyncSlotRepo
              = <<Do("repos_off"), <<"repo_on", r>>, Do("ensure"), Do("rebind")>>
         /\ <<Do("repos_off"), <<"upsert_active", r>>>> \o SyncSlotRepo
              = <<Do("repos_off"), <<"upsert_active", r>>, Do("ensure"), Do("rebind")>>
         /\ Program(<<Do("repos_off"), <<"repo_on", r>>, Do("ensure"), Do("rebind")>>)
         /\ Program(<<Do("repos_off"), <<"upsert_active", r>>, Do("ensure"), Do("rebind")>>)
<1>1. SetActiveRepo(r) \o SyncSlotRepo
        = <<Do("repos_off"), <<"repo_on", r>>, Do("ensure"), Do("rebind")>>
  BY Concat22 DEF SetActiveRepo, SyncSlotRepo
<1>2. <<Do("repos_off"), <<"upsert_active", r>>>> \o SyncSlotRepo
        = <<Do("repos_off"), <<"upsert_active", r>>, Do("ensure"), Do("rebind")>>
  BY Concat22 DEF SyncSlotRepo
<1>3. Program(<<Do("repos_off"), <<"repo_on", r>>, Do("ensure"), Do("rebind")>>)
  BY SMTT(30) DEF Program, Do, Statements, Rank, Precedes, Turns
<1>4. Program(<<Do("repos_off"), <<"upsert_active", r>>, Do("ensure"), Do("rebind")>>)
  BY SMTT(30) DEF Program, Do, Statements, Rank, Precedes, Turns
<1>5. QED BY <1>1, <1>2, <1>3, <1>4

LEMMA PromptPrograms ==
  ASSUME NEW j \in Jobs
  PROVE  /\ RunContext \o <<<<"dispatch", j>>>> = <<Do("ensure"), Do("load"), <<"dispatch", j>>>>
         /\ RunContext \o <<<<"launch", j>>, Do("link")>>
              = <<Do("ensure"), Do("load"), <<"launch", j>>, Do("link")>>
         /\ Program(<<Do("ensure"), Do("load"), <<"dispatch", j>>>>)
         /\ Program(<<Do("ensure"), Do("load"), <<"launch", j>>, Do("link")>>)
<1>1. RunContext \o <<<<"dispatch", j>>>> = <<Do("ensure"), Do("load"), <<"dispatch", j>>>>
  BY Concat21 DEF RunContext
<1>2. RunContext \o <<<<"launch", j>>, Do("link")>>
        = <<Do("ensure"), Do("load"), <<"launch", j>>, Do("link")>>
  BY Concat22 DEF RunContext
<1>3. Program(<<Do("ensure"), Do("load"), <<"dispatch", j>>>>)
  BY SMTT(30) DEF Program, Do, Statements, Rank, Precedes, Turns
<1>4. Program(<<Do("ensure"), Do("load"), <<"launch", j>>, Do("link")>>)
  BY SMTT(30) DEF Program, Do, Statements, Rank, Precedes, Turns
<1>5. QED BY <1>1, <1>2, <1>3, <1>4

LEMMA PromptWebProgram ==
  ASSUME NEW j \in Jobs, NEW s \in SlotIds
  PROVE  /\ SetActiveSlot(s) \o RunContext \o <<<<"dispatch", j>>>>
              = <<<<"activate_begin", s>>, <<"activate", s>>, Do("ensure"), Do("load"),
                  <<"dispatch", j>>>>
         /\ Program(<<<<"activate_begin", s>>, <<"activate", s>>, Do("ensure"), Do("load"),
                      <<"dispatch", j>>>>)
<1>1. SetActiveSlot(s) \o RunContext
        = <<<<"activate_begin", s>>, <<"activate", s>>, Do("ensure"), Do("load")>>
  BY Concat22 DEF RunContext, SetActiveSlot
<1>2. SetActiveSlot(s) \o RunContext \o <<<<"dispatch", j>>>>
        = <<<<"activate_begin", s>>, <<"activate", s>>, Do("ensure"), Do("load"),
            <<"dispatch", j>>>>
  BY <1>1, Concat41
<1>3. Program(<<<<"activate_begin", s>>, <<"activate", s>>, Do("ensure"), Do("load"),
                <<"dispatch", j>>>>)
  BY SMTT(30) DEF Program, Do, Statements, Rank, Precedes, Turns
<1>4. QED BY <1>2, <1>3

-----------------------------------------------------------------------------
(* Steps of a program *)

(* One statement of c is executed, and more put in its place *)
Goes(c, more) ==
  /\ \A d \in Procs : d # c => prog'[d] = prog[d]
  /\ Len(prog[c]) \in Nat /\ Len(prog[c]) > 0 /\ Len(more) \in Nat
  /\ Len(prog'[c]) = Len(more) + Len(prog[c]) - 1
  /\ DOMAIN prog[c] = 1..Len(prog[c]) /\ DOMAIN prog'[c] = 1..Len(prog'[c])
  /\ \A i \in 1..Len(more) : prog'[c][i] = more[i]
  /\ \A i \in 2..Len(prog[c]) : prog'[c][Len(more) + i - 1] = prog[c][i]
  /\ \A j \in 1..Len(prog'[c]) : j > Len(more) =>
       /\ j - Len(more) + 1 \in 2..Len(prog[c])
       /\ prog'[c][j] = prog[c][j - Len(more) + 1]

LEMMA ThenGoes ==
  ASSUME Programs, NEW c \in Procs, ~Idle(c), NEW more, Program(more), Then(c, more),
         \A i \in 1..Len(more) : Rank(more[i]) < Rank(prog[c][1]),
         (more # <<>> /\ Len(prog[c]) > 1) => Precedes(more[Len(more)], prog[c][2])
  PROVE  Programs' /\ Goes(c, more)
<1>1. prog[c] \in Seq(Statements) /\ more \in Seq(Statements) /\ Program(prog[c]) /\ prog[c] # <<>>
  BY DEF Programs, Program, Idle
<1>2. prog' = [prog EXCEPT ![c] = more \o Tail(prog[c])]
  BY DEF Then, Programs
<1>3. prog'[c] = more \o Tail(prog[c]) /\ \A d \in Procs : d # c => prog'[d] = prog[d]
  BY <1>2 DEF Programs
<1>4. Program(prog'[c])
  BY <1>1, <1>3, ProgramPushed
<1>5. prog' \in [Procs -> Seq(Statements)]
  BY <1>2, <1>3, <1>4 DEF Programs, Program
<1>6. ASSUME NEW d \in Procs PROVE Program(prog[d])'
  BY <1>3, <1>4 DEF Programs
<1>7. Programs'
  BY <1>5, <1>6 DEF Programs
<1>8. DOMAIN prog[c] = 1..Len(prog[c]) /\ DOMAIN prog'[c] = 1..Len(prog'[c])
  <2>1. prog'[c] \in Seq(Statements) BY <1>4 DEF Program
  <2>2. QED BY <1>1, <2>1, LenProperties
<1>9. Goes(c, more)
  BY <1>1, <1>3, <1>8, Pushed DEF Goes
<1>10. QED BY <1>7, <1>9

LEMMA NextGoes ==
  ASSUME Programs, NEW c \in Procs, ~Idle(c), Next1(c)
  PROVE  Programs' /\ Goes(c, <<>>)
BY NoProgram, ThenGoes DEF Next1

LEMMA ReturnEnds ==
  ASSUME Programs, NEW c \in Procs, prog' = [prog EXCEPT ![c] = <<>>]
  PROVE  Programs' /\ prog'[c] = <<>> /\ \A d \in Procs : d # c => prog'[d] = prog[d]
<1>1. prog'[c] = <<>> /\ \A d \in Procs : d # c => prog'[d] = prog[d]
  BY DEF Programs
<1>2. prog' \in [Procs -> Seq(Statements)]
  BY <1>1, NoProgram DEF Programs, Program
<1>3. ASSUME NEW d \in Procs PROVE Program(prog[d])'
  BY <1>1, NoProgram DEF Programs
<1>4. QED BY <1>1, <1>2, <1>3 DEF Programs

LEMMA BeginStarts ==
  ASSUME Programs, NEW c \in Procs, NEW p, Program(p), prog' = [prog EXCEPT ![c] = p]
  PROVE  Programs' /\ prog'[c] = p /\ \A d \in Procs : d # c => prog'[d] = prog[d]
<1>1. prog'[c] = p /\ \A d \in Procs : d # c => prog'[d] = prog[d]
  BY DEF Programs
<1>2. prog' \in [Procs -> Seq(Statements)]
  BY <1>1 DEF Programs, Program
<1>3. ASSUME NEW d \in Procs PROVE Program(prog[d])'
  BY <1>1 DEF Programs
<1>4. QED BY <1>1, <1>2, <1>3 DEF Programs

(* What a statement refers to, by its first component *)
LEMMA Arguments ==
  ASSUME Programs, NEW c \in Procs, ~Idle(c)
  PROVE  /\ Len(prog[c]) \in Nat /\ Len(prog[c]) > 0 /\ DOMAIN prog[c] = 1..Len(prog[c])
         /\ Head(prog[c]) = prog[c][1]
         /\ prog[c][1] \in Statements
         /\ At(c, "activate_begin") \/ At(c, "activate") \/ At(c, "read") => Arg(c) \in SlotIds
         /\ At(c, "repo_on") \/ At(c, "upsert_active") \/ At(c, "upsert") => Arg(c) \in Repos
         /\ At(c, "dispatch") \/ At(c, "launch") => Arg(c) \in Jobs
<1>1. prog[c] \in Seq(Statements) /\ prog[c] # <<>>
  BY DEF Programs, Idle
<1>2. Len(prog[c]) \in Nat /\ Len(prog[c]) > 0 /\ DOMAIN prog[c] = 1..Len(prog[c])
  BY <1>1, EmptySeq, LenProperties
<1>3. prog[c][1] \in Statements /\ Head(prog[c]) = prog[c][1]
  BY <1>1, <1>2, ElementOfSeq
<1>4. QED BY <1>2, <1>3 DEF Statements, At, Arg

RemoteGrows ==
  \A a \in Agents : /\ remote[a] # "absent" => remote'[a] # "absent"
                    /\ remote[a] = "deleted" => remote'[a] = "deleted"

(* The others are not concerned *)
LEMMA RefOthers ==
  ASSUME ReferencesInv, NEW d \in Procs, Ref(d), prog'[d] = prog[d], copy'[d] = copy[d],
         theRepo'[d] = theRepo[d], repos \subseteq repos', RemoteGrows
  PROVE  Ref(d)'
<1>1. copy[d] \in SlotCopies BY DEF ReferencesInv, TypeOK
<1>2. copy[d].agent \in Agents \cup {Nothing} BY <1>1 DEF SlotCopies
<1>3. Stored(d) => Stored(d)'
  BY DEF Stored
<1>4. QED BY <1>2, <1>3 DEF Ref, At, RemoteGrows

LEMMA RefReturn ==
  ASSUME NEW c \in Procs, prog'[c] = <<>>, copy'[c].repo \in repos' \cup {Nothing},
         copy'[c].agent # Nothing => remote'[copy'[c].agent] # "absent"
  PROVE  Ref(c)'
BY DEF Ref, At

LEMMA RefGoes ==
  ASSUME ReferencesInv, Programs', NEW c \in Procs, ~Idle(c), NEW more, Goes(c, more),
         repos \subseteq repos', copy'[c].repo \in repos' \cup {Nothing},
         copy'[c].agent # Nothing => remote'[copy'[c].agent] # "absent",
         \/ theRepo'[c] \in repos' \cup {Nothing}
         \/ theRepo'[c] = theRepo[c] /\ ~At(c, "upsert") /\ ~At(c, "upsert_active"),
         \A i \in 1..Len(more) : more[i][1] = "repo_on" => more[i][2] \in repos',
         Len(more) > 0 => /\ more[1][1] # "reactivate"
                          /\ more[1][1] = "unlink" => /\ copy'[c].agent # Nothing
                                                      /\ remote'[copy'[c].agent] = "deleted",
         At(c, "insert") => copy'[c].id \in SlotIds
  PROVE  Ref(c)'
<1> DEFINE p == prog[c]
           q == prog'[c]
           m == Len(more)
<1>1. /\ Head(p) = p[1] /\ Program(p) /\ p # <<>>
  BY Arguments DEF ReferencesInv, Idle, Programs
<1>2. /\ m \in Nat /\ Len(p) \in Nat /\ Len(p) > 0
      /\ Len(q) = m + Len(p) - 1
      /\ DOMAIN p = 1..Len(p) /\ DOMAIN q = 1..Len(q)
      /\ \A i \in 1..m : q[i] = more[i]
      /\ \A i \in 2..Len(p) : q[m + i - 1] = p[i]
      /\ \A j \in 1..Len(q) : j > m => j - m + 1 \in 2..Len(p) /\ q[j] = p[j - m + 1]
  BY DEF Goes
<1>3. Ref(c) BY DEF ReferencesInv
<1>4. q # <<>> => Len(q) > 0 /\ Head(q) = q[1] /\ 1 \in DOMAIN q
  <2>1. q \in Seq(Statements) BY DEF Programs
  <2>2. QED BY <1>2, <2>1, EmptySeq
<1>5. ASSUME q # <<>> PROVE Stored(c)'
  <2>1. CASE theRepo'[c] \in repos' \cup {Nothing}
    BY <2>1 DEF Stored
  <2>2. CASE theRepo'[c] = theRepo[c] /\ ~At(c, "upsert") /\ ~At(c, "upsert_active")
    <3>1. CASE theRepo[c] \in repos \cup {Nothing}
      BY <2>2, <3>1 DEF Stored
    <3>2. CASE ~(theRepo[c] \in repos \cup {Nothing})
      <4>1. PICK i \in DOMAIN p : p[i] \in {<<"upsert", theRepo[c]>>, <<"upsert_active", theRepo[c]>>}
        BY <1>1, <1>3, <3>2 DEF Ref, Stored
      <4>2. i # 1
        BY <1>1, <2>2, <4>1 DEF At
      <4>3. i \in 2..Len(p) BY <1>2, <4>2
      <4>4. m + i - 1 \in 1..Len(q) BY <1>2, <4>3
      <4>5. q[m + i - 1] = p[i] BY <1>2, <4>3
      <4>6. m + i - 1 \in DOMAIN q BY <1>2, <4>4
      <4>7. QED BY <2>2, <4>1, <4>5, <4>6 DEF Stored
    <3>3. QED BY <3>1, <3>2
  <2>3. QED BY <2>1, <2>2
<1>6. ASSUME NEW j \in DOMAIN q, q[j][1] = "repo_on" PROVE q[j][2] \in repos'
  <2>1. CASE j <= m
    BY <1>2, <1>6, <2>1
  <2>2. CASE j > m
    <3>1. PICK k \in 2..Len(p) : q[j] = p[k] BY <1>2, <2>2
    <3>2. k \in DOMAIN p BY <1>2
    <3>3. QED BY <1>3, <1>6, <3>1, <3>2 DEF Ref
  <2>3. QED BY <1>2, <2>1, <2>2
<1>7. CASE q = <<>>
  BY <1>7, RefReturn
<1>8. CASE q # <<>> /\ m = 0
  <2>1. Len(p) > 1 /\ q[1] = p[2] BY <1>2, <1>4, <1>8
  <2>2. Precedes(p[1], p[2]) BY <1>1, <1>2, <2>1 DEF Program
  <2>3. q[1][1] # "unlink" /\ (q[1][1] = "reactivate" => At(c, "insert"))
    BY <1>1, <2>1, <2>2 DEF Precedes, At
  <2>4. QED BY <1>4, <1>5, <1>6, <1>8, <2>3 DEF Ref, At
<1>9. CASE q # <<>> /\ m > 0
  <2>1. q[1] = more[1] BY <1>2, <1>9
  <2>2. QED BY <1>4, <1>5, <1>6, <1>9, <2>1 DEF Ref, At
<1>10. QED BY <1>2, <1>7, <1>8, <1>9

-----------------------------------------------------------------------------
(* What each statement leaves to do *)

LEMMA LowestOfSet ==
  ASSUME NEW S \in SUBSET SlotIds, S # {}
  PROVE  Lowest(S) \in S
<1>1. S \subseteq Nat BY AgentSlotsAssumption DEF SlotIds
<1>2. IsWellFoundedOn(OpToRel(<, Nat), Nat) BY NatLessThanWellFounded
<1>3. PICK x \in S : \A y \in S : ~(<<y, x>> \in OpToRel(<, Nat))
  BY <1>1, <1>2, WFMin
<1>4. \A y \in S : x <= y
  <2>1. ASSUME NEW y \in S, y < x PROVE FALSE
    <3>1. <<y, x>> \in OpToRel(<, Nat) BY <1>1, <2>1 DEF OpToRel
    <3>2. QED BY <1>3, <3>1
  <2>2. QED BY <1>1, <2>1
<1>5. \E s \in S : \A t \in S : s <= t BY <1>4
<1>6. QED BY <1>5 DEF Lowest

(* The ranks of what is put in place *)
LEMMA SlotPush ==
  ASSUME NEW s \in SlotIds
  PROVE  /\ Program(SetActiveSlot(s)) /\ Len(SetActiveSlot(s)) = 2
         /\ SetActiveSlot(s)[1] = <<"activate_begin", s>>
         /\ SetActiveSlot(s)[2] = <<"activate", s>>
         /\ \A i \in 1..2 : Rank(SetActiveSlot(s)[i]) \in 7..8
<1>1. /\ Len(SetActiveSlot(s)) = 2 /\ SetActiveSlot(s)[1] = <<"activate_begin", s>>
      /\ SetActiveSlot(s)[2] = <<"activate", s>>
  BY DEF SetActiveSlot
<1>2. Rank(SetActiveSlot(s)[1]) = 7 BY <1>1 DEF Rank
<1>3. Rank(SetActiveSlot(s)[2]) = 8 BY <1>1 DEF Rank
<1>4. Program(SetActiveSlot(s)) BY SlotPrograms
<1>5. QED BY <1>1, <1>2, <1>3, <1>4

LEMMA RepoPush ==
  ASSUME NEW r \in Repos
  PROVE  /\ Program(SetActiveRepo(r)) /\ Len(SetActiveRepo(r)) = 2
         /\ SetActiveRepo(r)[1] = Do("repos_off") /\ SetActiveRepo(r)[2] = <<"repo_on", r>>
         /\ \A i \in 1..2 : Rank(SetActiveRepo(r)[i]) \in 1..2
<1>1. /\ Len(SetActiveRepo(r)) = 2 /\ SetActiveRepo(r)[1] = Do("repos_off")
      /\ SetActiveRepo(r)[2] = <<"repo_on", r>>
  BY DEF SetActiveRepo
<1>2. Rank(SetActiveRepo(r)[1]) = 1 BY <1>1 DEF Rank, Do
<1>3. Rank(SetActiveRepo(r)[2]) = 2 BY <1>1 DEF Rank
<1>4. Program(SetActiveRepo(r)) BY RepoPrograms
<1>5. QED BY <1>1, <1>2, <1>3, <1>4

LEMMA ReselectPush ==
  ASSUME NEW r \in Repos,
         NEW more, more = <<Do("repos_off"), <<"repo_on", r>>, Do("reread")>>
  PROVE  /\ SetActiveRepo(r) \o <<Do("reread")>> = more
         /\ Program(more) /\ Len(more) = 3
         /\ more[1] = Do("repos_off") /\ more[2] = <<"repo_on", r>> /\ more[3] = Do("reread")
         /\ \A i \in 1..3 : Rank(more[i]) \in 1..3
<1>1. /\ Len(more) = 3 /\ more[1] = Do("repos_off") /\ more[2] = <<"repo_on", r>>
      /\ more[3] = Do("reread")
  OBVIOUS
<1>2. Rank(more[1]) = 1 BY <1>1 DEF Rank, Do
<1>3. Rank(more[2]) = 2 BY <1>1 DEF Rank
<1>4. Rank(more[3]) = 3 BY <1>1 DEF Rank, Do
<1>5. SetActiveRepo(r) \o <<Do("reread")>> = more /\ Program(more)
  BY Reselect
<1>6. QED BY <1>1, <1>2, <1>3, <1>4, <1>5

LEMMA CreationPush ==
  ASSUME NEW more, more = <<Do("resolve"), Do("insert_begin"), Do("insert")>>
  PROVE  /\ <<Do("resolve")>> \o CreateSlot = more
         /\ Program(more) /\ Len(more) = 3
         /\ more[1] = Do("resolve") /\ more[2] = Do("insert_begin") /\ more[3] = Do("insert")
         /\ \A i \in 1..3 : Rank(more[i]) \in 4..10
<1>1. /\ Len(more) = 3 /\ more[1] = Do("resolve") /\ more[2] = Do("insert_begin")
      /\ more[3] = Do("insert")
  OBVIOUS
<1>2. Rank(more[1]) = 4 BY <1>1 DEF Rank, Do
<1>3. Rank(more[2]) = 9 BY <1>1 DEF Rank, Do
<1>4. Rank(more[3]) = 10 BY <1>1 DEF Rank, Do
<1>5. QED BY <1>1, <1>2, <1>3, <1>4, Creation

LEMMA BindPush ==
  ASSUME NEW more, more = <<Do("resolve"), Do("require"), Do("bind")>>
  PROVE  /\ Program(more) /\ Len(more) = 3
         /\ more[1] = Do("resolve") /\ more[2] = Do("require") /\ more[3] = Do("bind")
         /\ \A i \in 1..3 : Rank(more[i]) \in 4..6
<1>1. /\ Len(more) = 3 /\ more[1] = Do("resolve") /\ more[2] = Do("require")
      /\ more[3] = Do("bind")
  OBVIOUS
<1>2. Rank(more[1]) = 4 BY <1>1 DEF Rank, Do
<1>3. Rank(more[2]) = 5 BY <1>1 DEF Rank, Do
<1>4. Rank(more[3]) = 6 BY <1>1 DEF Rank, Do
<1>5. QED BY <1>1, <1>2, <1>3, <1>4, Creation

LEMMA UnlinkPush ==
  ASSUME NEW more, more = <<Do("unlink")>>
  PROVE  /\ Program(more) /\ Len(more) = 1 /\ more[1] = Do("unlink")
         /\ Rank(more[1]) = 1
<1>1. Len(more) = 1 /\ more[1] = Do("unlink") OBVIOUS
<1>2. Rank(more[1]) = 1 BY <1>1 DEF Rank, Do
<1>3. QED BY <1>1, <1>2, Creation

(* Where a statement stands *)
LEMMA Standing ==
  ASSUME ReferencesInv, NEW c \in Procs, NEW name, At(c, name)
  PROVE  /\ ~Idle(c) /\ Programs /\ Program(prog[c])
         /\ Len(prog[c]) \in Nat /\ 1 \in 1..Len(prog[c])
         /\ Head(prog[c]) = prog[c][1] /\ prog[c][1][1] = name
         /\ Len(prog[c]) > 1 => Precedes(prog[c][1], prog[c][2])
<1>1. ~Idle(c) /\ Head(prog[c])[1] = name BY DEF At, Idle
<1>2. /\ Programs /\ Program(prog[c]) /\ prog[c][1][1] = name /\ Head(prog[c]) = prog[c][1]
      /\ Len(prog[c]) \in Nat /\ 1 \in 1..Len(prog[c])
  BY <1>1, Arguments DEF ReferencesInv, Programs
<1>3. Len(prog[c]) > 1 => Precedes(prog[c][1], prog[c][2])
  BY <1>2 DEF Program
<1>4. QED BY <1>1, <1>2, <1>3

LEMMA EnsureGoes ==
  ASSUME ReferencesInv, NEW c \in Procs, Ensure(c)
  PROVE  /\ Programs'
         /\ \/ Goes(c, <<>>) /\ \E s \in active : Take(c, s)
            \/ /\ active = {} /\ slots # {} /\ Lowest(slots) \in slots
               /\ Goes(c, SetActiveSlot(Lowest(slots))) /\ UNCHANGED copy
            \/ /\ slots = {} /\ UNCHANGED copy
               /\ Goes(c, <<Do("resolve"), Do("insert_begin"), Do("insert")>>)
<1>1. /\ ~Idle(c) /\ Programs /\ prog[c][1][1] = "ensure"
      /\ Len(prog[c]) > 1 => Precedes(prog[c][1], prog[c][2])
  BY Standing DEF Ensure
<1>2. Rank(prog[c][1]) = 11 BY <1>1 DEF Rank
<1>3. CASE \E s \in active : Take(c, s) /\ Next1(c)
  BY <1>1, <1>3, NextGoes
<1>4. CASE /\ active = {} /\ slots # {}
           /\ Then(c, SetActiveSlot(Lowest(slots)))
           /\ UNCHANGED copy
  <2>1. Lowest(slots) \in slots /\ Lowest(slots) \in SlotIds
    BY <1>4, LowestOfSet DEF ReferencesInv, TypeOK
  <2>2. PICK s \in SlotIds : s = Lowest(slots) BY <2>1
  <2>3. \A i \in 1..2 : Rank(SetActiveSlot(s)[i]) < Rank(prog[c][1])
    BY <1>2, SlotPush
  <2>4. Len(prog[c]) > 1 => Precedes(SetActiveSlot(s)[2], prog[c][2])
    BY <1>1, SlotPush DEF Precedes, Turns
  <2>5. Programs' /\ Goes(c, SetActiveSlot(s))
    BY <1>1, <1>4, <2>2, <2>3, <2>4, SlotPush, ThenGoes
  <2>6. QED BY <1>4, <2>1, <2>2, <2>5
<1>5. CASE /\ slots = {}
           /\ Then(c, <<Do("resolve")>> \o CreateSlot)
           /\ UNCHANGED copy
  <2>1. PICK more : more = <<Do("resolve"), Do("insert_begin"), Do("insert")>> OBVIOUS
  <2>2. Then(c, more) BY <1>5, <2>1, CreationPush
  <2>3. \A i \in 1..3 : Rank(more[i]) < Rank(prog[c][1])
    BY <1>2, <2>1, CreationPush
  <2>4. Len(prog[c]) > 1 => Precedes(more[3], prog[c][2])
    BY <1>1, <2>1, CreationPush DEF Precedes, Turns
  <2>5. Programs' /\ Goes(c, more)
    BY <1>1, <2>1, <2>2, <2>3, <2>4, CreationPush, ThenGoes
  <2>6. QED BY <1>5, <2>1, <2>5
<1>6. QED BY <1>3, <1>4, <1>5 DEF Ensure

LEMMA ActivateGoes ==
  ASSUME ReferencesInv, NEW c \in Procs, Activate(c)
  PROVE  /\ Programs' /\ Arg(c) \in SlotIds
         /\ \/ /\ Arg(c) \notin slots /\ prog'[c] = <<>>
               /\ \A d \in Procs : d # c => prog'[d] = prog[d]
            \/ Arg(c) \in slots /\ slotRepo[Arg(c)] = Nothing /\ Goes(c, <<>>)
            \/ /\ Arg(c) \in slots /\ slotRepo[Arg(c)] \in repos \cap Repos
               /\ Goes(c, SetActiveRepo(slotRepo[Arg(c)]))
<1>1. /\ ~Idle(c) /\ Programs /\ prog[c][1][1] = "activate"
      /\ Len(prog[c]) > 1 => Precedes(prog[c][1], prog[c][2])
      /\ At(c, "activate")
  BY Standing DEF Activate
<1>2. Rank(prog[c][1]) = 8 BY <1>1 DEF Rank
<1>3. Arg(c) \in SlotIds BY <1>1, Arguments
<1>4. CASE Arg(c) \notin slots
  BY <1>1, <1>3, <1>4, ReturnEnds DEF Activate, Return
<1>5. CASE Arg(c) \in slots /\ slotRepo[Arg(c)] = Nothing
  BY <1>1, <1>3, <1>5, NextGoes DEF Activate
<1>6. CASE Arg(c) \in slots /\ slotRepo[Arg(c)] # Nothing
  <2>1. slotRepo[Arg(c)] \in repos \cap Repos
    BY <1>3, <1>6 DEF ReferencesInv, Rows, TypeOK
  <2>2. PICK r \in Repos : r = slotRepo[Arg(c)] BY <2>1
  <2>3. Then(c, SetActiveRepo(r)) BY <1>6, <2>2 DEF Activate
  <2>4. \A i \in 1..2 : Rank(SetActiveRepo(r)[i]) < Rank(prog[c][1])
    BY <1>2, RepoPush
  <2>5. Len(prog[c]) > 1 => Precedes(SetActiveRepo(r)[2], prog[c][2])
    BY <1>1, RepoPush DEF Precedes, Turns
  <2>6. Programs' /\ Goes(c, SetActiveRepo(r))
    BY <1>1, <2>3, <2>4, <2>5, RepoPush, ThenGoes
  <2>7. QED BY <1>3, <1>6, <2>1, <2>2, <2>6
<1>7. QED BY <1>4, <1>5, <1>6

LEMMA ReactivateGoes ==
  ASSUME ReferencesInv, NEW c \in Procs, Reactivate(c)
  PROVE  /\ Programs' /\ copy[c].id \in SlotIds
         /\ Goes(c, SetActiveSlot(copy[c].id))
<1>1. /\ ~Idle(c) /\ Programs /\ prog[c][1][1] = "reactivate"
      /\ Len(prog[c]) > 1 => Precedes(prog[c][1], prog[c][2])
      /\ At(c, "reactivate")
  BY Standing DEF Reactivate
<1>2. Rank(prog[c][1]) = 16 BY <1>1 DEF Rank
<1>3. copy[c].id \in SlotIds BY <1>1 DEF ReferencesInv, Ref
<1>4. PICK s \in SlotIds : s = copy[c].id BY <1>3
<1>5. \A i \in 1..2 : Rank(SetActiveSlot(s)[i]) < Rank(prog[c][1])
  BY <1>2, SlotPush
<1>6. Len(prog[c]) > 1 => Precedes(SetActiveSlot(s)[2], prog[c][2])
  BY <1>1, SlotPush DEF Precedes, Turns
<1>7. Programs' /\ Goes(c, SetActiveSlot(s))
  BY <1>1, <1>4, <1>5, <1>6, SlotPush, ThenGoes DEF Reactivate
<1>8. QED BY <1>3, <1>4, <1>7

LEMMA DeleteGoes ==
  ASSUME ReferencesInv, NEW c \in Procs, Delete(c)
  PROVE  /\ Programs'
         /\ \/ /\ active' = {} /\ prog'[c] = <<>>
               /\ \A d \in Procs : d # c => prog'[d] = prog[d]
            \/ \E a \in active' \cap SlotIds : slotRepo[a] = Nothing /\ Goes(c, <<>>)
            \/ \E a \in active' \cap SlotIds :
                 /\ slotRepo[a] \in repos \cap Repos
                 /\ Goes(c, SetActiveRepo(slotRepo[a]))
<1>1. /\ ~Idle(c) /\ Programs /\ prog[c][1][1] = "delete"
      /\ Len(prog[c]) > 1 => Precedes(prog[c][1], prog[c][2])
      /\ At(c, "delete")
  BY Standing DEF Delete
<1>2. Rank(prog[c][1]) = 21 BY <1>1 DEF Rank
<1>3. active' \subseteq SlotIds
  <2>1. slots \ {copy[c].id} \in SUBSET SlotIds BY DEF ReferencesInv, TypeOK
  <2>2. slots \ {copy[c].id} # {} => Lowest(slots \ {copy[c].id}) \in SlotIds
    BY <2>1, LowestOfSet
  <2>3. active \subseteq SlotIds BY DEF ReferencesInv, TypeOK
  <2>4. QED BY <2>2, <2>3 DEF Delete
<1>4. CASE active' = {}
  BY <1>1, <1>4, ReturnEnds DEF Delete, Return
<1>5. CASE active' # {}
  <2>1. PICK a \in active' : Then(c, IF slotRepo[a] = Nothing THEN <<>>
                                      ELSE SetActiveRepo(slotRepo[a]))
    BY <1>5 DEF Delete
  <2>2. a \in SlotIds BY <1>3
  <2>3. CASE slotRepo[a] = Nothing
    <3>1. Next1(c) BY <2>1, <2>3 DEF Next1
    <3>2. Programs' /\ Goes(c, <<>>) BY <1>1, <3>1, NextGoes
    <3>3. QED BY <2>2, <2>3, <3>2
  <2>4. CASE slotRepo[a] # Nothing
    <3>1. slotRepo[a] \in repos \cap Repos
      BY <2>2, <2>4 DEF ReferencesInv, Rows, TypeOK
    <3>2. PICK r \in Repos : r = slotRepo[a] BY <3>1
    <3>3. Then(c, SetActiveRepo(r)) BY <2>1, <2>4, <3>2
    <3>4. \A i \in 1..2 : Rank(SetActiveRepo(r)[i]) < Rank(prog[c][1])
      BY <1>2, RepoPush
    <3>5. Len(prog[c]) > 1 => Precedes(SetActiveRepo(r)[2], prog[c][2])
      BY <1>1, RepoPush DEF Precedes, Turns
    <3>6. Programs' /\ Goes(c, SetActiveRepo(r))
      BY <1>1, <3>3, <3>4, <3>5, RepoPush, ThenGoes
    <3>7. QED BY <2>2, <3>1, <3>2, <3>6
  <2>5. QED BY <2>3, <2>4
<1>6. QED BY <1>4, <1>5

LEMMA ResolveGoes ==
  ASSUME ReferencesInv, NEW c \in Procs, Resolve(c)
  PROVE  /\ Programs'
         /\ \/ Goes(c, <<>>) /\ \E r \in activeRepos : Hold(c, r)
            \/ Goes(c, <<>>) /\ activeRepos = {} /\ Hold(c, Nothing)
            \/ \E r \in repos : /\ activeRepos = {} /\ Cardinality(repos) = 1
                              /\ Goes(c, <<Do("repos_off"), <<"repo_on", r>>, Do("reread")>>)
                              /\ UNCHANGED theRepo
<1>1. /\ ~Idle(c) /\ Programs /\ prog[c][1][1] = "resolve"
      /\ Len(prog[c]) > 1 => Precedes(prog[c][1], prog[c][2])
      /\ At(c, "resolve")
  BY Standing DEF Resolve
<1>2. Rank(prog[c][1]) = 4 BY <1>1 DEF Rank
<1>3. CASE (\E r \in activeRepos : Hold(c, r)) /\ Next1(c)
  BY <1>1, <1>3, NextGoes
<1>4. CASE activeRepos = {} /\ Hold(c, Nothing) /\ Next1(c)
  BY <1>1, <1>4, NextGoes
<1>5. CASE /\ activeRepos = {} /\ Cardinality(repos) = 1
           /\ \E r \in repos : Then(c, SetActiveRepo(r) \o <<Do("reread")>>)
           /\ UNCHANGED theRepo
  <2>1. PICK r \in repos : Then(c, SetActiveRepo(r) \o <<Do("reread")>>) BY <1>5
  <2>2. r \in Repos BY DEF ReferencesInv, TypeOK
  <2>3. PICK more : more = <<Do("repos_off"), <<"repo_on", r>>, Do("reread")>> OBVIOUS
  <2>4. Then(c, more) BY <2>1, <2>2, <2>3, ReselectPush
  <2>5. \A i \in 1..3 : Rank(more[i]) < Rank(prog[c][1])
    BY <1>2, <2>2, <2>3, ReselectPush
  <2>6. Len(prog[c]) > 1 => Precedes(more[3], prog[c][2])
    BY <1>1, <2>3 DEF Precedes, Turns, Do
  <2>7. Programs' /\ Goes(c, more)
    BY <1>1, <2>2, <2>3, <2>4, <2>5, <2>6, ReselectPush, ThenGoes
  <2>8. QED BY <1>5, <2>3, <2>7
<1>6. QED BY <1>3, <1>4, <1>5 DEF Resolve

LEMMA LoadGoes ==
  ASSUME ReferencesInv, NEW c \in Procs, Load(c)
  PROVE  /\ Programs'
         /\ \/ Goes(c, <<>>) /\ copy[c].repo # Nothing /\ Hold(c, copy[c].repo)
            \/ /\ copy[c].repo = Nothing /\ UNCHANGED theRepo
               /\ Goes(c, <<Do("resolve"), Do("require"), Do("bind")>>)
<1>1. /\ ~Idle(c) /\ Programs /\ prog[c][1][1] = "load"
      /\ Len(prog[c]) > 1 => Precedes(prog[c][1], prog[c][2])
      /\ At(c, "load")
  BY Standing DEF Load
<1>2. Rank(prog[c][1]) = 13 BY <1>1 DEF Rank
<1>3. CASE copy[c].repo # Nothing
  BY <1>1, <1>3, NextGoes DEF Load
<1>4. CASE copy[c].repo = Nothing
  <2>1. PICK more : more = <<Do("resolve"), Do("require"), Do("bind")>> OBVIOUS
  <2>2. Then(c, more) /\ UNCHANGED theRepo BY <1>4, <2>1 DEF Load
  <2>3. \A i \in 1..3 : Rank(more[i]) < Rank(prog[c][1])
    BY <1>2, <2>1, BindPush
  <2>4. Len(prog[c]) > 1 => Precedes(more[3], prog[c][2])
    BY <1>1, <2>1 DEF Precedes, Turns, Do
  <2>5. Programs' /\ Goes(c, more)
    BY <1>1, <2>1, <2>2, <2>3, <2>4, BindPush, ThenGoes
  <2>6. QED BY <1>4, <2>1, <2>2, <2>5
<1>5. QED BY <1>3, <1>4

LEMMA ProbeGoes ==
  ASSUME ReferencesInv, NEW c \in Procs, Probe(c)
  PROVE  /\ Programs'
         /\ \/ Goes(c, <<>>)
            \/ /\ copy[c].agent # Nothing /\ remote[copy[c].agent] = "deleted"
               /\ Goes(c, <<Do("unlink")>>)
<1>1. /\ ~Idle(c) /\ Programs /\ prog[c][1][1] = "probe"
      /\ Len(prog[c]) > 1 => Precedes(prog[c][1], prog[c][2])
      /\ At(c, "probe")
  BY Standing DEF Probe
<1>2. Rank(prog[c][1]) = 18 BY <1>1 DEF Rank
<1>3. CASE Next1(c)
  BY <1>1, <1>3, NextGoes
<1>4. CASE State(copy[c].agent) = "deleted" /\ Then(c, <<Do("unlink")>>)
  <2>1. PICK more : more = <<Do("unlink")>> OBVIOUS
  <2>2. Rank(more[1]) < Rank(prog[c][1]) BY <1>2, <2>1, UnlinkPush
  <2>3. Len(prog[c]) > 1 => Precedes(more[1], prog[c][2])
    BY <1>1, <2>1 DEF Precedes, Turns, Do
  <2>4. Programs' /\ Goes(c, more)
    BY <1>1, <1>4, <2>1, <2>2, <2>3, UnlinkPush, ThenGoes
  <2>5. QED BY <1>4, <2>1, <2>4 DEF State
<1>5. QED BY <1>3, <1>4 DEF Probe

(* The statements that end their program on some condition *)
Ends(c) == prog'[c] = <<>> /\ \A d \in Procs : d # c => prog'[d] = prog[d]

LEMMA ChecksGo ==
  ASSUME ReferencesInv, NEW c \in Procs,
         ActivateBegin(c) \/ Count(c) \/ Read(c) \/ DeleteCheck(c) \/ DeleteBegin(c) \/ Require(c)
  PROVE  /\ ~Idle(c) /\ Programs /\ Programs' /\ (Goes(c, <<>>) \/ Ends(c))
         /\ Return(c) => Ends(c)
         /\ Next1(c) => Goes(c, <<>>)
<1>1. ~Idle(c)
  BY DEF ActivateBegin, Count, Read, DeleteCheck, DeleteBegin, Require, At, Idle
<1>2. Programs BY DEF ReferencesInv
<1>3. Next1(c) => Programs' /\ Goes(c, <<>>) BY <1>1, <1>2, NextGoes
<1>4. Return(c) => Programs' /\ Ends(c) BY <1>2, ReturnEnds DEF Return, Ends
<1>5. Next1(c) \/ Return(c)
  BY DEF ActivateBegin, Count, Read, DeleteCheck, DeleteBegin, Require
<1>6. QED BY <1>1, <1>2, <1>3, <1>4, <1>5

LEMMA PlainStatementsGo ==
  ASSUME ReferencesInv, NEW c \in Procs,
         \/ InsertBegin(c) \/ Insert(c) \/ Archive(c) \/ ReposOff(c) \/ RepoOn(c) \/ Upsert(c)
         \/ Reread(c) \/ Rebind(c) \/ Bind(c) \/ Dispatch(c) \/ StartRun(c) \/ Link(c) \/ Unlink(c)
  PROVE  ~Idle(c) /\ Programs /\ Programs' /\ Goes(c, <<>>)
<1>1. ~Idle(c)
  BY DEF InsertBegin, Insert, Archive, ReposOff, RepoOn, Upsert, Reread, Rebind, Bind, Dispatch,
         StartRun, Link, Unlink, At, Idle
<1>2. Next1(c)
  BY DEF InsertBegin, Insert, Archive, ReposOff, RepoOn, Upsert, Reread, Rebind, Bind, Dispatch,
         StartRun, Link, Unlink
<1>3. QED BY <1>1, <1>2, NextGoes DEF ReferencesInv

-----------------------------------------------------------------------------
(* References *)

LEMMA ReferencesStep ==
  ASSUME ReferencesInv, NEW c \in Procs, TypeOK', Rows', Programs', Ref(c)',
         \A d \in Procs : d # c =>
           prog'[d] = prog[d] /\ copy'[d] = copy[d] /\ theRepo'[d] = theRepo[d],
         repos \subseteq repos', RemoteGrows
  PROVE  ReferencesInv'
<1>1. ASSUME NEW d \in Procs PROVE Ref(d)'
  <2>1. Ref(d) BY DEF ReferencesInv
  <2>2. CASE d # c BY <2>1, <2>2, RefOthers
  <2>3. QED BY <2>2
<1>2. QED BY <1>1 DEF ReferencesInv

LEMMA Taken ==
  ASSUME ReferencesInv, NEW c \in Procs, NEW s \in SlotIds, Take(c, s)
  PROVE  /\ copy' \in [Procs -> SlotCopies] /\ copy'[c] = CopyOf(s)
         /\ \A d \in Procs : d # c => copy'[d] = copy[d]
         /\ copy'[c].id = s /\ copy'[c].repo = slotRepo[s] /\ copy'[c].agent = slotAgent[s]
         /\ copy'[c].repo \in repos \cup {Nothing}
         /\ copy'[c].agent # Nothing => remote[copy'[c].agent] # "absent"
<1>1. CopyOf(s) \in SlotCopies
  BY DEF CopyOf, SlotCopies, ReferencesInv, TypeOK
<1>2. /\ copy' \in [Procs -> SlotCopies] /\ copy'[c] = CopyOf(s)
      /\ \A d \in Procs : d # c => copy'[d] = copy[d]
  BY <1>1 DEF Take, ReferencesInv, TypeOK
<1>3. copy'[c].id = s /\ copy'[c].repo = slotRepo[s] /\ copy'[c].agent = slotAgent[s]
  BY <1>2 DEF CopyOf
<1>4. QED BY <1>2, <1>3 DEF ReferencesInv, Rows

LEMMA Held ==
  ASSUME ReferencesInv, NEW c \in Procs, NEW r \in Repos \cup {Nothing}, Hold(c, r)
  PROVE  /\ theRepo' \in [Procs -> Repos \cup {Nothing}] /\ theRepo'[c] = r
         /\ \A d \in Procs : d # c => theRepo'[d] = theRepo[d]
BY DEF Hold, ReferencesInv, TypeOK

(* Statements that only go on *)
LEMMA ReferencesQuiet ==
  ASSUME ReferencesInv, NEW c \in Procs, Programs', NEW more, Goes(c, more) \/ Ends(c), ~Idle(c),
         UNCHANGED <<slots, created, active, slotRepo, slotAgent, repos, remote, agentRepo,
                     jobRepo, ranIn, copy, theRepo>>,
         snap' \in [Procs -> SUBSET SlotIds], activeRepos' \subseteq repos,
         ~At(c, "upsert") /\ ~At(c, "upsert_active") /\ ~At(c, "insert"),
         Goes(c, more) =>
           /\ \A i \in 1..Len(more) : more[i][1] = "repo_on" => more[i][2] \in repos
           /\ Len(more) > 0 => more[1][1] # "reactivate" /\ more[1][1] # "unlink"
  PROVE  ReferencesInv'
<1>1. TypeOK' BY DEF ReferencesInv, TypeOK
<1>2. Rows' BY DEF ReferencesInv, Rows
<1>3. Ref(c) BY DEF ReferencesInv
<1>4. RemoteGrows BY DEF RemoteGrows
<1>5. CASE Ends(c)
  <2>1. Ref(c)' BY <1>3, <1>5, RefReturn DEF Ends, Ref
  <2>2. QED BY <1>1, <1>2, <1>4, <1>5, <2>1, ReferencesStep DEF Ends
<1>6. CASE Goes(c, more)
  <2>1. Ref(c)' BY <1>3, <1>6, RefGoes DEF Ref
  <2>2. QED BY <1>1, <1>2, <1>4, <1>6, <2>1, ReferencesStep DEF Goes
<1>7. QED BY <1>5, <1>6

LEMMA NoMore == Len(<<>>) = 0 OBVIOUS

LEMMA ReferencesChecks ==
  ASSUME ReferencesInv, NEW c \in Procs,
         ActivateBegin(c) \/ Count(c) \/ DeleteCheck(c) \/ DeleteBegin(c) \/ Require(c)
           \/ InsertBegin(c) \/ ReposOff(c)
  PROVE  ReferencesInv'
<1>1. ~Idle(c) /\ Programs' /\ (Goes(c, <<>>) \/ Ends(c))
  BY ChecksGo, PlainStatementsGo
<1>2. ~At(c, "upsert") /\ ~At(c, "upsert_active") /\ ~At(c, "insert")
  BY DEF ActivateBegin, Count, DeleteCheck, DeleteBegin, Require, InsertBegin, ReposOff, At
<1>3. UNCHANGED <<slots, created, active, slotRepo, slotAgent, repos, remote, agentRepo,
                  jobRepo, ranIn, copy, theRepo>>
  BY DEF ActivateBegin, Count, DeleteCheck, DeleteBegin, Require, InsertBegin, ReposOff,
         slotRows, repoRows, cursor, jobs, memory
<1>4. snap' \in [Procs -> SUBSET SlotIds]
  <2>1. \A S \in SUBSET SlotIds : [snap EXCEPT ![c] = S] \in [Procs -> SUBSET SlotIds]
    BY DEF ReferencesInv, TypeOK
  <2>2. slots \in SUBSET SlotIds /\ {} \in SUBSET SlotIds /\ snap \in [Procs -> SUBSET SlotIds]
    BY DEF ReferencesInv, TypeOK
  <2>3. QED BY <2>1, <2>2 DEF ActivateBegin, Count, DeleteCheck, DeleteBegin, Require, InsertBegin,
         ReposOff, memory
<1>5. activeRepos' \subseteq repos
  BY DEF ActivateBegin, Count, DeleteCheck, DeleteBegin, Require, InsertBegin, ReposOff,
         repoRows, ReferencesInv, TypeOK
<1>6. QED BY <1>1, <1>2, <1>3, <1>4, <1>5, NoMore, ReferencesQuiet

(* Past the insertion of a repository, the one in hand is a row *)
LEMMA InHand ==
  ASSUME ReferencesInv, NEW c \in Procs, ~Idle(c), Rank(prog[c][1]) > 2
  PROVE  theRepo[c] \in repos \cup {Nothing}
<1>1. Stored(c) BY DEF ReferencesInv, Ref, Idle
<1>2. /\ Program(prog[c]) /\ Len(prog[c]) \in Nat /\ 1 \in 1..Len(prog[c])
      /\ DOMAIN prog[c] = 1..Len(prog[c])
  BY Arguments DEF ReferencesInv, Programs
<1>3. ASSUME NEW i \in DOMAIN prog[c], prog[c][i][1] \in {"upsert", "upsert_active"} PROVE FALSE
  <2>1. Rank(prog[c][i]) = 2 BY <1>3 DEF Rank
  <2>2. i # 1 BY <2>1
  <2>3. i \in 1..Len(prog[c]) /\ 1 < i BY <1>2, <2>2
  <2>4. Rank(prog[c][1]) < Rank(prog[c][i]) BY <1>2, <2>3 DEF Program
  <2>5. Rank(prog[c][1]) \in 0..22 BY RankIsNatural
  <2>6. QED BY <2>1, <2>4, <2>5
<1>4. QED BY <1>1, <1>3 DEF Stored

LEMMA ReferencesReactivate ==
  ASSUME ReferencesInv, NEW c \in Procs, Reactivate(c)
  PROVE  ReferencesInv'
<1>1. Programs' /\ copy[c].id \in SlotIds /\ Goes(c, SetActiveSlot(copy[c].id))
  BY ReactivateGoes
<1>2. ~Idle(c) /\ ~At(c, "upsert") /\ ~At(c, "upsert_active") /\ ~At(c, "insert")
  BY DEF Reactivate, At, Idle
<1>3. PICK more : more = SetActiveSlot(copy[c].id) OBVIOUS
<1>4. Len(more) = 2 /\ more[1][1] = "activate_begin" /\ more[2][1] = "activate"
  BY <1>1, <1>3, SlotPush
<1>5. /\ \A i \in 1..Len(more) : more[i][1] = "repo_on" => more[i][2] \in repos
      /\ Len(more) > 0 => more[1][1] # "reactivate" /\ more[1][1] # "unlink"
  BY <1>4
<1>6. UNCHANGED <<slots, created, active, slotRepo, slotAgent, repos, activeRepos, remote,
                  agentRepo, jobRepo, ranIn, copy, theRepo, snap>>
  BY DEF Reactivate, slotRows, repoRows, cursor, jobs, memory
<1>7. snap' \in [Procs -> SUBSET SlotIds] /\ activeRepos' \subseteq repos
  BY <1>6 DEF ReferencesInv, TypeOK
<1>8. QED BY <1>1, <1>2, <1>3, <1>5, <1>6, <1>7, ReferencesQuiet

LEMMA ReferencesProbe ==
  ASSUME ReferencesInv, NEW c \in Procs, Probe(c)
  PROVE  ReferencesInv'
<1>1. ~Idle(c) /\ ~At(c, "upsert") /\ ~At(c, "upsert_active") /\ ~At(c, "insert")
  BY DEF Probe, At, Idle
<1>2. UNCHANGED <<slots, created, active, slotRepo, slotAgent, repos, activeRepos, remote,
                  agentRepo, jobRepo, ranIn, copy, theRepo, snap>>
  BY DEF Probe, slotRows, repoRows, cursor, jobs, memory
<1>3. TypeOK' BY <1>2 DEF ReferencesInv, TypeOK
<1>4. Rows' BY <1>2 DEF ReferencesInv, Rows
<1>5. RemoteGrows BY <1>2 DEF RemoteGrows
<1>6. Ref(c) BY DEF ReferencesInv
<1>7. CASE Goes(c, <<>>)
  <2>1. Programs' BY ProbeGoes
  <2>2. Ref(c)' BY <1>1, <1>2, <1>6, <1>7, <2>1, NoMore, RefGoes DEF Ref
  <2>3. QED BY <1>2, <1>3, <1>4, <1>5, <1>7, <2>1, <2>2, ReferencesStep DEF Goes
<1>8. CASE /\ copy[c].agent # Nothing /\ remote[copy[c].agent] = "deleted"
           /\ Goes(c, <<Do("unlink")>>)
  <2>1. PICK more : more = <<Do("unlink")>> OBVIOUS
  <2>2. Len(more) = 1 /\ more[1][1] = "unlink" BY <2>1 DEF Do
  <2>3. Programs' /\ Goes(c, more) BY <1>8, <2>1, ProbeGoes
  <2>4. Ref(c)' BY <1>1, <1>2, <1>6, <1>8, <2>2, <2>3, RefGoes DEF Ref
  <2>5. QED BY <1>2, <1>3, <1>4, <1>5, <2>3, <2>4, ReferencesStep DEF Goes
<1>9. QED BY <1>7, <1>8, ProbeGoes

LEMMA ReferencesEnsure ==
  ASSUME ReferencesInv, NEW c \in Procs, Ensure(c)
  PROVE  ReferencesInv'
<1>1. ~Idle(c) /\ ~At(c, "upsert") /\ ~At(c, "upsert_active") /\ ~At(c, "insert")
  BY DEF Ensure, At, Idle
<1>2. UNCHANGED <<slots, created, active, slotRepo, slotAgent, repos, activeRepos, remote,
                  agentRepo, jobRepo, ranIn, theRepo, snap>>
  BY DEF Ensure, slotRows, repoRows, cursor, jobs
<1>3. Programs' BY EnsureGoes
<1>4. snap' \in [Procs -> SUBSET SlotIds] /\ activeRepos' \subseteq repos
  BY <1>2 DEF ReferencesInv, TypeOK
<1>5. CASE Goes(c, <<>>) /\ \E s \in active : Take(c, s)
  <2>1. PICK s \in SlotIds : Take(c, s) BY <1>5 DEF ReferencesInv, TypeOK
  <2>2. /\ copy' \in [Procs -> SlotCopies]
        /\ \A d \in Procs : d # c => copy'[d] = copy[d]
        /\ copy'[c].repo \in repos \cup {Nothing}
        /\ copy'[c].agent # Nothing => remote[copy'[c].agent] # "absent"
    BY <2>1, Taken
  <2>3. TypeOK' BY <1>2, <2>2 DEF ReferencesInv, TypeOK
  <2>4. Rows' BY <1>2 DEF ReferencesInv, Rows
  <2>5. RemoteGrows BY <1>2 DEF RemoteGrows
  <2>6. Ref(c)' BY <1>1, <1>2, <1>3, <1>5, <2>2, NoMore, RefGoes
  <2>7. QED BY <1>2, <1>3, <1>5, <2>2, <2>3, <2>4, <2>5, <2>6, ReferencesStep DEF Goes
<1>6. CASE /\ Lowest(slots) \in slots
           /\ Goes(c, SetActiveSlot(Lowest(slots))) /\ UNCHANGED copy
  <2>1. PICK more : more = SetActiveSlot(Lowest(slots)) OBVIOUS
  <2>2. Lowest(slots) \in SlotIds BY <1>6 DEF ReferencesInv, TypeOK
  <2>3. Len(more) = 2 /\ more[1][1] = "activate_begin" /\ more[2][1] = "activate"
    BY <2>1, <2>2, SlotPush
  <2>4. /\ \A i \in 1..Len(more) : more[i][1] = "repo_on" => more[i][2] \in repos
        /\ Len(more) > 0 => more[1][1] # "reactivate" /\ more[1][1] # "unlink"
    BY <2>3
  <2>5. QED BY <1>1, <1>2, <1>3, <1>4, <1>6, <2>1, <2>4, ReferencesQuiet
<1>7. CASE /\ UNCHANGED copy
           /\ Goes(c, <<Do("resolve"), Do("insert_begin"), Do("insert")>>)
  <2>1. PICK more : more = <<Do("resolve"), Do("insert_begin"), Do("insert")>> OBVIOUS
  <2>2. /\ Len(more) = 3 /\ more[1][1] = "resolve" /\ more[2][1] = "insert_begin"
        /\ more[3][1] = "insert"
    BY <2>1 DEF Do
  <2>3. /\ \A i \in 1..Len(more) : more[i][1] = "repo_on" => more[i][2] \in repos
        /\ Len(more) > 0 => more[1][1] # "reactivate" /\ more[1][1] # "unlink"
    BY <2>2
  <2>4. QED BY <1>1, <1>2, <1>3, <1>4, <1>7, <2>1, <2>3, ReferencesQuiet
<1>8. QED BY <1>5, <1>6, <1>7, EnsureGoes

LEMMA ReferencesActivate ==
  ASSUME ReferencesInv, NEW c \in Procs, Activate(c)
  PROVE  ReferencesInv'
<1>1. /\ ~Idle(c) /\ ~At(c, "upsert") /\ ~At(c, "upsert_active") /\ ~At(c, "insert")
  BY DEF Activate, At, Idle
<1>2. UNCHANGED <<slots, created, slotRepo, slotAgent, repos, activeRepos, remote,
                  agentRepo, jobRepo, ranIn, theRepo, snap>>
  BY DEF Activate, slotRows, repoRows, cursor, jobs
<1>3. Programs' /\ Arg(c) \in SlotIds BY ActivateGoes
<1>4. /\ copy' \in [Procs -> SlotCopies]
      /\ \A d \in Procs : d # c => copy'[d] = copy[d]
      /\ copy'[c].repo \in repos \cup {Nothing}
      /\ copy'[c].agent # Nothing => remote[copy'[c].agent] # "absent"
  BY <1>3, Taken DEF Activate
<1>5. active' \subseteq slots
  BY DEF Activate, Deactivated, ReferencesInv, TypeOK
<1>6. TypeOK' BY <1>2, <1>4, <1>5 DEF ReferencesInv, TypeOK
<1>7. Rows' BY <1>2 DEF ReferencesInv, Rows
<1>8. RemoteGrows BY <1>2 DEF RemoteGrows
<1>9. CASE Ends(c)
  <2>1. Ref(c)' BY <1>2, <1>4, <1>9, RefReturn DEF Ends
  <2>2. QED BY <1>2, <1>3, <1>4, <1>6, <1>7, <1>8, <1>9, <2>1, ReferencesStep DEF Ends
<1>10. CASE Goes(c, <<>>)
  <2>1. Ref(c)' BY <1>1, <1>2, <1>3, <1>4, <1>10, NoMore, RefGoes
  <2>2. QED BY <1>2, <1>3, <1>4, <1>6, <1>7, <1>8, <1>10, <2>1, ReferencesStep DEF Goes
<1>11. CASE /\ slotRepo[Arg(c)] \in repos \cap Repos
            /\ Goes(c, SetActiveRepo(slotRepo[Arg(c)]))
  <2>1. PICK r \in Repos : r = slotRepo[Arg(c)] BY <1>11
  <2>2. PICK more : more = SetActiveRepo(r) OBVIOUS
  <2>3. Len(more) = 2 /\ more[1][1] = "repos_off" /\ more[2] = <<"repo_on", r>>
    BY <2>2, RepoPush DEF Do
  <2>4. /\ \A i \in 1..Len(more) : more[i][1] = "repo_on" => more[i][2] \in repos'
        /\ Len(more) > 0 => more[1][1] # "reactivate" /\ more[1][1] # "unlink"
    BY <1>2, <1>11, <2>1, <2>3
  <2>5. Goes(c, more) BY <1>11, <2>1, <2>2
  <2>6. Ref(c)' BY <1>1, <1>2, <1>3, <1>4, <2>4, <2>5, RefGoes
  <2>7. QED BY <1>2, <1>3, <1>4, <1>6, <1>7, <1>8, <2>5, <2>6, ReferencesStep DEF Goes
<1>12. QED BY <1>9, <1>10, <1>11, ActivateGoes DEF Ends

LEMMA ReferencesInsert ==
  ASSUME ReferencesInv, NEW c \in Procs, Insert(c)
  PROVE  ReferencesInv'
<1>1. ~Idle(c) /\ ~At(c, "upsert") /\ ~At(c, "upsert_active") /\ At(c, "insert")
  BY DEF Insert, At, Idle
<1>2. UNCHANGED <<slotAgent, repos, activeRepos, remote, agentRepo, jobRepo, ranIn, theRepo, snap>>
  BY DEF Insert, repoRows, cursor, jobs
<1>3. Programs' /\ Goes(c, <<>>) BY PlainStatementsGo
<1>4. PICK s \in SlotIds : s = created + 1
  BY AgentSlotsAssumption DEF Insert, SlotIds, ReferencesInv, TypeOK
<1>5. /\ created' = s /\ slots' = slots \cup {s} /\ active' = Deactivated(c) \cup {s}
      /\ slotRepo' = [slotRepo EXCEPT ![s] = theRepo[c]]
      /\ copy' = [copy EXCEPT ![c] = [id |-> s, repo |-> theRepo[c], agent |-> Nothing]]
  BY <1>4 DEF Insert
<1>6. theRepo[c] \in repos \cup {Nothing}
  <2>1. prog[c][1][1] = "insert" BY <1>1, Standing
  <2>2. Rank(prog[c][1]) = 10 BY <2>1 DEF Rank
  <2>3. QED BY <1>1, <2>2, InHand
<1>7. theRepo[c] \in Repos \cup {Nothing} BY DEF ReferencesInv, TypeOK
<1>8. /\ copy' \in [Procs -> SlotCopies] /\ copy'[c].id = s /\ copy'[c].repo = theRepo[c]
      /\ copy'[c].agent = Nothing /\ \A d \in Procs : d # c => copy'[d] = copy[d]
  <2>1. PICK k \in SlotCopies : k = [id |-> s, repo |-> theRepo[c], agent |-> Nothing]
    BY <1>7 DEF SlotCopies
  <2>2. copy' = [copy EXCEPT ![c] = k] BY <1>5, <2>1
  <2>3. QED BY <2>1, <2>2 DEF ReferencesInv, TypeOK
<1>9. TypeOK'
  <2>1. slots' \subseteq SlotIds /\ active' \subseteq slots'
    BY <1>5 DEF Deactivated, ReferencesInv, TypeOK
  <2>2. created' \in 0..MaxId BY <1>4, <1>5 DEF SlotIds
  <2>3. slotRepo' \in [SlotIds -> Repos \cup {Nothing}]
    BY <1>5, <1>7 DEF ReferencesInv, TypeOK
  <2>4. QED BY <1>2, <1>8, <2>1, <2>2, <2>3 DEF ReferencesInv, TypeOK
<1>10. Rows'
  <2>1. slots' \subseteq 1..created'
    BY <1>4, <1>5 DEF ReferencesInv, Rows, TypeOK
  <2>2. \A t \in SlotIds : slotRepo'[t] \in repos \cup {Nothing}
    BY <1>5, <1>6 DEF ReferencesInv, Rows, TypeOK
  <2>3. QED BY <1>2, <1>5, <2>1, <2>2 DEF ReferencesInv, Rows
<1>11. RemoteGrows BY <1>2 DEF RemoteGrows
<1>12. Ref(c)' BY <1>1, <1>2, <1>3, <1>6, <1>8, NoMore, RefGoes
<1>13. QED BY <1>2, <1>3, <1>8, <1>9, <1>10, <1>11, <1>12, ReferencesStep DEF Goes

LEMMA ReferencesRead ==
  ASSUME ReferencesInv, NEW c \in Procs, Read(c)
  PROVE  ReferencesInv'
<1>1. ~Idle(c) /\ ~At(c, "upsert") /\ ~At(c, "upsert_active") /\ ~At(c, "insert") /\ At(c, "read")
  BY DEF Read, At, Idle
<1>2. UNCHANGED <<slots, created, active, slotRepo, slotAgent, repos, activeRepos, remote,
                  agentRepo, jobRepo, ranIn, theRepo, snap>>
  BY DEF Read, slotRows, repoRows, cursor, jobs
<1>3. Programs' /\ Arg(c) \in SlotIds BY <1>1, ChecksGo, Arguments
<1>4. Rows' BY <1>2 DEF ReferencesInv, Rows
<1>5. RemoteGrows BY <1>2 DEF RemoteGrows
<1>6. CASE Take(c, Arg(c)) /\ Next1(c)
  <2>1. Goes(c, <<>>) BY <1>6, ChecksGo
  <2>2. /\ copy' \in [Procs -> SlotCopies]
        /\ \A d \in Procs : d # c => copy'[d] = copy[d]
        /\ copy'[c].repo \in repos \cup {Nothing}
        /\ copy'[c].agent # Nothing => remote[copy'[c].agent] # "absent"
    BY <1>3, <1>6, Taken
  <2>3. TypeOK' BY <1>2, <2>2 DEF ReferencesInv, TypeOK
  <2>4. Ref(c)' BY <1>1, <1>2, <1>3, <2>1, <2>2, NoMore, RefGoes
  <2>5. QED BY <1>2, <1>3, <1>4, <1>5, <2>1, <2>2, <2>3, <2>4, ReferencesStep DEF Goes
<1>7. CASE Return(c) /\ UNCHANGED copy
  <2>1. Ends(c) BY <1>7, ChecksGo
  <2>2. snap' \in [Procs -> SUBSET SlotIds] /\ activeRepos' \subseteq repos
    BY <1>2 DEF ReferencesInv, TypeOK
  <2>3. TypeOK' BY <1>2, <1>7 DEF ReferencesInv, TypeOK
  <2>4. Ref(c) BY DEF ReferencesInv
  <2>5. Ref(c)' BY <1>2, <1>7, <2>1, <2>4, RefReturn DEF Ends, Ref
  <2>6. QED BY <1>2, <1>3, <1>4, <1>5, <1>7, <2>1, <2>3, <2>5, ReferencesStep DEF Ends
<1>8. QED BY <1>6, <1>7 DEF Read

LEMMA ReferencesArchive ==
  ASSUME ReferencesInv, NEW c \in Procs, Archive(c)
  PROVE  ReferencesInv'
<1>1. ~Idle(c) /\ ~At(c, "upsert") /\ ~At(c, "upsert_active") /\ ~At(c, "insert")
  BY DEF Archive, At, Idle
<1>2. UNCHANGED <<slots, created, active, slotRepo, slotAgent, repos, activeRepos,
                  agentRepo, jobRepo, ranIn, copy, theRepo, snap>>
  BY DEF Archive, slotRows, repoRows, jobs, memory
<1>3. Programs' /\ Goes(c, <<>>) BY PlainStatementsGo
<1>4. copy[c].agent \in Agents \cup {Nothing}
  BY DEF ReferencesInv, TypeOK, SlotCopies
<1>5. /\ remote' \in [Agents -> {"absent", "live", "archived", "deleted"}]
      /\ \A a \in Agents : remote'[a] = remote[a] \/ (remote[a] = "live" /\ remote'[a] = "archived")
  BY <1>4 DEF Archive, ReferencesInv, TypeOK
<1>6. TypeOK' BY <1>2, <1>5 DEF ReferencesInv, TypeOK
<1>7. RemoteGrows BY <1>5 DEF RemoteGrows
<1>8. Rows'
  <2>1. \A s \in SlotIds : slotAgent[s] \in Agents \cup {Nothing} BY DEF ReferencesInv, TypeOK
  <2>2. QED BY <1>2, <1>7, <2>1 DEF ReferencesInv, Rows, RemoteGrows
<1>9. Ref(c)'
  <2>1. Ref(c) BY DEF ReferencesInv
  <2>2. copy'[c].agent # Nothing => remote'[copy'[c].agent] # "absent"
    BY <1>2, <1>4, <1>7, <2>1 DEF Ref, RemoteGrows
  <2>3. QED BY <1>1, <1>2, <1>3, <2>1, <2>2, NoMore, RefGoes DEF Ref
<1>10. QED BY <1>2, <1>3, <1>6, <1>7, <1>8, <1>9, ReferencesStep DEF Goes

LEMMA ReferencesDelete ==
  ASSUME ReferencesInv, NEW c \in Procs, Delete(c)
  PROVE  ReferencesInv'
<1>1. ~Idle(c) /\ ~At(c, "upsert") /\ ~At(c, "upsert_active") /\ ~At(c, "insert")
  BY DEF Delete, At, Idle
<1>2. UNCHANGED <<created, repos, activeRepos, remote, agentRepo, jobRepo, ranIn, copy, theRepo, snap>>
  BY DEF Delete, repoRows, cursor, jobs, memory
<1>3. Programs' BY DeleteGoes
<1>4. /\ slots' = slots \ {copy[c].id}
      /\ slotRepo' = [slotRepo EXCEPT ![copy[c].id] = Nothing]
      /\ slotAgent' = [slotAgent EXCEPT ![copy[c].id] = Nothing]
  BY DEF Delete
<1>5. active' \subseteq slots'
  <2>1. slots \ {copy[c].id} \in SUBSET SlotIds BY DEF ReferencesInv, TypeOK
  <2>2. slots \ {copy[c].id} # {} => Lowest(slots \ {copy[c].id}) \in slots \ {copy[c].id}
    BY <2>1, LowestOfSet
  <2>3. active \subseteq slots BY DEF ReferencesInv, TypeOK
  <2>4. QED BY <2>2, <2>3 DEF Delete
<1>6. TypeOK' BY <1>2, <1>4, <1>5 DEF ReferencesInv, TypeOK
<1>7. Rows' BY <1>2, <1>4 DEF ReferencesInv, Rows, TypeOK
<1>8. RemoteGrows BY <1>2 DEF RemoteGrows
<1>9. Ref(c) BY DEF ReferencesInv
<1>10. CASE Ends(c)
  <2>1. Ref(c)' BY <1>2, <1>9, <1>10, RefReturn DEF Ends, Ref
  <2>2. QED BY <1>2, <1>3, <1>6, <1>7, <1>8, <1>10, <2>1, ReferencesStep DEF Ends
<1>11. CASE Goes(c, <<>>)
  <2>1. Ref(c)' BY <1>1, <1>2, <1>3, <1>9, <1>11, NoMore, RefGoes DEF Ref
  <2>2. QED BY <1>2, <1>3, <1>6, <1>7, <1>8, <1>11, <2>1, ReferencesStep DEF Goes
<1>12. CASE \E a \in active' \cap SlotIds : /\ slotRepo[a] \in repos \cap Repos
                                         /\ Goes(c, SetActiveRepo(slotRepo[a]))
  <2>1. PICK r \in repos \cap Repos : Goes(c, SetActiveRepo(r)) BY <1>12
  <2>2. PICK more : more = SetActiveRepo(r) OBVIOUS
  <2>3. Len(more) = 2 /\ more[1][1] = "repos_off" /\ more[2] = <<"repo_on", r>>
    BY <2>2, RepoPush DEF Do
  <2>4. /\ \A i \in 1..Len(more) : more[i][1] = "repo_on" => more[i][2] \in repos'
        /\ Len(more) > 0 => more[1][1] # "reactivate" /\ more[1][1] # "unlink"
    BY <1>2, <2>3
  <2>5. Goes(c, more) BY <2>1, <2>2
  <2>6. Ref(c)' BY <1>1, <1>2, <1>3, <1>9, <2>4, <2>5, RefGoes DEF Ref
  <2>7. QED BY <1>2, <1>3, <1>6, <1>7, <1>8, <2>5, <2>6, ReferencesStep DEF Goes
<1>13. QED BY <1>10, <1>11, <1>12, DeleteGoes DEF Ends

LEMMA ReferencesRepoOn ==
  ASSUME ReferencesInv, NEW c \in Procs, RepoOn(c)
  PROVE  ReferencesInv'
<1>1. ~Idle(c) /\ ~At(c, "upsert") /\ ~At(c, "upsert_active") /\ ~At(c, "insert") /\ At(c, "repo_on")
  BY DEF RepoOn, At, Idle
<1>2. UNCHANGED <<slots, created, active, slotRepo, slotAgent, repos, remote, agentRepo,
                  jobRepo, ranIn, copy, theRepo, snap>>
  BY DEF RepoOn, slotRows, cursor, jobs, memory
<1>3. Programs' /\ Goes(c, <<>>) BY PlainStatementsGo
<1>4. Arg(c) \in repos
  <2>1. Ref(c) BY DEF ReferencesInv
  <2>2. 1 \in DOMAIN prog[c] /\ Head(prog[c]) = prog[c][1] /\ prog[c][1][1] = "repo_on"
    BY <1>1, Arguments, Standing DEF ReferencesInv
  <2>3. QED BY <2>1, <2>2 DEF Ref, Arg
<1>5. activeRepos' \subseteq repos BY <1>4 DEF RepoOn, ReferencesInv, TypeOK
<1>6. snap' \in [Procs -> SUBSET SlotIds] BY <1>2 DEF ReferencesInv, TypeOK
<1>7. QED BY <1>1, <1>2, <1>3, <1>5, <1>6, NoMore, ReferencesQuiet

LEMMA ReferencesUpsert ==
  ASSUME ReferencesInv, NEW c \in Procs, Upsert(c)
  PROVE  ReferencesInv'
<1>1. ~Idle(c) /\ ~At(c, "insert") /\ (At(c, "upsert") \/ At(c, "upsert_active"))
  BY DEF Upsert, At, Idle
<1>2. UNCHANGED <<slots, created, active, slotRepo, slotAgent, remote, agentRepo,
                  jobRepo, ranIn, copy, theRepo, snap>>
  BY DEF Upsert, slotRows, cursor, jobs, memory
<1>3. Programs' /\ Goes(c, <<>>) BY PlainStatementsGo
<1>4. Arg(c) \in Repos BY <1>1, Arguments DEF ReferencesInv
<1>5. repos' = repos \cup {Arg(c)} BY DEF Upsert
<1>6. activeRepos' \subseteq repos'
  BY <1>5 DEF Upsert, ReferencesInv, TypeOK
<1>7. TypeOK' BY <1>2, <1>4, <1>5, <1>6 DEF ReferencesInv, TypeOK
<1>8. Rows' BY <1>2, <1>5 DEF ReferencesInv, Rows
<1>9. RemoteGrows BY <1>2 DEF RemoteGrows
<1>10. Ref(c) BY DEF ReferencesInv
<1>11. Ref(c)'
  <2>1. CASE theRepo[c] \in repos' \cup {Nothing}
    BY <1>1, <1>2, <1>3, <1>5, <1>10, <2>1, NoMore, RefGoes DEF Ref
  <2>2. CASE theRepo[c] \notin repos' \cup {Nothing}
    <3>1. /\ Program(prog[c]) /\ Len(prog[c]) \in Nat /\ 1 \in 1..Len(prog[c])
          /\ DOMAIN prog[c] = 1..Len(prog[c]) /\ Head(prog[c]) = prog[c][1]
          /\ prog[c][1][1] \in {"upsert", "upsert_active"}
      BY <1>1, Standing, Arguments DEF ReferencesInv
    <3>2. PICK i \in DOMAIN prog[c] :
            prog[c][i] \in {<<"upsert", theRepo[c]>>, <<"upsert_active", theRepo[c]>>}
      BY <1>1, <1>5, <1>10, <2>2 DEF Ref, Stored, Idle
    <3>3. i # 1 BY <1>5, <2>2, <3>1, <3>2 DEF Arg
    <3>4. i \in 1..Len(prog[c]) /\ 1 < i BY <3>1, <3>3
    <3>5. Rank(prog[c][1]) < Rank(prog[c][i]) BY <3>1, <3>4 DEF Program
    <3>6. Rank(prog[c][1]) = 2 BY <3>1 DEF Rank
    <3>7. Rank(prog[c][i]) = 2 BY <3>2 DEF Rank
    <3>8. QED BY <3>5, <3>6, <3>7
  <2>3. QED BY <2>1, <2>2
<1>12. QED BY <1>2, <1>3, <1>5, <1>7, <1>8, <1>9, <1>11, ReferencesStep DEF Goes

(* Statements that only change the repository in hand *)
LEMMA ReferencesHold ==
  ASSUME ReferencesInv, NEW c \in Procs, ~Idle(c), NEW r \in repos \cup {Nothing}, Hold(c, r),
         Programs', NEW more, Goes(c, more),
         UNCHANGED <<slots, created, active, slotRepo, slotAgent, repos, activeRepos, remote,
                     agentRepo, jobRepo, ranIn, copy, snap>>,
         ~At(c, "insert"), Len(more) = 0
  PROVE  ReferencesInv'
<1>1. r \in Repos \cup {Nothing} BY DEF ReferencesInv, TypeOK
<1>2. /\ theRepo' \in [Procs -> Repos \cup {Nothing}] /\ theRepo'[c] = r
      /\ \A d \in Procs : d # c => theRepo'[d] = theRepo[d]
  BY <1>1, Held
<1>3. TypeOK' BY <1>2 DEF ReferencesInv, TypeOK
<1>4. Rows' BY DEF ReferencesInv, Rows
<1>5. RemoteGrows BY DEF RemoteGrows
<1>6. Ref(c) BY DEF ReferencesInv
<1>7. Ref(c)' BY <1>2, <1>6, RefGoes DEF Ref
<1>8. QED BY <1>2, <1>3, <1>4, <1>5, <1>7, ReferencesStep DEF Goes

LEMMA ReferencesReread ==
  ASSUME ReferencesInv, NEW c \in Procs, Reread(c)
  PROVE  ReferencesInv'
<1>1. ~Idle(c) /\ ~At(c, "insert") BY DEF Reread, At, Idle
<1>2. UNCHANGED <<slots, created, active, slotRepo, slotAgent, repos, activeRepos, remote,
                  agentRepo, jobRepo, ranIn, copy, snap>>
  BY DEF Reread, slotRows, repoRows, cursor, jobs
<1>3. Programs' /\ Goes(c, <<>>) BY PlainStatementsGo
<1>4. PICK r \in repos \cup {Nothing} : Hold(c, r)
  BY DEF Reread, ReferencesInv, TypeOK
<1>5. QED BY <1>1, <1>2, <1>3, <1>4, NoMore, ReferencesHold

LEMMA ReferencesResolve ==
  ASSUME ReferencesInv, NEW c \in Procs, Resolve(c)
  PROVE  ReferencesInv'
<1>1. ~Idle(c) /\ ~At(c, "insert") /\ ~At(c, "upsert") /\ ~At(c, "upsert_active")
  BY DEF Resolve, At, Idle
<1>2. UNCHANGED <<slots, created, active, slotRepo, slotAgent, repos, activeRepos, remote,
                  agentRepo, jobRepo, ranIn, copy, snap>>
  BY DEF Resolve, slotRows, repoRows, cursor, jobs
<1>3. Programs' BY ResolveGoes
<1>4. CASE Goes(c, <<>>) /\ \E r \in activeRepos : Hold(c, r)
  <2>1. PICK r \in repos \cup {Nothing} : Hold(c, r)
    BY <1>4 DEF ReferencesInv, TypeOK
  <2>2. QED BY <1>1, <1>2, <1>3, <1>4, <2>1, NoMore, ReferencesHold
<1>5. CASE Goes(c, <<>>) /\ Hold(c, Nothing)
  <2>1. PICK r \in repos \cup {Nothing} : Hold(c, r) BY <1>5
  <2>2. QED BY <1>1, <1>2, <1>3, <1>5, <2>1, NoMore, ReferencesHold
<1>6. CASE \E r \in repos : /\ Goes(c, <<Do("repos_off"), <<"repo_on", r>>, Do("reread")>>)
                            /\ UNCHANGED theRepo
  <2>1. PICK r \in repos : /\ Goes(c, <<Do("repos_off"), <<"repo_on", r>>, Do("reread")>>)
                           /\ UNCHANGED theRepo
    BY <1>6
  <2>2. PICK more : more = <<Do("repos_off"), <<"repo_on", r>>, Do("reread")>> OBVIOUS
  <2>3. /\ Len(more) = 3 /\ more[1][1] = "repos_off" /\ more[2] = <<"repo_on", r>>
        /\ more[3][1] = "reread"
    BY <2>2 DEF Do
  <2>4. /\ \A i \in 1..Len(more) : more[i][1] = "repo_on" => more[i][2] \in repos
        /\ Len(more) > 0 => more[1][1] # "reactivate" /\ more[1][1] # "unlink"
    BY <2>3
  <2>5. snap' \in [Procs -> SUBSET SlotIds] /\ activeRepos' \subseteq repos
    BY <1>2 DEF ReferencesInv, TypeOK
  <2>6. QED BY <1>1, <1>2, <1>3, <2>1, <2>2, <2>4, <2>5, ReferencesQuiet
<1>7. QED BY <1>4, <1>5, <1>6, ResolveGoes

LEMMA ReferencesLoad ==
  ASSUME ReferencesInv, NEW c \in Procs, Load(c)
  PROVE  ReferencesInv'
<1>1. ~Idle(c) /\ ~At(c, "insert") /\ ~At(c, "upsert") /\ ~At(c, "upsert_active")
  BY DEF Load, At, Idle
<1>2. UNCHANGED <<slots, created, active, slotRepo, slotAgent, repos, activeRepos, remote,
                  agentRepo, jobRepo, ranIn, copy, snap>>
  BY DEF Load, slotRows, repoRows, cursor, jobs
<1>3. Programs' BY LoadGoes
<1>4. CASE Goes(c, <<>>) /\ Hold(c, copy[c].repo)
  <2>1. PICK r \in repos \cup {Nothing} : Hold(c, r)
    BY <1>4 DEF ReferencesInv, Ref
  <2>2. QED BY <1>1, <1>2, <1>3, <1>4, <2>1, NoMore, ReferencesHold
<1>5. CASE UNCHANGED theRepo /\ Goes(c, <<Do("resolve"), Do("require"), Do("bind")>>)
  <2>1. PICK more : more = <<Do("resolve"), Do("require"), Do("bind")>> OBVIOUS
  <2>2. /\ Len(more) = 3 /\ more[1][1] = "resolve" /\ more[2][1] = "require"
        /\ more[3][1] = "bind"
    BY <2>1 DEF Do
  <2>3. /\ \A i \in 1..Len(more) : more[i][1] = "repo_on" => more[i][2] \in repos
        /\ Len(more) > 0 => more[1][1] # "reactivate" /\ more[1][1] # "unlink"
    BY <2>2
  <2>4. snap' \in [Procs -> SUBSET SlotIds] /\ activeRepos' \subseteq repos
    BY <1>2 DEF ReferencesInv, TypeOK
  <2>5. QED BY <1>1, <1>2, <1>3, <1>5, <2>1, <2>3, <2>4, ReferencesQuiet
<1>6. QED BY <1>4, <1>5, LoadGoes

LEMMA ReferencesRebind ==
  ASSUME ReferencesInv, NEW c \in Procs, Rebind(c)
  PROVE  ReferencesInv'
<1>1. /\ ~Idle(c) /\ ~At(c, "insert") /\ ~At(c, "upsert") /\ ~At(c, "upsert_active")
      /\ At(c, "rebind")
  BY DEF Rebind, At, Idle
<1>2. UNCHANGED <<slots, created, active, repos, activeRepos, remote, agentRepo, jobRepo, ranIn,
                  copy, theRepo, snap>>
  BY DEF Rebind, repoRows, cursor, jobs, memory
<1>3. Programs' /\ Goes(c, <<>>) BY PlainStatementsGo
<1>4. theRepo[c] \in repos \cup {Nothing} /\ theRepo[c] \in Repos \cup {Nothing}
  <2>1. prog[c][1][1] = "rebind" BY <1>1, Standing
  <2>2. Rank(prog[c][1]) = 12 BY <2>1 DEF Rank
  <2>3. QED BY <1>1, <2>2, InHand DEF ReferencesInv, TypeOK
<1>5. /\ slotRepo' \in [SlotIds -> Repos \cup {Nothing}]
      /\ slotAgent' \in [SlotIds -> Agents \cup {Nothing}]
      /\ \A s \in SlotIds : /\ slotRepo'[s] \in repos \cup {Nothing}
                            /\ slotAgent'[s] = slotAgent[s] \/ slotAgent'[s] = Nothing
  BY <1>4 DEF Rebind, ReferencesInv, TypeOK, Rows
<1>6. TypeOK' BY <1>2, <1>5 DEF ReferencesInv, TypeOK
<1>7. Rows' BY <1>2, <1>5 DEF ReferencesInv, Rows
<1>8. RemoteGrows BY <1>2 DEF RemoteGrows
<1>9. Ref(c) BY DEF ReferencesInv
<1>10. Ref(c)' BY <1>1, <1>2, <1>3, <1>4, <1>9, NoMore, RefGoes DEF Ref
<1>11. QED BY <1>2, <1>3, <1>6, <1>7, <1>8, <1>10, ReferencesStep DEF Goes

LEMMA ReferencesBind ==
  ASSUME ReferencesInv, NEW c \in Procs, Bind(c)
  PROVE  ReferencesInv'
<1>1. /\ ~Idle(c) /\ ~At(c, "insert") /\ ~At(c, "upsert") /\ ~At(c, "upsert_active")
      /\ At(c, "bind")
  BY DEF Bind, At, Idle
<1>2. UNCHANGED <<slots, created, active, slotAgent, repos, activeRepos, remote, agentRepo,
                  jobRepo, ranIn, theRepo, snap>>
  BY DEF Bind, repoRows, cursor, jobs
<1>3. Programs' /\ Goes(c, <<>>) BY PlainStatementsGo
<1>4. theRepo[c] \in repos \cup {Nothing} /\ theRepo[c] \in Repos \cup {Nothing}
  <2>1. prog[c][1][1] = "bind" BY <1>1, Standing
  <2>2. Rank(prog[c][1]) = 6 BY <2>1 DEF Rank
  <2>3. QED BY <1>1, <2>2, InHand DEF ReferencesInv, TypeOK
<1>5. /\ slotRepo' \in [SlotIds -> Repos \cup {Nothing}]
      /\ \A s \in SlotIds : slotRepo'[s] \in repos \cup {Nothing}
  BY <1>4 DEF Bind, ReferencesInv, TypeOK, Rows
<1>6. /\ copy' \in [Procs -> SlotCopies] /\ \A d \in Procs : d # c => copy'[d] = copy[d]
      /\ copy'[c].repo \in repos \cup {Nothing}
      /\ copy'[c].agent # Nothing => remote[copy'[c].agent] # "absent"
  <2>1. CASE copy[c].agent = Nothing /\ copy[c].id \in slots
    <3>1. copy[c].id \in SlotIds BY <2>1 DEF ReferencesInv, TypeOK
    <3>2. PICK k \in SlotCopies : k = [id |-> copy[c].id, repo |-> theRepo[c],
                                       agent |-> slotAgent[copy[c].id]]
      BY <1>4, <3>1 DEF SlotCopies, ReferencesInv, TypeOK
    <3>3. copy' = [copy EXCEPT ![c] = k] BY <2>1, <3>2 DEF Bind
    <3>4. copy' \in [Procs -> SlotCopies] /\ copy'[c] = k /\ \A d \in Procs : d # c => copy'[d] = copy[d]
      BY <3>3 DEF ReferencesInv, TypeOK
    <3>5. k.repo = theRepo[c] /\ k.agent = slotAgent[copy[c].id] BY <3>2
    <3>6. QED BY <1>4, <3>1, <3>4, <3>5 DEF ReferencesInv, Rows
  <2>2. CASE ~(copy[c].agent = Nothing /\ copy[c].id \in slots)
    <3>1. UNCHANGED copy BY <2>2 DEF Bind
    <3>2. QED BY <3>1 DEF ReferencesInv, TypeOK, Ref
  <2>3. QED BY <2>1, <2>2
<1>7. TypeOK' BY <1>2, <1>5, <1>6 DEF ReferencesInv, TypeOK
<1>8. Rows' BY <1>2, <1>5 DEF ReferencesInv, Rows
<1>9. RemoteGrows BY <1>2 DEF RemoteGrows
<1>10. Ref(c)' BY <1>1, <1>2, <1>3, <1>4, <1>6, NoMore, RefGoes
<1>11. QED BY <1>2, <1>3, <1>6, <1>7, <1>8, <1>9, <1>10, ReferencesStep DEF Goes

LEMMA ReferencesDispatch ==
  ASSUME ReferencesInv, NEW c \in Procs, Dispatch(c)
  PROVE  ReferencesInv'
<1>1. /\ ~Idle(c) /\ ~At(c, "insert") /\ ~At(c, "upsert") /\ ~At(c, "upsert_active")
      /\ At(c, "dispatch")
  BY DEF Dispatch, At, Idle
<1>2. UNCHANGED <<slots, created, active, slotRepo, slotAgent, repos, activeRepos, remote,
                  agentRepo, ranIn, copy, theRepo, snap>>
  BY DEF Dispatch, slotRows, repoRows, cursor, memory
<1>3. Programs' /\ Goes(c, <<>>) BY PlainStatementsGo
<1>4. Arg(c) \in Jobs BY <1>1, Arguments DEF ReferencesInv
<1>5. TypeOK' BY <1>2, <1>4 DEF Dispatch, ReferencesInv, TypeOK
<1>6. Rows' BY <1>2 DEF ReferencesInv, Rows
<1>7. RemoteGrows BY <1>2 DEF RemoteGrows
<1>8. Ref(c) BY DEF ReferencesInv
<1>9. Ref(c)' BY <1>1, <1>2, <1>3, <1>8, NoMore, RefGoes DEF Ref
<1>10. QED BY <1>2, <1>3, <1>5, <1>6, <1>7, <1>9, ReferencesStep DEF Goes

LEMMA ReferencesStartRun ==
  ASSUME ReferencesInv, NEW c \in Procs, StartRun(c)
  PROVE  ReferencesInv'
<1>1. /\ ~Idle(c) /\ ~At(c, "insert") /\ ~At(c, "upsert") /\ ~At(c, "upsert_active")
      /\ At(c, "launch")
  BY DEF StartRun, At, Idle
<1>2. UNCHANGED <<slots, created, active, slotRepo, slotAgent, repos, activeRepos, jobRepo,
                  theRepo, snap>>
  BY DEF StartRun, slotRows, repoRows
<1>3. Programs' /\ Goes(c, <<>>) BY PlainStatementsGo
<1>4. Arg(c) \in Jobs /\ theRepo[c] \in Repos \cup {Nothing} /\ copy[c] \in SlotCopies
  BY <1>1, Arguments DEF ReferencesInv, TypeOK
<1>5. Ref(c) BY DEF ReferencesInv
<1>6. CASE /\ State(copy[c].agent) \in {"live", "archived"}
           /\ ranIn' = [ranIn EXCEPT ![Arg(c)] = agentRepo[copy[c].agent]]
           /\ UNCHANGED <<cursor, copy>>
  <2>1. copy[c].agent \in Agents BY <1>4, <1>6 DEF State, SlotCopies
  <2>2. TypeOK' BY <1>2, <1>4, <1>6, <2>1 DEF ReferencesInv, TypeOK, cursor
  <2>3. Rows' BY <1>2, <1>6 DEF ReferencesInv, Rows, cursor
  <2>4. RemoteGrows BY <1>6 DEF RemoteGrows, cursor
  <2>5. Ref(c)' BY <1>1, <1>2, <1>3, <1>5, <1>6, NoMore, RefGoes DEF Ref, cursor
  <2>6. QED BY <1>2, <1>3, <1>6, <2>2, <2>3, <2>4, <2>5, ReferencesStep DEF Goes
<1>7. ASSUME NEW b \in Agents, remote[b] = "absent", remote' = [remote EXCEPT ![b] = "live"],
             agentRepo' = [agentRepo EXCEPT ![b] = theRepo[c]],
             copy' = [copy EXCEPT ![c].agent = b],
             ranIn' = [ranIn EXCEPT ![Arg(c)] = theRepo[c]]
      PROVE  ReferencesInv'
  <2>1. /\ copy' \in [Procs -> SlotCopies] /\ \A d \in Procs : d # c => copy'[d] = copy[d]
        /\ copy'[c].repo = copy[c].repo /\ copy'[c].agent = b
    <3>1. PICK k \in SlotCopies : k = [copy[c] EXCEPT !.agent = b]
      BY <1>4 DEF SlotCopies
    <3>2. copy' = [copy EXCEPT ![c] = k] BY <1>7, <3>1
    <3>3. k.repo = copy[c].repo /\ k.agent = b BY <1>4, <3>1 DEF SlotCopies
    <3>4. QED BY <3>2, <3>3 DEF ReferencesInv, TypeOK
  <2>2. TypeOK' BY <1>2, <1>4, <1>7, <2>1 DEF ReferencesInv, TypeOK
  <2>3. RemoteGrows BY <1>7 DEF RemoteGrows, ReferencesInv, TypeOK
  <2>4. Rows'
    <3>1. \A s \in SlotIds : slotAgent[s] \in Agents \cup {Nothing} BY DEF ReferencesInv, TypeOK
    <3>2. QED BY <1>2, <2>3, <3>1 DEF ReferencesInv, Rows, RemoteGrows
  <2>5. remote'[b] = "live" BY <1>7 DEF ReferencesInv, TypeOK
  <2>6. Ref(c)' BY <1>1, <1>2, <1>3, <1>5, <2>1, <2>5, NoMore, RefGoes DEF Ref
  <2>7. QED BY <1>2, <1>3, <2>1, <2>2, <2>3, <2>4, <2>6, ReferencesStep DEF Goes
<1>8. QED BY <1>6, <1>7 DEF StartRun

LEMMA ReferencesLink ==
  ASSUME ReferencesInv, NEW c \in Procs, Link(c) \/ Unlink(c)
  PROVE  ReferencesInv'
<1>1. /\ ~Idle(c) /\ ~At(c, "insert") /\ ~At(c, "upsert") /\ ~At(c, "upsert_active")
  BY DEF Link, Unlink, At, Idle
<1>2. UNCHANGED <<slots, created, active, slotRepo, repos, activeRepos, remote, agentRepo,
                  jobRepo, ranIn, copy, theRepo, snap>>
  BY DEF Link, Unlink, repoRows, cursor, jobs, memory
<1>3. Programs' /\ Goes(c, <<>>) BY PlainStatementsGo
<1>4. copy[c].agent \in Agents \cup {Nothing} BY DEF ReferencesInv, TypeOK, SlotCopies
<1>5. Ref(c) BY DEF ReferencesInv
<1>6. /\ slotAgent' \in [SlotIds -> Agents \cup {Nothing}]
      /\ \A s \in SlotIds : \/ slotAgent'[s] = slotAgent[s] \/ slotAgent'[s] = Nothing
                            \/ slotAgent'[s] = copy[c].agent /\ s \in slots
  BY <1>4 DEF Link, Unlink, ReferencesInv, TypeOK
<1>7. TypeOK' BY <1>2, <1>6 DEF ReferencesInv, TypeOK
<1>8. Rows' BY <1>2, <1>5, <1>6 DEF ReferencesInv, Rows, Ref
<1>9. RemoteGrows BY <1>2 DEF RemoteGrows
<1>10. Ref(c)' BY <1>1, <1>2, <1>3, <1>5, NoMore, RefGoes DEF Ref
<1>11. QED BY <1>2, <1>3, <1>7, <1>8, <1>9, <1>10, ReferencesStep DEF Goes

-----------------------------------------------------------------------------
(* The operations begin their programs *)

(* Who executes which statements *)
Own(c, name) ==
  /\ c = Cron => name \in {"read", "probe", "unlink"}
  /\ c = Worker => name \in {"ensure", "load", "launch", "link", "resolve", "require", "bind",
                            "insert_begin", "insert", "activate_begin", "activate", "repos_off",
                            "repo_on", "reread"}
  /\ c \in Handlers => name \notin {"launch", "link", "probe", "unlink"}

Roles == \A c \in Procs : \A i \in DOMAIN prog[c] : Own(c, prog[c][i][1])

(* An operation begins on c: the program p, with the repository r in hand *)
Begins(c, p, r) ==
  /\ c \in Procs /\ Program(p) /\ Len(p) > 0 /\ BeginWith(c, p, r)
  /\ r \in Repos \cup {Nothing}
  /\ \/ r \in repos \cup {Nothing}
     \/ \E i \in 1..Len(p) : p[i] \in {<<"upsert", r>>, <<"upsert_active", r>>}
  /\ \A i \in 1..Len(p) : Own(c, p[i][1]) /\ (p[i][1] = "repo_on" => p[i][2] \in repos)
  /\ p[1][1] \in {"activate_begin", "count", "read", "repos_off", "upsert", "ensure"}
  /\ \A i \in 1..Len(p) : p[i][1] = "insert" => p[1][1] = "count"
  /\ \A i \in 1..Len(p) : p[i][1] = "rebind" =>
       /\ p[1][1] = "repos_off" /\ c \in Handlers
       /\ \A k \in 1..Len(p) :
            /\ p[k][1] \notin {"activate_begin", "activate", "insert"}
            /\ k + 1 \in 1..Len(p) => Follows(p[k], p[k + 1], r)
  /\ \A i \in 1..Len(p) : Turns(p[i]) =>
       /\ p[1][1] # "count"
       /\ (\E k \in 1..Len(p) : p[k][1] = "rebind") \/ repos = {}

LEMMA HandlersAreProcs ==
  /\ \A h \in Handlers : h \in Procs /\ h # Worker /\ h # Cron /\ h # Nothing
  /\ Worker \in Procs /\ Cron \in Procs /\ Worker # Cron /\ Nothing # Worker /\ Nothing # Cron
  /\ Worker \notin Handlers /\ Cron \notin Handlers
BY AgentSlotsAssumption DEF Procs, Worker, Cron, Nothing

LEMMA SelectAgentBegins ==
  ASSUME NEW h \in Handlers, NEW s \in SlotIds, SelectAgent(h, s)
  PROVE  \E p, r : Begins(h, p, r)
<1>1. PICK p : p = SetActiveSlot(s) OBVIOUS
<1>2. Program(p) /\ Len(p) = 2 /\ p[1][1] = "activate_begin" /\ p[2][1] = "activate"
  BY <1>1, SlotPush
<1>3. Len(p) > 0 BY <1>2
<1>4. BeginWith(h, p, Nothing) BY <1>1 DEF SelectAgent, Begin
<1>5. Begins(h, p, Nothing)
  BY <1>2, <1>3, <1>4, HandlersAreProcs DEF Begins, Own, Turns
<1>6. QED BY <1>5

LEMMA ReadersBegin ==
  ASSUME NEW h \in Handlers, NEW s \in SlotIds, DeleteAgent(h, s) \/ ArchiveAgent(h, s)
  PROVE  \E p, r : Begins(h, p, r)
<1>1. CASE DeleteAgent(h, s)
  <2>1. PICK p : p = <<<<"read", s>>, Do("archive"), Do("delete_check"), Do("delete_begin"),
                       Do("delete")>>
    OBVIOUS
  <2>2. /\ Len(p) = 5 /\ p[1][1] = "read" /\ p[2][1] = "archive" /\ p[3][1] = "delete_check"
        /\ p[4][1] = "delete_begin" /\ p[5][1] = "delete"
    BY <2>1 DEF Do
  <2>3. Program(p) BY <2>1, SlotPrograms
  <2>4. Len(p) > 0 BY <2>2
  <2>5. BeginWith(h, p, Nothing) BY <1>1, <2>1 DEF DeleteAgent, Begin
  <2>6. Begins(h, p, Nothing)
    BY <2>2, <2>3, <2>4, <2>5, HandlersAreProcs DEF Begins, Own, Turns
  <2>7. QED BY <2>6
<1>2. CASE ArchiveAgent(h, s)
  <2>1. PICK p : p = <<<<"read", s>>, Do("archive")>> OBVIOUS
  <2>2. Len(p) = 2 /\ p[1][1] = "read" /\ p[2][1] = "archive" BY <2>1 DEF Do
  <2>3. Program(p) BY <2>1, SlotPrograms
  <2>4. Len(p) > 0 BY <2>2
  <2>5. BeginWith(h, p, Nothing) BY <1>2, <2>1 DEF ArchiveAgent, Begin
  <2>6. Begins(h, p, Nothing)
    BY <2>2, <2>3, <2>4, <2>5, HandlersAreProcs DEF Begins, Own, Turns
  <2>7. QED BY <2>6
<1>3. QED BY <1>1, <1>2

LEMMA CreatorsBegin ==
  ASSUME NEW h \in Handlers, NewAgent(h) \/ CreateAgentWeb(h)
  PROVE  \E p, r : Begins(h, p, r)
<1>1. CASE NewAgent(h)
  <2>1. PICK p : p = <<Do("count"), Do("resolve"), Do("insert_begin"), Do("insert")>> OBVIOUS
  <2>2. /\ Len(p) = 4 /\ p[1][1] = "count" /\ p[2][1] = "resolve" /\ p[3][1] = "insert_begin"
        /\ p[4][1] = "insert"
    BY <2>1 DEF Do
  <2>3. Program(p) /\ p = <<Do("count"), Do("resolve")>> \o CreateSlot
    BY <2>1, NewAgentProgram
  <2>4. Len(p) > 0 BY <2>2
  <2>5. BeginWith(h, p, Nothing) BY <1>1, <2>3 DEF NewAgent, Begin
  <2>6. Begins(h, p, Nothing)
    BY <2>2, <2>3, <2>4, <2>5, HandlersAreProcs DEF Begins, Own, Turns
  <2>7. QED BY <2>6
<1>2. CASE CreateAgentWeb(h)
  <2>1. PICK p : p = <<Do("count"), Do("resolve"), Do("insert_begin"), Do("insert"),
                       Do("reactivate")>>
    OBVIOUS
  <2>2. /\ Len(p) = 5 /\ p[1][1] = "count" /\ p[2][1] = "resolve" /\ p[3][1] = "insert_begin"
        /\ p[4][1] = "insert" /\ p[5][1] = "reactivate"
    BY <2>1 DEF Do
  <2>3. Program(p) /\ p = <<Do("count"), Do("resolve")>> \o CreateSlot \o <<Do("reactivate")>>
    BY <2>1, CreateAgentProgram
  <2>4. Len(p) > 0 BY <2>2
  <2>5. BeginWith(h, p, Nothing) BY <1>2, <2>3 DEF CreateAgentWeb, Begin
  <2>6. Begins(h, p, Nothing)
    BY <2>2, <2>3, <2>4, <2>5, HandlersAreProcs DEF Begins, Own, Turns
  <2>7. QED BY <2>6
<1>3. QED BY <1>1, <1>2

LEMMA SelectRepoBegins ==
  ASSUME NEW h \in Handlers, NEW q \in Repos, SelectRepo(h, q)
  PROVE  \E p, r : Begins(h, p, r)
<1>1. PICK p : p = <<Do("repos_off"), <<"repo_on", q>>, Do("reread"), Do("require"),
                     Do("ensure"), Do("rebind")>>
  OBVIOUS
<1>2. /\ Len(p) = 6 /\ p[1][1] = "repos_off" /\ p[2][1] = "repo_on" /\ p[2][2] = q
      /\ p[3][1] = "reread" /\ p[4][1] = "require" /\ p[5][1] = "ensure" /\ p[6][1] = "rebind"
  BY <1>1 DEF Do
<1>3. Program(p) /\ p = SetActiveRepo(q) \o <<Do("reread"), Do("require")>> \o SyncSlotRepo
  BY <1>1, SelectRepoProgram
<1>4. Len(p) > 0 BY <1>2
<1>5. BeginWith(h, p, Nothing) /\ q \in repos BY <1>3 DEF SelectRepo, Begin
<1>6. /\ \A i \in 1..Len(p) : Own(h, p[i][1]) /\ (p[i][1] = "repo_on" => p[i][2] \in repos)
      /\ \A k \in 1..Len(p) :
           /\ p[k][1] \notin {"activate_begin", "activate", "insert"}
           /\ k + 1 \in 1..Len(p) => Follows(p[k], p[k + 1], Nothing)
      /\ p[6][1] = "rebind" /\ 6 \in 1..Len(p)
  BY <1>2, <1>5, HandlersAreProcs DEF Own, Follows, Turns
<1>7. Begins(h, p, Nothing)
  BY <1>2, <1>3, <1>4, <1>5, <1>6, HandlersAreProcs DEF Begins
<1>8. QED BY <1>7

LEMMA UpdateRepoBegins ==
  ASSUME NEW h \in Handlers, NEW r \in Repos, NEW name \in {"repo_on", "upsert_active"},
         NEW p, p = <<Do("repos_off"), <<name, r>>, Do("ensure"), Do("rebind")>>,
         name = "repo_on" => r \in repos, BeginWith(h, p, r), Program(p)
  PROVE  Begins(h, p, r)
<1>1. /\ Len(p) = 4 /\ p[1][1] = "repos_off" /\ p[2] = <<name, r>> /\ p[3][1] = "ensure"
      /\ p[4][1] = "rebind"
  BY DEF Do
<1>2. /\ \A i \in 1..Len(p) : Own(h, p[i][1]) /\ (p[i][1] = "repo_on" => p[i][2] \in repos)
      /\ \A k \in 1..Len(p) :
           /\ p[k][1] \notin {"activate_begin", "activate", "insert"}
           /\ k + 1 \in 1..Len(p) => Follows(p[k], p[k + 1], r)
      /\ p[4][1] = "rebind" /\ 4 \in 1..Len(p)
  BY <1>1, HandlersAreProcs DEF Own, Turns, Follows
<1>3. Len(p) > 0 BY <1>1
<1>4. \/ r \in repos \cup {Nothing}
      \/ \E i \in 1..Len(p) : p[i] \in {<<"upsert", r>>, <<"upsert_active", r>>}
  <2>1. 2 \in 1..Len(p) BY <1>1
  <2>2. CASE name = "upsert_active" BY <1>1, <2>1, <2>2
  <2>3. QED BY <2>2
<1>5. QED
  BY <1>1, <1>2, <1>3, <1>4, HandlersAreProcs DEF Begins

LEMMA AddRepoBegins ==
  ASSUME ReferencesInv, NEW h \in Handlers, NEW q \in Repos, NEW r \in {q, Nothing},
         NEW make \in BOOLEAN, make => repos = {}, BeginWith(h, InsertRepo(q, make), r)
  PROVE  \E p : Begins(h, p, r)
<1>1. CASE make
  <2>1. PICK p : p = <<Do("repos_off"), <<"upsert_active", q>>>> OBVIOUS
  <2>2. Len(p) = 2 /\ p[1][1] = "repos_off" /\ p[2] = <<"upsert_active", q>>
    BY <2>1 DEF Do
  <2>3. Program(p) /\ InsertRepo(q, make) = p BY <1>1, <2>1, RepoPrograms DEF InsertRepo
  <2>4. Len(p) > 0 BY <2>2
  <2>5. \A i \in 1..Len(p) : /\ p[i][1] \in {"repos_off", "upsert_active"}
                             /\ Own(h, p[i][1])
    BY <2>2, HandlersAreProcs DEF Own
  <2>6. \/ r \in repos \cup {Nothing}
        \/ \E i \in 1..Len(p) : p[i] \in {<<"upsert", r>>, <<"upsert_active", r>>}
    <3>1. 2 \in 1..Len(p) BY <2>2
    <3>2. QED BY <2>2, <3>1
  <2>7. Begins(h, p, r)
    BY <1>1, <2>2, <2>3, <2>4, <2>5, <2>6, HandlersAreProcs DEF Begins
  <2>8. QED BY <2>7
<1>2. CASE ~make
  <2>1. PICK p : p = <<<<"upsert", q>>>> OBVIOUS
  <2>2. Len(p) = 1 /\ p[1] = <<"upsert", q>> BY <2>1
  <2>3. Program(p) /\ InsertRepo(q, make) = p BY <1>2, <2>1, RepoPrograms DEF InsertRepo
  <2>4. Len(p) > 0 BY <2>2
  <2>5. \A i \in 1..Len(p) : p[i][1] = "upsert" /\ Own(h, p[i][1])
    BY <2>2, HandlersAreProcs DEF Own
  <2>6. \/ r \in repos \cup {Nothing}
        \/ \E i \in 1..Len(p) : p[i] \in {<<"upsert", r>>, <<"upsert_active", r>>}
    <3>1. 1 \in 1..Len(p) BY <2>2
    <3>2. QED BY <2>2, <3>1
  <2>7. Begins(h, p, r)
    BY <2>2, <2>3, <2>4, <2>5, <2>6, HandlersAreProcs DEF Begins, Turns
  <2>8. QED BY <2>7
<1>3. QED BY <1>1, <1>2

LEMMA RepoHandlersBegin ==
  ASSUME ReferencesInv, NEW h \in Handlers, NEW q \in Repos,
         UpdateRepoWeb(h, q) \/ AddRepo(h, q) \/ CreateRepoWeb(h, q)
  PROVE  \E p, r : Begins(h, p, r)
<1>1. CASE UpdateRepoWeb(h, q)
  <2>1. PICK p : p = <<Do("repos_off"), <<"repo_on", q>>, Do("ensure"), Do("rebind")>> OBVIOUS
  <2>2. Program(p) /\ SetActiveRepo(q) \o SyncSlotRepo = p BY <2>1, UpdateRepoProgram
  <2>3. BeginWith(h, p, q) /\ q \in repos BY <1>1, <2>2 DEF UpdateRepoWeb
  <2>4. PICK name \in {"repo_on", "upsert_active"} : name = "repo_on" OBVIOUS
  <2>5. p = <<Do("repos_off"), <<name, q>>, Do("ensure"), Do("rebind")>> BY <2>1, <2>4
  <2>6. Begins(h, p, q) BY <2>2, <2>3, <2>5, UpdateRepoBegins
  <2>7. QED BY <2>6
<1>2. CASE AddRepo(h, q)
  <2>1. PICK make \in BOOLEAN : make = (repos = {}) OBVIOUS
  <2>2. BeginWith(h, InsertRepo(q, make), Nothing) BY <1>2, <2>1 DEF AddRepo, Begin
  <2>3. \E p : Begins(h, p, Nothing) BY <2>1, <2>2, AddRepoBegins
  <2>4. QED BY <2>3
<1>3. CASE CreateRepoWeb(h, q)
  <2>1. PICK makeActive \in BOOLEAN :
          LET make == makeActive \/ repos = {}
          IN BeginWith(h, InsertRepo(q, make) \o (IF make THEN SyncSlotRepo ELSE <<>>), q)
    BY <1>3 DEF CreateRepoWeb
  <2>2. PICK make \in BOOLEAN : make = (makeActive \/ repos = {}) OBVIOUS
  <2>3. BeginWith(h, InsertRepo(q, make) \o (IF make THEN SyncSlotRepo ELSE <<>>), q)
    BY <2>1, <2>2
  <2>4. CASE make
    <3>1. PICK p : p = <<Do("repos_off"), <<"upsert_active", q>>, Do("ensure"), Do("rebind")>>
      OBVIOUS
    <3>2. Program(p) /\ <<Do("repos_off"), <<"upsert_active", q>>>> \o SyncSlotRepo = p
      BY <3>1, UpdateRepoProgram
    <3>3. InsertRepo(q, make) = <<Do("repos_off"), <<"upsert_active", q>>>>
      BY <2>4 DEF InsertRepo
    <3>4. BeginWith(h, p, q) BY <2>3, <2>4, <3>2, <3>3
    <3>5. PICK name \in {"repo_on", "upsert_active"} : name = "upsert_active" OBVIOUS
    <3>6. p = <<Do("repos_off"), <<name, q>>, Do("ensure"), Do("rebind")>> BY <3>1, <3>5
    <3>7. Begins(h, p, q) BY <3>2, <3>4, <3>5, <3>6, UpdateRepoBegins
    <3>8. QED BY <3>7
  <2>5. CASE ~make
    <3>1. InsertRepo(q, make) \in Seq(Statements)
      BY RepoPrograms DEF Program
    <3>2. InsertRepo(q, make) \o <<>> = InsertRepo(q, make)
      BY <3>1, ConcatEmptySeq
    <3>3. BeginWith(h, InsertRepo(q, make), q) BY <2>3, <2>5, <3>2
    <3>4. \E p : Begins(h, p, q) BY <2>5, <3>3, AddRepoBegins
    <3>5. QED BY <3>4
  <2>6. QED BY <2>4, <2>5
<1>4. QED BY <1>1, <1>2, <1>3

LEMMA PromptsBegin ==
  ASSUME NEW h \in Handlers, NEW j \in Jobs,
         Prompt(h, j) \/ \E s \in SlotIds : PromptWeb(h, j, s)
  PROVE  \E p, r : Begins(h, p, r)
<1>1. CASE Prompt(h, j)
  <2>1. PICK p : p = <<Do("ensure"), Do("load"), <<"dispatch", j>>>> OBVIOUS
  <2>2. Len(p) = 3 /\ p[1][1] = "ensure" /\ p[2][1] = "load" /\ p[3][1] = "dispatch"
    BY <2>1 DEF Do
  <2>3. Program(p) /\ p = RunContext \o <<<<"dispatch", j>>>> BY <2>1, PromptPrograms
  <2>4. Len(p) > 0 BY <2>2
  <2>5. BeginWith(h, p, Nothing) BY <1>1, <2>3 DEF Prompt, Begin
  <2>6. Begins(h, p, Nothing)
    BY <2>2, <2>3, <2>4, <2>5, HandlersAreProcs DEF Begins, Own, Turns
  <2>7. QED BY <2>6
<1>2. CASE \E s \in SlotIds : PromptWeb(h, j, s)
  <2>1. PICK s \in SlotIds : PromptWeb(h, j, s) BY <1>2
  <2>2. PICK p : p = <<<<"activate_begin", s>>, <<"activate", s>>, Do("ensure"), Do("load"),
                       <<"dispatch", j>>>>
    OBVIOUS
  <2>3. /\ Len(p) = 5 /\ p[1][1] = "activate_begin" /\ p[2][1] = "activate"
        /\ p[3][1] = "ensure" /\ p[4][1] = "load" /\ p[5][1] = "dispatch"
    BY <2>2 DEF Do
  <2>4. Program(p) /\ p = SetActiveSlot(s) \o RunContext \o <<<<"dispatch", j>>>>
    BY <2>2, PromptWebProgram
  <2>5. Len(p) > 0 BY <2>3
  <2>6. BeginWith(h, p, Nothing) BY <2>1, <2>4 DEF PromptWeb, Begin
  <2>7. \A i \in 1..Len(p) :
          /\ Own(h, p[i][1])
          /\ p[i][1] \notin {"insert", "rebind", "repo_on", "upsert_active"}
    BY <2>3, HandlersAreProcs DEF Own
  <2>8. Begins(h, p, Nothing)
    BY <2>3, <2>4, <2>5, <2>6, <2>7, HandlersAreProcs DEF Begins, Turns
  <2>9. QED BY <2>8
<1>3. QED BY <1>1, <1>2

LEMMA LaunchBegins ==
  ASSUME NEW j \in Jobs, Launch(j)
  PROVE  \E p, r : Begins(Worker, p, r)
<1>1. PICK p : p = <<Do("ensure"), Do("load"), <<"launch", j>>, Do("link")>> OBVIOUS
<1>2. /\ Len(p) = 4 /\ p[1][1] = "ensure" /\ p[2][1] = "load" /\ p[3][1] = "launch"
      /\ p[4][1] = "link"
  BY <1>1 DEF Do
<1>3. Program(p) /\ p = RunContext \o <<<<"launch", j>>, Do("link")>> BY <1>1, PromptPrograms
<1>4. Len(p) > 0 BY <1>2
<1>5. BeginWith(Worker, p, Nothing) BY <1>3 DEF Launch, Begin
<1>6. Begins(Worker, p, Nothing)
  BY <1>2, <1>3, <1>4, <1>5, HandlersAreProcs DEF Begins, Own, Turns
<1>7. QED BY <1>6

LEMMA SyncSlotBegins ==
  ASSUME NEW s \in SlotIds, SyncSlot(s)
  PROVE  \E p, r : Begins(Cron, p, r)
<1>1. PICK p : p = <<<<"read", s>>, Do("probe")>> OBVIOUS
<1>2. Len(p) = 2 /\ p[1][1] = "read" /\ p[2][1] = "probe" BY <1>1 DEF Do
<1>3. Program(p) BY <1>1, SlotPrograms
<1>4. Len(p) > 0 BY <1>2
<1>5. BeginWith(Cron, p, Nothing) BY <1>1 DEF SyncSlot, Begin
<1>6. Begins(Cron, p, Nothing)
  BY <1>2, <1>3, <1>4, <1>5, HandlersAreProcs DEF Begins, Own, Turns
<1>7. QED BY <1>6

(* The four kinds of steps *)
LEMMA Steps ==
  ASSUME ReferencesInv, Next
  PROVE  \/ \E c \in Procs : \E p, r : Begins(c, p, r)
         \/ \E c \in Procs : Statement(c)
         \/ \E c \in Procs : Crash(c)
         \/ \E a \in Agents : RemoteDelete(a)
<1>1. ASSUME NEW h \in Handlers, NEW s \in SlotIds,
             SelectAgent(h, s) \/ DeleteAgent(h, s) \/ ArchiveAgent(h, s)
      PROVE  \E c \in Procs : \E p, r : Begins(c, p, r)
  BY <1>1, SelectAgentBegins, ReadersBegin, HandlersAreProcs
<1>2. ASSUME NEW h \in Handlers, NewAgent(h) \/ CreateAgentWeb(h)
      PROVE  \E c \in Procs : \E p, r : Begins(c, p, r)
  BY <1>2, CreatorsBegin, HandlersAreProcs
<1>3. ASSUME NEW h \in Handlers, NEW q \in Repos,
             \/ SelectRepo(h, q) \/ UpdateRepoWeb(h, q)
             \/ AddRepo(h, q) \/ CreateRepoWeb(h, q)
      PROVE  \E c \in Procs : \E p, r : Begins(c, p, r)
  BY <1>3, SelectRepoBegins, RepoHandlersBegin, HandlersAreProcs
<1>4. ASSUME NEW h \in Handlers, NEW j \in Jobs,
             Prompt(h, j) \/ \E s \in SlotIds : PromptWeb(h, j, s)
      PROVE  \E c \in Procs : \E p, r : Begins(c, p, r)
  BY <1>4, PromptsBegin, HandlersAreProcs
<1>5. ASSUME NEW j \in Jobs, Launch(j)
      PROVE  \E c \in Procs : \E p, r : Begins(c, p, r)
  BY <1>5, LaunchBegins, HandlersAreProcs
<1>6. ASSUME NEW s \in SlotIds, SyncSlot(s)
      PROVE  \E c \in Procs : \E p, r : Begins(c, p, r)
  BY <1>6, SyncSlotBegins, HandlersAreProcs
<1>7. QED BY <1>1, <1>2, <1>3, <1>4, <1>5, <1>6 DEF Next

LEMMA ReferencesBegin ==
  ASSUME ReferencesInv, NEW c \in Procs, NEW p, NEW r, Begins(c, p, r)
  PROVE  ReferencesInv' /\ prog'[c] = p /\ \A d \in Procs : d # c => prog'[d] = prog[d]
<1>1. /\ Program(p) /\ BeginWith(c, p, r) /\ r \in Repos \cup {Nothing}
      /\ Len(p) > 0 /\ p[1][1] # "reactivate" /\ p[1][1] # "unlink"
      /\ \A i \in 1..Len(p) : p[i][1] = "repo_on" => p[i][2] \in repos
  BY DEF Begins
<1>2. /\ prog' = [prog EXCEPT ![c] = p] /\ copy' = [copy EXCEPT ![c] = NoCopy] /\ Hold(c, r)
      /\ UNCHANGED <<slots, created, active, slotRepo, slotAgent, repos, activeRepos, remote,
                     agentRepo, jobRepo, ranIn, snap>>
  BY <1>1 DEF BeginWith, slotRows, repoRows, cursor, jobs
<1>3. /\ Programs' /\ prog'[c] = p /\ \A d \in Procs : d # c => prog'[d] = prog[d]
  BY <1>1, <1>2, BeginStarts DEF ReferencesInv
<1>4. /\ theRepo' \in [Procs -> Repos \cup {Nothing}] /\ theRepo'[c] = r
      /\ \A d \in Procs : d # c => theRepo'[d] = theRepo[d]
  BY <1>1, <1>2, Held
<1>5. /\ copy' \in [Procs -> SlotCopies] /\ copy'[c] = NoCopy
      /\ \A d \in Procs : d # c => copy'[d] = copy[d]
  <2>1. NoCopy \in SlotCopies BY DEF NoCopy, SlotCopies
  <2>2. QED BY <1>2, <2>1 DEF ReferencesInv, TypeOK
<1>6. TypeOK' BY <1>2, <1>4, <1>5 DEF ReferencesInv, TypeOK
<1>7. Rows' BY <1>2 DEF ReferencesInv, Rows
<1>8. RemoteGrows BY <1>2 DEF RemoteGrows
<1>9. DOMAIN p = 1..Len(p) /\ Head(p) = p[1]
  <2>1. p \in Seq(Statements) /\ Len(p) > 0 BY <1>1 DEF Program
  <2>2. p # <<>> BY <2>1, EmptySeq
  <2>3. QED BY <2>1, <2>2, LenProperties
<1>10. Stored(c)'
  BY <1>2, <1>3, <1>4, <1>9 DEF Begins, Stored
<1>11. copy'[c].repo = Nothing /\ copy'[c].agent = Nothing BY <1>5 DEF NoCopy
<1>12. Ref(c)'
  BY <1>1, <1>2, <1>3, <1>9, <1>10, <1>11 DEF Ref, At
<1>13. QED BY <1>2, <1>3, <1>4, <1>5, <1>6, <1>7, <1>8, <1>12, ReferencesStep

LEMMA ReferencesCrash ==
  ASSUME ReferencesInv, NEW c \in Procs, Crash(c)
  PROVE  ReferencesInv' /\ Ends(c)
<1>1. /\ prog' = [prog EXCEPT ![c] = <<>>]
      /\ UNCHANGED <<slots, created, active, slotRepo, slotAgent, repos, activeRepos, remote,
                     agentRepo, jobRepo, ranIn, copy, theRepo, snap>>
  BY DEF Crash, slotRows, repoRows, cursor, jobs, memory
<1>2. Programs' /\ Ends(c) BY <1>1, ReturnEnds DEF ReferencesInv, Ends
<1>3. TypeOK' BY <1>1 DEF ReferencesInv, TypeOK
<1>4. Rows' BY <1>1 DEF ReferencesInv, Rows
<1>5. RemoteGrows BY <1>1 DEF RemoteGrows
<1>6. Ref(c) BY DEF ReferencesInv
<1>7. Ref(c)' BY <1>1, <1>2, <1>6, RefReturn DEF Ends, Ref
<1>8. QED BY <1>1, <1>2, <1>3, <1>4, <1>5, <1>7, ReferencesStep DEF Ends

LEMMA ReferencesRemoteDelete ==
  ASSUME ReferencesInv, NEW a \in Agents, RemoteDelete(a)
  PROVE  ReferencesInv'
<1>1. /\ remote' = [remote EXCEPT ![a] = "deleted"]
      /\ UNCHANGED <<slots, created, active, slotRepo, slotAgent, repos, activeRepos,
                     agentRepo, jobRepo, ranIn, prog, copy, theRepo, snap>>
  BY DEF RemoteDelete, slotRows, repoRows, jobs, memory
<1>2. remote' \in [Agents -> {"absent", "live", "archived", "deleted"}] /\ RemoteGrows
  BY <1>1 DEF RemoteGrows, ReferencesInv, TypeOK
<1>3. TypeOK' BY <1>1, <1>2 DEF ReferencesInv, TypeOK
<1>4. Rows'
  <2>1. \A s \in SlotIds : slotAgent[s] \in Agents \cup {Nothing} BY DEF ReferencesInv, TypeOK
  <2>2. QED BY <1>1, <1>2, <2>1 DEF ReferencesInv, Rows, RemoteGrows
<1>5. Programs' BY <1>1 DEF ReferencesInv, Programs
<1>6. ASSUME NEW d \in Procs PROVE Ref(d)'
  <2>1. Ref(d) BY DEF ReferencesInv
  <2>2. QED BY <1>1, <1>2, <2>1, RefOthers
<1>7. QED BY <1>3, <1>4, <1>5, <1>6 DEF ReferencesInv

LEMMA ReferencesStatement ==
  ASSUME ReferencesInv, NEW c \in Procs, Statement(c)
  PROVE  ReferencesInv'
<1>1. CASE ActivateBegin(c) \/ Count(c) \/ DeleteCheck(c) \/ DeleteBegin(c) \/ Require(c)
             \/ InsertBegin(c) \/ ReposOff(c)
  BY <1>1, ReferencesChecks
<1>2. CASE Ensure(c) \/ Activate(c) \/ Reactivate(c) \/ Insert(c) \/ Read(c) \/ Archive(c)
             \/ Delete(c)
  BY <1>2, ReferencesEnsure, ReferencesActivate, ReferencesReactivate, ReferencesInsert,
     ReferencesRead, ReferencesArchive, ReferencesDelete
<1>3. CASE RepoOn(c) \/ Upsert(c) \/ Reread(c) \/ Resolve(c) \/ Rebind(c) \/ Load(c) \/ Bind(c)
  BY <1>3, ReferencesRepoOn, ReferencesUpsert, ReferencesReread, ReferencesResolve,
     ReferencesRebind, ReferencesLoad, ReferencesBind
<1>4. CASE Dispatch(c) \/ StartRun(c) \/ Link(c) \/ Probe(c) \/ Unlink(c)
  BY <1>4, ReferencesDispatch, ReferencesStartRun, ReferencesLink, ReferencesProbe
<1>5. QED BY <1>1, <1>2, <1>3, <1>4 DEF Statement

LEMMA ReferencesInit == Init => ReferencesInv
<1> SUFFICES ASSUME Init PROVE ReferencesInv
  OBVIOUS
<1>1. /\ \/ slots = {} /\ created = 0 /\ active = {}
         \/ slots = {1} /\ created = 1 /\ active = {1}
      /\ repos \subseteq Repos /\ activeRepos \subseteq repos
      /\ slotRepo \in [SlotIds -> Repos \cup {Nothing}]
      /\ \A s \in SlotIds : slotRepo[s] \in repos \cup {Nothing}
  BY DEF Init
<1>2. /\ slotAgent = [s \in SlotIds |-> Nothing] /\ remote = [a \in Agents |-> "absent"]
      /\ agentRepo = [a \in Agents |-> Nothing] /\ jobRepo = [j \in Jobs |-> Nothing]
      /\ ranIn = [j \in Jobs |-> Nothing] /\ prog = [c \in Procs |-> <<>>]
      /\ copy = [c \in Procs |-> NoCopy] /\ theRepo = [c \in Procs |-> Nothing]
      /\ snap = [c \in Procs |-> {}]
  BY DEF Init
<1>3. NoCopy \in SlotCopies /\ NoCopy.repo = Nothing /\ NoCopy.agent = Nothing
  BY DEF NoCopy, SlotCopies
<1>4. 1 \in SlotIds /\ MaxId \in Nat /\ MaxId > 0 BY AgentSlotsAssumption DEF SlotIds
<1>5. slots \subseteq SlotIds /\ created \in 0..MaxId /\ active \subseteq slots
  BY <1>1, <1>4
<1>6. TypeOK BY <1>1, <1>2, <1>3, <1>5 DEF TypeOK
<1>7. Rows BY <1>1, <1>2 DEF Rows
<1>8. Programs BY <1>2, NoProgram DEF Programs, Program
<1>9. ASSUME NEW c \in Procs PROVE Ref(c)
  <2>1. prog[c] = <<>> /\ copy[c] = NoCopy BY <1>2
  <2>2. DOMAIN prog[c] = {} BY <2>1
  <2>3. QED BY <1>3, <2>1, <2>2 DEF Ref, At
<1>10. QED BY <1>6, <1>7, <1>8, <1>9 DEF ReferencesInv

LEMMA ReferencesNext ==
  ASSUME ReferencesInv, [Next]_vars
  PROVE  ReferencesInv'
<1>1. CASE UNCHANGED vars
  BY <1>1 DEF vars, ReferencesInv, TypeOK, Rows, Programs, Ref, Stored, At
<1>2. CASE Next
  BY <1>2, Steps, ReferencesBegin, ReferencesStatement, ReferencesCrash, ReferencesRemoteDelete
<1>3. QED BY <1>1, <1>2

(* The rows, the programs of the processes and what they hold refer to       *)
(* repositories and agents there are, whoever else writes meanwhile.         *)
THEOREM References == Spec => []ReferencesInv
<1>1. ReferencesInv /\ [Next]_vars => ReferencesInv' BY ReferencesNext
<1>2. QED BY <1>1, ReferencesInit, PTL DEF Spec

(* Every row and every object in memory has its type. *)
THEOREM TypeCorrect == Spec => []TypeOK
<1>1. ReferencesInv => TypeOK BY DEF ReferencesInv
<1>2. QED BY <1>1, References, PTL

-----------------------------------------------------------------------------
(* The programs hold what their process executes *)

LEMMA RolesGo ==
  ASSUME ReferencesInv, Roles, NEW c \in Procs, NEW more, Goes(c, more) \/ Ends(c),
         Goes(c, more) => \A i \in 1..Len(more) : Own(c, more[i][1])
  PROVE  Roles'
<1> SUFFICES ASSUME NEW d \in Procs, NEW i \in DOMAIN prog'[d]
             PROVE  Own(d, prog'[d][i][1])
  BY DEF Roles
<1>1. CASE d # c BY <1>1 DEF Goes, Ends, Roles
<1>2. CASE d = c /\ Ends(c)
  <2>1. DOMAIN prog'[c] = {} BY <1>2 DEF Ends
  <2>2. QED BY <1>2, <2>1
<1>3. CASE d = c /\ Goes(c, more)
  <2>1. /\ DOMAIN prog[c] = 1..Len(prog[c]) /\ DOMAIN prog'[c] = 1..Len(prog'[c])
        /\ Len(more) \in Nat /\ Len(prog[c]) \in Nat
        /\ Len(prog'[c]) = Len(more) + Len(prog[c]) - 1
    BY <1>3 DEF Goes
  <2>2. CASE i <= Len(more)
    <3>1. i \in 1..Len(more) BY <1>3, <2>1, <2>2
    <3>2. prog'[c][i] = more[i] BY <1>3, <3>1 DEF Goes
    <3>3. QED BY <1>3, <3>1, <3>2
  <2>3. CASE i > Len(more)
    <3>1. PICK k \in 2..Len(prog[c]) : prog'[c][i] = prog[c][k] BY <1>3, <2>1, <2>3 DEF Goes
    <3>2. k \in DOMAIN prog[c] BY <2>1
    <3>3. QED BY <1>3, <3>1, <3>2 DEF Roles
  <2>4. QED BY <1>3, <2>1, <2>2, <2>3
<1>4. QED BY <1>1, <1>2, <1>3

LEMMA RolesHead ==
  ASSUME ReferencesInv, Roles, NEW c \in Procs, NEW name, At(c, name)
  PROVE  Own(c, name)
<1>1. 1 \in DOMAIN prog[c] /\ prog[c][1][1] = name
  BY Standing, Arguments DEF ReferencesInv
<1>2. QED BY <1>1 DEF Roles

LEMMA RolesStatement ==
  ASSUME ReferencesInv, Roles, NEW c \in Procs, Statement(c)
  PROVE  Roles'
<1>1. CASE Goes(c, <<>>) \/ Ends(c) BY <1>1, NoMore, RolesGo
<1>2. CASE ActivateBegin(c) \/ Count(c) \/ Read(c) \/ DeleteCheck(c) \/ DeleteBegin(c) \/ Require(c)
  BY <1>1, <1>2, ChecksGo
<1>3. CASE \/ InsertBegin(c) \/ Insert(c) \/ Archive(c) \/ ReposOff(c) \/ RepoOn(c) \/ Upsert(c)
           \/ Reread(c) \/ Rebind(c) \/ Bind(c) \/ Dispatch(c) \/ StartRun(c) \/ Link(c) \/ Unlink(c)
  BY <1>1, <1>3, PlainStatementsGo
<1>4. ASSUME NEW s \in SlotIds, Goes(c, SetActiveSlot(s)), At(c, "ensure") \/ At(c, "reactivate")
      PROVE  Roles'
  <2>1. PICK more : more = SetActiveSlot(s) OBVIOUS
  <2>2. Len(more) = 2 /\ more[1][1] = "activate_begin" /\ more[2][1] = "activate"
    BY <2>1, SlotPush
  <2>3. Own(c, "ensure") \/ Own(c, "reactivate") BY <1>4, RolesHead
  <2>4. \A i \in 1..Len(more) : Own(c, more[i][1]) BY <2>2, <2>3 DEF Own
  <2>5. QED BY <1>4, <2>1, <2>4, RolesGo
<1>5. ASSUME NEW r \in Repos, Goes(c, SetActiveRepo(r)), At(c, "activate") \/ At(c, "delete")
      PROVE  Roles'
  <2>1. PICK more : more = SetActiveRepo(r) OBVIOUS
  <2>2. Len(more) = 2 /\ more[1][1] = "repos_off" /\ more[2][1] = "repo_on"
    BY <2>1, RepoPush DEF Do
  <2>3. Own(c, "activate") \/ Own(c, "delete") BY <1>5, RolesHead
  <2>4. \A i \in 1..Len(more) : Own(c, more[i][1]) BY <2>2, <2>3 DEF Own
  <2>5. QED BY <1>5, <2>1, <2>4, RolesGo
<1>6. CASE Ensure(c)
  <2>1. At(c, "ensure") BY <1>6 DEF Ensure
  <2>2. CASE Goes(c, <<Do("resolve"), Do("insert_begin"), Do("insert")>>)
    <3>1. PICK more : more = <<Do("resolve"), Do("insert_begin"), Do("insert")>> OBVIOUS
    <3>2. /\ Len(more) = 3 /\ more[1][1] = "resolve" /\ more[2][1] = "insert_begin"
          /\ more[3][1] = "insert"
      BY <3>1 DEF Do
    <3>3. Own(c, "ensure") BY <2>1, RolesHead
    <3>4. \A i \in 1..Len(more) : Own(c, more[i][1]) BY <3>2, <3>3 DEF Own
    <3>5. QED BY <2>2, <3>1, <3>4, RolesGo
  <2>3. slots \subseteq SlotIds BY DEF ReferencesInv, TypeOK
  <2>4. QED BY <1>1, <1>4, <1>6, <2>1, <2>2, <2>3, EnsureGoes
<1>7. CASE Reactivate(c) BY <1>4, <1>7, ReactivateGoes DEF Reactivate
<1>8. CASE Activate(c)
  BY <1>1, <1>5, <1>8, ActivateGoes DEF Activate, Ends
<1>9. CASE Delete(c)
  BY <1>1, <1>5, <1>9, DeleteGoes DEF Delete, Ends
<1>10. CASE Resolve(c)
  <2>1. ASSUME NEW r \in repos, Goes(c, <<Do("repos_off"), <<"repo_on", r>>, Do("reread")>>)
        PROVE  Roles'
    <3>1. PICK more : more = <<Do("repos_off"), <<"repo_on", r>>, Do("reread")>> OBVIOUS
    <3>2. /\ Len(more) = 3 /\ more[1][1] = "repos_off" /\ more[2][1] = "repo_on"
          /\ more[3][1] = "reread"
      BY <3>1 DEF Do
    <3>3. Own(c, "resolve") BY <1>10, RolesHead DEF Resolve
    <3>4. \A i \in 1..Len(more) : Own(c, more[i][1]) BY <3>2, <3>3 DEF Own
    <3>5. QED BY <2>1, <3>1, <3>4, RolesGo
  <2>2. QED BY <1>1, <1>10, <2>1, ResolveGoes
<1>11. CASE Load(c)
  <2>1. CASE Goes(c, <<Do("resolve"), Do("require"), Do("bind")>>)
    <3>1. PICK more : more = <<Do("resolve"), Do("require"), Do("bind")>> OBVIOUS
    <3>2. /\ Len(more) = 3 /\ more[1][1] = "resolve" /\ more[2][1] = "require"
          /\ more[3][1] = "bind"
      BY <3>1 DEF Do
    <3>3. Own(c, "load") BY <1>11, RolesHead DEF Load
    <3>4. \A i \in 1..Len(more) : Own(c, more[i][1]) BY <3>2, <3>3 DEF Own
    <3>5. QED BY <2>1, <3>1, <3>4, RolesGo
  <2>2. QED BY <1>1, <1>11, <2>1, LoadGoes
<1>12. CASE Probe(c)
  <2>1. CASE Goes(c, <<Do("unlink")>>)
    <3>1. PICK more : more = <<Do("unlink")>> OBVIOUS
    <3>2. Len(more) = 1 /\ more[1][1] = "unlink" BY <3>1 DEF Do
    <3>3. Own(c, "probe") BY <1>12, RolesHead DEF Probe
    <3>4. \A i \in 1..Len(more) : Own(c, more[i][1]) BY <3>2, <3>3 DEF Own
    <3>5. QED BY <2>1, <3>1, <3>4, RolesGo
  <2>2. QED BY <1>1, <1>12, <2>1, ProbeGoes
<1>13. QED
  BY <1>2, <1>3, <1>6, <1>7, <1>8, <1>9, <1>10, <1>11, <1>12 DEF Statement

LEMMA RolesNext ==
  ASSUME ReferencesInv, Roles, [Next]_vars
  PROVE  Roles'
<1>1. CASE UNCHANGED vars BY <1>1 DEF vars, Roles
<1>2. ASSUME NEW c \in Procs, NEW p, NEW r, Begins(c, p, r)
      PROVE  Roles'
  <2>1. prog'[c] = p /\ \A d \in Procs : d # c => prog'[d] = prog[d]
    BY <1>2, ReferencesBegin
  <2>2. DOMAIN p = 1..Len(p)
    BY <1>2, LenProperties DEF Begins, Program
  <2>3. QED BY <1>2, <2>1, <2>2 DEF Roles, Begins
<1>3. ASSUME NEW c \in Procs, Crash(c)
      PROVE  Roles'
  <2>1. Goes(c, <<>>) \/ Ends(c) BY <1>3, ReferencesCrash
  <2>2. QED BY <2>1, NoMore, RolesGo
<1>4. ASSUME NEW a \in Agents, RemoteDelete(a)
      PROVE  Roles'
  BY <1>4 DEF RemoteDelete, Roles
<1>5. QED BY <1>1, <1>2, <1>3, <1>4, RolesStatement, Steps

-----------------------------------------------------------------------------
(* Which statement is executed, and what follows it *)

LEMMA Executes ==
  ASSUME NEW c \in Procs, Statement(c)
  PROVE  /\ At(c, "ensure") => Ensure(c)
         /\ At(c, "activate_begin") => ActivateBegin(c)
         /\ At(c, "activate") => Activate(c)
         /\ At(c, "reactivate") => Reactivate(c)
         /\ At(c, "count") => Count(c)
         /\ At(c, "insert_begin") => InsertBegin(c)
         /\ At(c, "insert") => Insert(c)
         /\ At(c, "read") => Read(c)
         /\ At(c, "archive") => Archive(c)
         /\ At(c, "delete_check") => DeleteCheck(c)
         /\ At(c, "delete_begin") => DeleteBegin(c)
         /\ At(c, "delete") => Delete(c)
         /\ At(c, "repos_off") => ReposOff(c)
         /\ At(c, "repo_on") => RepoOn(c)
         /\ At(c, "upsert_active") => Upsert(c)
         /\ At(c, "upsert") => Upsert(c)
         /\ At(c, "reread") => Reread(c)
         /\ At(c, "require") => Require(c)
         /\ At(c, "resolve") => Resolve(c)
         /\ At(c, "rebind") => Rebind(c)
         /\ At(c, "load") => Load(c)
         /\ At(c, "bind") => Bind(c)
         /\ At(c, "dispatch") => Dispatch(c)
         /\ At(c, "launch") => StartRun(c)
         /\ At(c, "link") => Link(c)
         /\ At(c, "probe") => Probe(c)
         /\ At(c, "unlink") => Unlink(c)
<1> DEFINE head == Head(prog[c])[1]
<1>1. /\ Ensure(c) => head = "ensure"
      /\ ActivateBegin(c) => head = "activate_begin"
      /\ Activate(c) => head = "activate"
      /\ Reactivate(c) => head = "reactivate"
      /\ Count(c) => head = "count"
      /\ InsertBegin(c) => head = "insert_begin"
      /\ Insert(c) => head = "insert"
      /\ Read(c) => head = "read"
      /\ Archive(c) => head = "archive"
      /\ DeleteCheck(c) => head = "delete_check"
      /\ DeleteBegin(c) => head = "delete_begin"
      /\ Delete(c) => head = "delete"
      /\ ReposOff(c) => head = "repos_off"
  BY DEF Ensure, ActivateBegin, Activate, Reactivate, Count, InsertBegin, Insert, Read, Archive,
         DeleteCheck, DeleteBegin, Delete, ReposOff, At
<1>2. /\ RepoOn(c) => head = "repo_on"
      /\ Upsert(c) => head \in {"upsert", "upsert_active"}
      /\ Reread(c) => head = "reread"
      /\ Require(c) => head = "require"
      /\ Resolve(c) => head = "resolve"
      /\ Rebind(c) => head = "rebind"
      /\ Load(c) => head = "load"
      /\ Bind(c) => head = "bind"
      /\ Dispatch(c) => head = "dispatch"
      /\ StartRun(c) => head = "launch"
      /\ Link(c) => head = "link"
      /\ Probe(c) => head = "probe"
      /\ Unlink(c) => head = "unlink"
  BY DEF RepoOn, Upsert, Reread, Require, Resolve, Rebind, Load, Bind, Dispatch, StartRun, Link,
         Probe, Unlink, At
<1>3. \A name : At(c, name) => head = name BY DEF At
<1> HIDE DEF head
<1>4. QED BY <1>1, <1>2, <1>3 DEF Statement

LEMMA OneRepository ==
  ASSUME ReferencesInv, Cardinality(repos) = 1
  PROVE  \E q : repos = {q}
<1>1. repos \in SUBSET Repos /\ IsFiniteSet(Repos)
  BY AgentSlotsAssumption DEF ReferencesInv, TypeOK
<1>2. IsFiniteSet(repos) BY <1>1, FS_Subset
<1>3. QED BY <1>2, FS_Singleton

(* What a statement puts in its place, if anything *)
SlotChosen(c, more) ==
  /\ Len(more) = 2 /\ more[1][1] = "activate_begin" /\ more[2][1] = "activate"
  /\ At(c, "reactivate") \/ (At(c, "ensure") /\ active = {} /\ slots # {})
SlotCreated(c, more) ==
  /\ Len(more) = 3 /\ more[1][1] = "resolve" /\ more[2][1] = "insert_begin"
  /\ more[3][1] = "insert"
  /\ At(c, "ensure") /\ slots = {}
RepoFollows(c, more) ==
  /\ Len(more) = 2 /\ more[1][1] = "repos_off" /\ more[2][1] = "repo_on"
  /\ \/ At(c, "activate") /\ Arg(c) \in slots /\ more[2][2] = slotRepo[Arg(c)]
     \/ At(c, "delete") /\ \E a \in active' : more[2][2] = slotRepo[a]
OnlyRepo(c, more) ==
  /\ Len(more) = 3 /\ more[1][1] = "repos_off" /\ more[2][1] = "repo_on"
  /\ more[3][1] = "reread"
  /\ At(c, "resolve") /\ activeRepos = {} /\ repos = {more[2][2]}
RepoBound(c, more) ==
  /\ Len(more) = 3 /\ more[1][1] = "resolve" /\ more[2][1] = "require" /\ more[3][1] = "bind"
  /\ At(c, "load")
Unlinked(c, more) == Len(more) = 1 /\ more[1][1] = "unlink" /\ At(c, "probe")
Kept(c, more) == Len(more) = 0 /\ (At(c, "ensure") => \E s \in active : Take(c, s))

Expands(c, more) ==
  \/ Kept(c, more) \/ SlotChosen(c, more) \/ SlotCreated(c, more) \/ RepoFollows(c, more)
  \/ OnlyRepo(c, more) \/ RepoBound(c, more) \/ Unlinked(c, more)

LEMMA StatementGoes ==
  ASSUME ReferencesInv, NEW c \in Procs, Statement(c)
  PROVE  /\ ~Idle(c) /\ Programs /\ Programs' /\ Stepped(c)
         /\ Ends(c) \/ \E more : Goes(c, more) /\ Expands(c, more)
<1>1. /\ ~Idle(c) /\ Stepped(c)
  BY DEF Statement, Ensure, ActivateBegin, Activate, Reactivate, Count, InsertBegin, Insert, Read,
         Archive, DeleteCheck, DeleteBegin, Delete, ReposOff, RepoOn, Upsert, Reread, Require,
         Resolve, Rebind, Load, Bind, Dispatch, StartRun, Link, Probe, Unlink, At, Idle,
         Next1, Then, Return
<1> SUFFICES Ends(c) \/ \E more : Goes(c, more) /\ Expands(c, more)
  BY <1>1, ReferencesStatement DEF ReferencesInv
<1>2. ~At(c, "ensure") => Expands(c, <<>>) BY NoMore DEF Expands, Kept
<1>3. slots \subseteq SlotIds BY DEF ReferencesInv, TypeOK
<1>4. CASE ActivateBegin(c) \/ Count(c) \/ Read(c) \/ DeleteCheck(c) \/ DeleteBegin(c) \/ Require(c)
  <2>1. ~At(c, "ensure")
    BY <1>4 DEF ActivateBegin, Count, Read, DeleteCheck, DeleteBegin, Require, At
  <2>2. QED BY <1>2, <1>4, <2>1, ChecksGo
<1>5. CASE \/ InsertBegin(c) \/ Insert(c) \/ Archive(c) \/ ReposOff(c) \/ RepoOn(c) \/ Upsert(c)
           \/ Reread(c) \/ Rebind(c) \/ Bind(c) \/ Dispatch(c) \/ StartRun(c) \/ Link(c) \/ Unlink(c)
  <2>1. ~At(c, "ensure")
    BY <1>5 DEF InsertBegin, Insert, Archive, ReposOff, RepoOn, Upsert, Reread, Rebind, Bind,
       Dispatch, StartRun, Link, Unlink, At
  <2>2. QED BY <1>2, <1>5, <2>1, PlainStatementsGo
<1>6. CASE Ensure(c)
  <2>1. At(c, "ensure") BY <1>6 DEF Ensure
  <2>2. CASE Goes(c, <<>>) /\ \E s \in active : Take(c, s)
    <3>1. Expands(c, <<>>) BY <2>2, NoMore DEF Expands, Kept
    <3>2. QED BY <2>2, <3>1
  <2>3. CASE /\ active = {} /\ slots # {} /\ Lowest(slots) \in slots
             /\ Goes(c, SetActiveSlot(Lowest(slots)))
    <3>1. PICK s \in SlotIds : s = Lowest(slots) BY <1>3, <2>3
    <3>2. Expands(c, SetActiveSlot(s)) BY <2>1, <2>3, SlotPush DEF Expands, SlotChosen
    <3>3. QED BY <2>3, <3>1, <3>2
  <2>4. CASE slots = {} /\ Goes(c, <<Do("resolve"), Do("insert_begin"), Do("insert")>>)
    <3>1. Expands(c, <<Do("resolve"), Do("insert_begin"), Do("insert")>>)
      BY <2>1, <2>4 DEF Expands, SlotCreated, Do
    <3>2. QED BY <2>4, <3>1
  <2>5. QED BY <1>6, <2>2, <2>3, <2>4, EnsureGoes
<1>7. CASE Activate(c)
  <2>1. At(c, "activate") /\ ~At(c, "ensure") BY <1>7 DEF Activate, At
  <2>2. CASE Arg(c) \in slots /\ slotRepo[Arg(c)] \in repos \cap Repos
             /\ Goes(c, SetActiveRepo(slotRepo[Arg(c)]))
    <3>1. PICK r \in Repos : r = slotRepo[Arg(c)] BY <2>2
    <3>2. Expands(c, SetActiveRepo(r))
      BY <2>1, <2>2, <3>1, RepoPush DEF Expands, RepoFollows, Do
    <3>3. QED BY <2>2, <3>1, <3>2
  <2>3. QED BY <1>2, <1>7, <2>1, <2>2, ActivateGoes DEF Ends
<1>8. CASE Reactivate(c)
  <2>1. PICK s \in SlotIds : Goes(c, SetActiveSlot(s)) BY <1>8, ReactivateGoes
  <2>2. At(c, "reactivate") BY <1>8 DEF Reactivate
  <2>3. Expands(c, SetActiveSlot(s)) BY <2>2, SlotPush DEF Expands, SlotChosen
  <2>4. QED BY <2>1, <2>3
<1>9. CASE Delete(c)
  <2>1. At(c, "delete") /\ ~At(c, "ensure") BY <1>9 DEF Delete, At
  <2>2. ASSUME NEW a \in active' \cap SlotIds, slotRepo[a] \in repos \cap Repos,
               Goes(c, SetActiveRepo(slotRepo[a]))
        PROVE  \E more : Goes(c, more) /\ Expands(c, more)
    <3>1. PICK r \in Repos : r = slotRepo[a] BY <2>2
    <3>2. Expands(c, SetActiveRepo(r))
      BY <2>1, <2>2, <3>1, RepoPush DEF Expands, RepoFollows, Do
    <3>3. QED BY <2>2, <3>1, <3>2
  <2>3. QED BY <1>2, <1>9, <2>1, <2>2, DeleteGoes DEF Ends
<1>10. CASE Resolve(c)
  <2>1. At(c, "resolve") /\ ~At(c, "ensure") BY <1>10 DEF Resolve, At
  <2>2. ASSUME NEW r \in repos, activeRepos = {}, Cardinality(repos) = 1,
               Goes(c, <<Do("repos_off"), <<"repo_on", r>>, Do("reread")>>)
        PROVE  \E more : Goes(c, more) /\ Expands(c, more)
    <3>1. PICK q : repos = {q} BY <2>2, OneRepository
    <3>2. repos = {r} BY <3>1
    <3>3. PICK more : more = <<Do("repos_off"), <<"repo_on", r>>, Do("reread")>> OBVIOUS
    <3>4. /\ Len(more) = 3 /\ more[1][1] = "repos_off" /\ more[2] = <<"repo_on", r>>
          /\ more[3][1] = "reread"
      BY <3>3 DEF Do
    <3>5. Expands(c, more) BY <2>1, <2>2, <3>2, <3>4 DEF Expands, OnlyRepo
    <3>6. QED BY <2>2, <3>3, <3>5
  <2>3. QED BY <1>2, <1>10, <2>1, <2>2, ResolveGoes
<1>11. CASE Load(c)
  <2>1. At(c, "load") /\ ~At(c, "ensure") BY <1>11 DEF Load, At
  <2>2. CASE Goes(c, <<Do("resolve"), Do("require"), Do("bind")>>)
    <3>1. Expands(c, <<Do("resolve"), Do("require"), Do("bind")>>)
      BY <2>1 DEF Expands, RepoBound, Do
    <3>2. QED BY <2>2, <3>1
  <2>3. QED BY <1>2, <1>11, <2>1, <2>2, LoadGoes
<1>12. CASE Probe(c)
  <2>1. At(c, "probe") /\ ~At(c, "ensure") BY <1>12 DEF Probe, At
  <2>2. CASE Goes(c, <<Do("unlink")>>)
    <3>1. Expands(c, <<Do("unlink")>>) BY <2>1 DEF Expands, Unlinked, Do
    <3>2. QED BY <2>2, <3>1
  <2>3. QED BY <1>2, <1>12, <2>1, <2>2, ProbeGoes
<1>13. QED
  BY <1>4, <1>5, <1>6, <1>7, <1>8, <1>9, <1>10, <1>11, <1>12 DEF Statement

(* The next statement of a program that goes on *)
LEMMA HeadAfter ==
  ASSUME Programs, Programs', NEW c \in Procs, NEW more, Goes(c, more), prog'[c] # <<>>
  PROVE  /\ Len(more) > 0 => Head(prog'[c]) = more[1]
         /\ Len(more) = 0 => /\ Len(prog[c]) > 1 /\ Head(prog'[c]) = prog[c][2]
                             /\ Precedes(prog[c][1], prog[c][2])
<1>1. /\ prog'[c] \in Seq(Statements) /\ Len(prog'[c]) > 0 /\ Head(prog'[c]) = prog'[c][1]
  <2>1. prog'[c] \in Seq(Statements) BY DEF Programs
  <2>2. QED BY <2>1, EmptySeq
<1>2. /\ Len(more) \in Nat /\ Len(prog[c]) \in Nat /\ Len(prog'[c]) = Len(more) + Len(prog[c]) - 1
      /\ \A i \in 1..Len(more) : prog'[c][i] = more[i]
      /\ \A i \in 2..Len(prog[c]) : prog'[c][Len(more) + i - 1] = prog[c][i]
  BY DEF Goes
<1>3. CASE Len(more) > 0
  BY <1>1, <1>2, <1>3
<1>4. CASE Len(more) = 0
  <2>1. Len(prog[c]) > 1 /\ 2 \in 2..Len(prog[c]) /\ 1 \in 1..Len(prog[c])
    BY <1>1, <1>2, <1>4
  <2>2. prog'[c][1] = prog[c][2] BY <1>2, <1>4, <2>1
  <2>3. Precedes(prog[c][1], prog[c][2]) BY <2>1 DEF Programs, Program
  <2>4. QED BY <1>1, <1>4, <2>1, <2>2, <2>3
<1>5. QED BY <1>2, <1>3, <1>4

-----------------------------------------------------------------------------
(* The sync, the links and the switches *)

(* The cron unlinks a slot only when it has found that Cursor deleted the     *)
(* agent, whatever is relinked between the probe and the update.             *)
THEOREM UnlinkedAgentsAreDeleted == Spec => SyncUnlinksDeleted
<1>1. ASSUME ReferencesInv, NEW c \in Procs, At(c, "unlink")
      PROVE  remote[copy[c].agent] = "deleted"
  BY <1>1 DEF ReferencesInv, Ref
<1>2. ReferencesInv =>
        [\A c \in Procs : At(c, "unlink") /\ prog'[c] # prog[c] =>
           remote[copy[c].agent] = "deleted"]_vars
  BY <1>1
<1>3. QED BY <1>2, References, PTL DEF SyncUnlinksDeleted

(* What may part an agent from the repository of its slot *)
Cause(s) ==
  \/ /\ At(Worker, "link") /\ copy[Worker].id = s
     /\ \/ slotRepo[s] # theRepo[Worker]
        \/ agentRepo[copy[Worker].agent] # theRepo[Worker]
  \/ \E c \in Procs : At(c, "bind") /\ copy[c].id = s /\ slotAgent[s] # copy[c].agent

LEMMA MatchesKept ==
  ASSUME NEW s \in SlotIds, Matches(s), slotAgent'[s] = slotAgent[s], slotRepo'[s] = slotRepo[s],
         slotAgent[s] # Nothing => agentRepo'[slotAgent[s]] = agentRepo[slotAgent[s]]
  PROVE  Matches(s)'
BY DEF Matches

LEMMA MatchesStatement ==
  ASSUME ReferencesInv, Roles, NEW c \in Procs, Statement(c), NEW s \in SlotIds, Matches(s)
  PROVE  Matches(s)' \/ Cause(s)
<1>1. CASE \/ ActivateBegin(c) \/ Count(c) \/ Read(c) \/ DeleteCheck(c) \/ DeleteBegin(c)
           \/ Require(c) \/ InsertBegin(c) \/ Archive(c) \/ ReposOff(c) \/ RepoOn(c) \/ Upsert(c)
           \/ Reread(c) \/ Dispatch(c) \/ Ensure(c) \/ Activate(c) \/ Reactivate(c) \/ Resolve(c)
           \/ Load(c) \/ Probe(c)
  <2>1. UNCHANGED <<slotAgent, slotRepo, agentRepo>>
    BY <1>1 DEF ActivateBegin, Count, Read, DeleteCheck, DeleteBegin, Require, InsertBegin,
       Archive, ReposOff, RepoOn, Upsert, Reread, Dispatch, Ensure, Activate, Reactivate,
       Resolve, Load, Probe, slotRows, cursor
  <2>2. QED BY <2>1, MatchesKept
<1>2. CASE Insert(c)
  <2>1. /\ slotRepo' = [slotRepo EXCEPT ![created + 1] = theRepo[c]]
        /\ UNCHANGED <<slotAgent, agentRepo>>
    BY <1>2 DEF Insert, cursor
  <2>2. CASE s = created + 1
    <3>1. s \notin slots BY <2>2 DEF ReferencesInv, Rows, TypeOK
    <3>2. slotAgent[s] = Nothing BY <3>1 DEF ReferencesInv, Rows
    <3>3. QED BY <2>1, <3>2 DEF Matches
  <2>3. CASE s # created + 1
    <3>1. slotRepo'[s] = slotRepo[s] BY <2>1, <2>3 DEF ReferencesInv, TypeOK
    <3>2. QED BY <2>1, <3>1, MatchesKept
  <2>4. QED BY <2>2, <2>3
<1>3. CASE Delete(c) \/ Rebind(c)
  <2>1. \/ slotAgent'[s] = slotAgent[s] /\ slotRepo'[s] = slotRepo[s]
        \/ slotAgent'[s] = Nothing
    BY <1>3 DEF Delete, Rebind, ReferencesInv, TypeOK
  <2>2. UNCHANGED agentRepo BY <1>3 DEF Delete, Rebind, cursor
  <2>3. QED BY <2>1, <2>2 DEF Matches
<1>4. CASE Bind(c)
  <2>1. UNCHANGED <<slotAgent, agentRepo>> BY <1>4 DEF Bind, cursor
  <2>2. CASE s = copy[c].id /\ slotAgent[s] # copy[c].agent
    BY <1>4, <2>2 DEF Bind, Cause
  <2>3. CASE s = copy[c].id /\ slotAgent[s] = copy[c].agent
    <3>1. slotAgent[s] = Nothing \/ UNCHANGED slotRepo BY <1>4, <2>3 DEF Bind
    <3>2. QED BY <2>1, <3>1 DEF Matches
  <2>4. CASE s # copy[c].id
    <3>1. slotRepo'[s] = slotRepo[s] BY <1>4, <2>4 DEF Bind, ReferencesInv, TypeOK
    <3>2. QED BY <2>1, <3>1, MatchesKept
  <2>5. QED BY <2>2, <2>3, <2>4
<1>5. CASE StartRun(c)
  <2>1. UNCHANGED <<slotAgent, slotRepo>> BY <1>5 DEF StartRun, slotRows
  <2>2. \A b \in Agents : remote[b] # "absent" => agentRepo'[b] = agentRepo[b]
    BY <1>5 DEF StartRun, cursor, ReferencesInv, TypeOK
  <2>3. slotAgent[s] # Nothing => slotAgent[s] \in Agents /\ remote[slotAgent[s]] # "absent"
    BY DEF ReferencesInv, Rows, TypeOK
  <2>4. QED BY <2>1, <2>2, <2>3, MatchesKept
<1>6. CASE Link(c)
  <2>1. At(c, "link") /\ c = Worker
    <3>1. At(c, "link") BY <1>6 DEF Link
    <3>2. Own(c, "link") BY <3>1, RolesHead
    <3>3. QED BY <3>1, <3>2 DEF Own, Procs
  <2>2. /\ slotAgent' = [slotAgent EXCEPT ![copy[c].id] =
                          IF copy[c].id \in slots THEN copy[c].agent ELSE @]
        /\ UNCHANGED <<slotRepo, agentRepo>>
    BY <1>6 DEF Link, cursor
  <2>3. CASE s # copy[c].id \/ s \notin slots
    <3>1. slotAgent'[s] = slotAgent[s] BY <2>2, <2>3 DEF ReferencesInv, TypeOK
    <3>2. QED BY <2>2, <3>1, MatchesKept
  <2>4. CASE s = copy[c].id /\ s \in slots
    <3>1. slotAgent'[s] = copy[c].agent BY <2>2, <2>4 DEF ReferencesInv, TypeOK
    <3>2. CASE slotRepo[s] = theRepo[c] /\ agentRepo[copy[c].agent] = theRepo[c]
      BY <2>2, <3>1, <3>2 DEF Matches
    <3>3. CASE ~(slotRepo[s] = theRepo[c] /\ agentRepo[copy[c].agent] = theRepo[c])
      BY <2>1, <2>4, <3>3 DEF Cause
    <3>4. QED BY <3>2, <3>3
  <2>5. QED BY <2>3, <2>4
<1>7. CASE Unlink(c)
  <2>1. slotAgent'[s] = slotAgent[s] \/ slotAgent'[s] = Nothing
    BY <1>7 DEF Unlink, ReferencesInv, TypeOK
  <2>2. UNCHANGED <<slotRepo, agentRepo>> BY <1>7 DEF Unlink, cursor
  <2>3. QED BY <2>1, <2>2 DEF Matches
<1>8. QED
  BY <1>1, <1>2, <1>3, <1>4, <1>5, <1>6, <1>7 DEF Statement

LEMMA MatchesNext ==
  ASSUME ReferencesInv, Roles, Next, NEW s \in SlotIds, Matches(s)
  PROVE  Matches(s)' \/ Cause(s)
<1>1. ASSUME NEW c \in Procs, NEW p, NEW r, Begins(c, p, r)
      PROVE  Matches(s)'
  BY <1>1, MatchesKept DEF Begins, BeginWith, slotRows, cursor
<1>2. ASSUME NEW c \in Procs, Crash(c)
      PROVE  Matches(s)'
  BY <1>2, MatchesKept DEF Crash, slotRows, cursor
<1>3. ASSUME NEW a \in Agents, RemoteDelete(a)
      PROVE  Matches(s)'
  BY <1>3, MatchesKept DEF RemoteDelete, slotRows
<1>4. QED BY <1>1, <1>2, <1>3, MatchesStatement, Steps

LEMMA RolesInit == Init => Roles
<1> SUFFICES ASSUME Init, NEW c \in Procs, NEW i \in DOMAIN prog[c] PROVE Own(c, prog[c][i][1])
  BY DEF Roles
<1>1. prog[c] = <<>> BY DEF Init
<1>2. DOMAIN prog[c] = {} BY <1>1
<1>3. QED BY <1>2

LEMMA RolesAlways == Spec => [](ReferencesInv /\ Roles)
<1>1. Init => ReferencesInv /\ Roles BY ReferencesInit, RolesInit
<1>2. (ReferencesInv /\ Roles) /\ [Next]_vars => (ReferencesInv /\ Roles)'
  BY ReferencesNext, RolesNext
<1>3. QED BY <1>1, <1>2, PTL DEF Spec

(* An agent keeps to the repository of its slot but for the links and the    *)
(* bindings that a switch, or another launch, overtook.                      *)
THEOREM LinksMatch == Spec => MislinksHaveACause
<1>1. ReferencesInv /\ Roles /\ [Next]_vars =>
        [\A s \in SlotIds :
           Matches(s) =>
             \/ Matches(s)'
             \/ /\ At(Worker, "link") /\ copy[Worker].id = s
                /\ \/ slotRepo[s] # theRepo[Worker]
                   \/ agentRepo[copy[Worker].agent] # theRepo[Worker]
             \/ \E c \in Procs : At(c, "bind") /\ copy[c].id = s /\ slotAgent[s] # copy[c].agent]_vars
  BY MatchesNext DEF Cause
<1>2. QED BY <1>1, RolesAlways, PTL DEF Spec, MislinksHaveACause

(* A transaction finds what its first statement found *)
LEMMA TransactionFinds ==
  ASSUME ReferencesInv, NEW c \in Procs, Statement(c)
  PROVE  /\ At(c, "activate")' => Arg(c)' \in slots' /\ snap'[c] = slots'
         /\ At(c, "insert")' => snap'[c] = slots'
         /\ At(c, "repo_on")' \/ At(c, "upsert_active")' => activeRepos' = {}
<1>1. /\ ~Idle(c) /\ Programs /\ Programs'
      /\ Ends(c) \/ \E more : Goes(c, more) /\ Expands(c, more)
  BY StatementGoes
<1>2. CASE prog'[c] = <<>>
  BY <1>2 DEF At
<1>3. CASE prog'[c] # <<>>
  <2>1. PICK more : Goes(c, more) /\ Expands(c, more) BY <1>1, <1>3 DEF Ends
  <2>2. CASE Len(more) # 0
    <3>1. Len(more) > 0 BY <2>1, <2>2 DEF Goes
    <3>2. Head(prog'[c]) = more[1] BY <1>1, <1>3, <2>1, <3>1, HeadAfter
    <3>3. Head(prog'[c])[1] \in {"activate_begin", "resolve", "repos_off", "unlink"}
      BY <2>1, <2>2, <3>2
      DEF Expands, Kept, SlotChosen, SlotCreated, RepoFollows, OnlyRepo, RepoBound, Unlinked
    <3>4. QED BY <3>3 DEF At
  <2>3. CASE Len(more) = 0
    <3>1. /\ Head(prog'[c]) = prog[c][2] /\ Precedes(prog[c][1], prog[c][2])
      BY <1>1, <1>3, <2>1, <2>3, HeadAfter
    <3>2. Head(prog[c]) = prog[c][1] /\ prog[c] # <<>> BY <1>1, Arguments DEF Idle
    <3>3. ASSUME At(c, "activate")'
          PROVE  Arg(c)' \in slots' /\ snap'[c] = slots'
      <4>1. At(c, "activate_begin") /\ Arg(c)' = Arg(c)
        BY <3>1, <3>2, <3>3 DEF Precedes, At, Arg
      <4>2. ActivateBegin(c) BY <4>1, Executes
      <4>3. Arg(c) \in slots
        BY <1>3, <4>2 DEF ActivateBegin, Return, ReferencesInv, Programs
      <4>4. QED BY <4>1, <4>2, <4>3 DEF ActivateBegin, ReferencesInv, TypeOK, slotRows
    <3>4. ASSUME At(c, "insert")'
          PROVE  snap'[c] = slots'
      <4>1. At(c, "insert_begin")
        BY <3>1, <3>2, <3>4 DEF Precedes, At
      <4>2. InsertBegin(c) BY <4>1, Executes
      <4>3. QED BY <4>2 DEF InsertBegin, ReferencesInv, TypeOK, slotRows
    <3>5. ASSUME At(c, "repo_on")' \/ At(c, "upsert_active")'
          PROVE  activeRepos' = {}
      <4>1. At(c, "repos_off")
        BY <3>1, <3>2, <3>5 DEF Precedes, Turns, At
      <4>2. ReposOff(c) BY <4>1, Executes
      <4>3. QED BY <4>2 DEF ReposOff
    <3>6. QED BY <3>3, <3>4, <3>5
  <2>4. QED BY <2>2, <2>3
<1>4. QED BY <1>2, <1>3

LEMMA AloneNext ==
  ASSUME ReferencesInv, AloneInv, [Next]_vars
  PROVE  AloneInv'
<1>1. CASE UNCHANGED vars BY <1>1 DEF vars, AloneInv, At, Arg
<1>2. ASSUME NEW c \in Procs, NEW p, NEW r, Begins(c, p, r)
      PROVE  AloneInv'
  <2>1. prog'[c] = p /\ Len(p) > 0
        /\ p[1][1] \in {"activate_begin", "count", "read", "repos_off", "upsert", "ensure"}
    BY <1>2, ReferencesBegin DEF Begins
  <2>2. Head(p) = p[1]
    BY <1>2, <2>1, EmptySeq DEF Begins, Program
  <2>3. alone' = c \/ alone' = Nothing BY <1>2 DEF Begins, BeginWith
  <2>4. QED BY <2>1, <2>2, <2>3, HandlersAreProcs DEF AloneInv, At, Procs
<1>3. ASSUME NEW c \in Procs, Crash(c)
      PROVE  AloneInv'
  BY <1>3, HandlersAreProcs DEF Crash, AloneInv, Procs
<1>4. ASSUME NEW a \in Agents, RemoteDelete(a)
      PROVE  AloneInv'
  BY <1>4 DEF RemoteDelete, AloneInv, At, Arg, slotRows, repoRows, memory
<1>5. ASSUME NEW c \in Procs, Statement(c)
      PROVE  AloneInv'
  <2>1. alone' = c \/ alone' = Nothing BY <1>5, StatementGoes DEF Stepped
  <2>2. CASE alone' = Nothing BY <2>2, HandlersAreProcs DEF AloneInv, Procs
  <2>3. CASE alone' = c BY <1>5, <2>3, TransactionFinds DEF AloneInv
  <2>4. QED BY <2>1, <2>2, <2>3
<1>6. CASE Next BY <1>2, <1>3, <1>4, <1>5, <1>6, Steps
<1>7. QED BY <1>1, <1>6

LEMMA HealsStep ==
  ASSUME ReferencesInv, AloneInv, Next, NEW c \in Procs, alone = c, alone' = c, prog'[c] # prog[c]
  PROVE  /\ At(c, "activate") => active' = {Arg(c)}
         /\ At(c, "insert") /\ slots' # slots => active' = {created'}
         /\ At(c, "repo_on") \/ At(c, "upsert_active") => activeRepos' = {Arg(c)}
<1>1. Idle(c) \/ Statement(c)
  <2>1. ASSUME NEW d \in Procs, NEW p, NEW r, Begins(d, p, r)
        PROVE  Idle(c)
    <3>1. Idle(d) BY <2>1 DEF Begins, BeginWith
    <3>2. d = c BY <2>1, ReferencesBegin
    <3>3. QED BY <3>1, <3>2
  <2>2. ASSUME NEW d \in Procs, Statement(d)
        PROVE  Statement(c)
    <3>1. \A b \in Procs : b # d => prog'[b] = prog[b]
      BY <2>2, StatementGoes DEF Goes, Ends
    <3>2. QED BY <2>2, <3>1
  <2>3. ASSUME NEW d \in Procs, Crash(d)
        PROVE  FALSE
    BY <2>3, HandlersAreProcs DEF Crash, Procs
  <2>4. ASSUME NEW a \in Agents, RemoteDelete(a)
        PROVE  FALSE
    BY <2>4 DEF RemoteDelete
  <2>5. QED BY <2>1, <2>2, <2>3, <2>4, Steps
<1>2. CASE Idle(c) BY <1>2 DEF Idle, At
<1>3. CASE Statement(c)
  <2>1. At(c, "activate") => active' = {Arg(c)}
    <3>1. SUFFICES ASSUME At(c, "activate") PROVE active' = {Arg(c)}
      OBVIOUS
    <3>2. Activate(c) BY <1>3, <3>1, Executes
    <3>3. snap[c] = slots /\ Arg(c) \in slots BY <3>1 DEF AloneInv
    <3>4. active \subseteq slots BY DEF ReferencesInv, TypeOK
    <3>5. QED BY <3>2, <3>3, <3>4 DEF Activate, Deactivated
  <2>2. At(c, "insert") => active' = {created'}
    <3>1. SUFFICES ASSUME At(c, "insert") PROVE active' = {created'}
      OBVIOUS
    <3>2. Insert(c) BY <1>3, <3>1, Executes
    <3>3. snap[c] = slots BY <3>1 DEF AloneInv
    <3>4. active \subseteq slots BY DEF ReferencesInv, TypeOK
    <3>5. QED BY <3>2, <3>3, <3>4 DEF Insert, Deactivated
  <2>3. At(c, "repo_on") \/ At(c, "upsert_active") => activeRepos' = {Arg(c)}
    <3>1. SUFFICES ASSUME At(c, "repo_on") \/ At(c, "upsert_active")
                   PROVE  activeRepos' = {Arg(c)}
      OBVIOUS
    <3>2. RepoOn(c) \/ (Upsert(c) /\ At(c, "upsert_active")) BY <1>3, <3>1, Executes
    <3>3. activeRepos = {} BY <3>1 DEF AloneInv
    <3>4. QED BY <3>2, <3>3 DEF RepoOn, Upsert, At
  <2>4. QED BY <2>1, <2>2, <2>3
<1>4. QED BY <1>1, <1>2, <1>3

(* A switch that nobody interleaves with leaves exactly one slot, or one     *)
(* repository, active, whatever races and crashes left before it.            *)
THEOREM SwitchesHeal == Spec => SwitchHeals
<1>1. Init => ReferencesInv /\ AloneInv
  <2>1. Init => AloneInv BY HandlersAreProcs DEF Init, AloneInv, Procs
  <2>2. QED BY <2>1, ReferencesInit
<1>2. (ReferencesInv /\ AloneInv) /\ [Next]_vars => (ReferencesInv /\ AloneInv)'
  BY ReferencesNext, AloneNext
<1>3. (ReferencesInv /\ AloneInv) /\ [Next]_vars =>
        [\A c \in Procs : alone = c /\ alone' = c /\ prog'[c] # prog[c] =>
           /\ At(c, "activate") => active' = {Arg(c)}
           /\ At(c, "insert") /\ slots' # slots => active' = {created'}
           /\ At(c, "repo_on") \/ At(c, "upsert_active") => activeRepos' = {Arg(c)}]_vars
  BY HealsStep
<1>4. QED BY <1>1, <1>2, <1>3, PTL DEF Spec, SwitchHeals

-----------------------------------------------------------------------------
(* What is still to do after the statement in hand *)

Later(c, names) == \E k \in 2..Len(prog[c]) : prog[c][k][1] \in names

LEMMA HasNow ==
  ASSUME ReferencesInv, NEW c \in Procs, ~Idle(c), NEW names
  PROVE  Has(c, names) <=> Head(prog[c])[1] \in names \/ Later(c, names)
<1>1. /\ Len(prog[c]) \in Nat /\ Len(prog[c]) > 0 /\ DOMAIN prog[c] = 1..Len(prog[c])
      /\ Head(prog[c]) = prog[c][1]
  BY Arguments DEF ReferencesInv
<1>2. \A i \in DOMAIN prog[c] : i = 1 \/ i \in 2..Len(prog[c]) BY <1>1
<1>3. 1 \in DOMAIN prog[c] /\ 2..Len(prog[c]) \subseteq DOMAIN prog[c] BY <1>1
<1>4. QED BY <1>1, <1>2, <1>3 DEF Has, Later

LEMMA HasAfter ==
  ASSUME NEW c \in Procs, NEW more, Goes(c, more), NEW names
  PROVE  Has(c, names)' <=> (\E i \in 1..Len(more) : more[i][1] \in names) \/ Later(c, names)
<1>1. /\ DOMAIN prog'[c] = 1..Len(prog'[c]) /\ Len(more) \in Nat /\ Len(prog[c]) \in Nat
      /\ Len(prog'[c]) = Len(more) + Len(prog[c]) - 1 /\ Len(prog[c]) > 0
      /\ \A i \in 1..Len(more) : prog'[c][i] = more[i]
      /\ \A i \in 2..Len(prog[c]) : prog'[c][Len(more) + i - 1] = prog[c][i]
      /\ \A j \in 1..Len(prog'[c]) : j > Len(more) =>
           /\ j - Len(more) + 1 \in 2..Len(prog[c])
           /\ prog'[c][j] = prog[c][j - Len(more) + 1]
  BY DEF Goes
<1>2. ASSUME Has(c, names)'
      PROVE  (\E i \in 1..Len(more) : more[i][1] \in names) \/ Later(c, names)
  <2>1. PICK j \in 1..Len(prog'[c]) : prog'[c][j][1] \in names BY <1>1, <1>2 DEF Has
  <2>2. CASE j <= Len(more)
    <3>1. j \in 1..Len(more) BY <1>1, <2>2
    <3>2. QED BY <1>1, <2>1, <3>1
  <2>3. CASE j > Len(more)
    <3>1. PICK k \in 2..Len(prog[c]) : prog'[c][j] = prog[c][k] BY <1>1, <2>3
    <3>2. QED BY <2>1, <3>1 DEF Later
  <2>4. QED BY <1>1, <2>2, <2>3
<1>3. ASSUME NEW i \in 1..Len(more), more[i][1] \in names
      PROVE  Has(c, names)'
  <2>1. i \in 1..Len(prog'[c]) BY <1>1
  <2>2. QED BY <1>1, <1>3, <2>1 DEF Has
<1>4. ASSUME Later(c, names)
      PROVE  Has(c, names)'
  <2>1. PICK k \in 2..Len(prog[c]) : prog[c][k][1] \in names BY <1>4 DEF Later
  <2>2. PICK j : j = Len(more) + k - 1 OBVIOUS
  <2>3. j \in 1..Len(prog'[c]) /\ prog'[c][j] = prog[c][k] BY <1>1, <2>2
  <2>4. QED BY <1>1, <2>1, <2>3 DEF Has
<1>5. QED BY <1>2, <1>3, <1>4

LEMMA LaterRanks ==
  ASSUME ReferencesInv, NEW c \in Procs, ~Idle(c), NEW n \in Nat, Rank(prog[c][1]) = n
  PROVE  /\ \A k \in 2..Len(prog[c]) : Rank(prog[c][k]) > n
         /\ n >= 2 => ~Later(c, {"repo_on", "upsert_active"})
         /\ n >= 10 => ~Later(c, {"insert"})
         /\ n >= 12 => ~Later(c, {"rebind"})
         /\ n >= 8 => ~Later(c, {"activate_begin", "activate"})
         /\ ~Later(c, {"count"})
<1>1. Program(prog[c]) /\ Len(prog[c]) \in Nat /\ Len(prog[c]) > 0
  BY Arguments DEF ReferencesInv, Programs
<1>2. ASSUME NEW k \in 2..Len(prog[c])
      PROVE  Rank(prog[c][k]) > n
  <2>1. 1 \in 1..Len(prog[c]) /\ k \in 1..Len(prog[c]) /\ 1 < k BY <1>1
  <2>2. Rank(prog[c][1]) < Rank(prog[c][k]) BY <1>1, <2>1 DEF Program
  <2>3. PICK m \in 0..22 : m = Rank(prog[c][k]) BY RankIsNatural
  <2>4. n < m BY <2>2, <2>3
  <2>5. QED BY <2>3, <2>4
<1>3. ASSUME NEW k \in 2..Len(prog[c])
      PROVE  /\ prog[c][k][1] \in {"repo_on", "upsert_active"} => n < 2
             /\ prog[c][k][1] = "insert" => n < 10
             /\ prog[c][k][1] = "rebind" => n < 12
             /\ prog[c][k][1] \in {"activate_begin", "activate"} => n < 8
             /\ prog[c][k][1] # "count"
  <2>1. /\ prog[c][k][1] \in {"repo_on", "upsert_active"} => Rank(prog[c][k]) = 2
        /\ prog[c][k][1] = "insert" => Rank(prog[c][k]) = 10
        /\ prog[c][k][1] = "rebind" => Rank(prog[c][k]) = 12
        /\ prog[c][k][1] = "activate_begin" => Rank(prog[c][k]) = 7
        /\ prog[c][k][1] = "activate" => Rank(prog[c][k]) = 8
        /\ prog[c][k][1] = "count" => Rank(prog[c][k]) = 0
    BY DEF Rank
  <2>2. PICK m \in 0..22 : m = Rank(prog[c][k]) BY RankIsNatural
  <2>3. n < m BY <1>2, <2>2
  <2>4. QED BY <2>1, <2>2, <2>3
<1>4. QED BY <1>2, <1>3 DEF Later

(* The rank of the statement in hand *)
LEMMA HeadRanks ==
  ASSUME ReferencesInv, NEW c \in Procs, NEW name, At(c, name)
  PROVE  /\ ~Idle(c)
         /\ name = "count" => Rank(prog[c][1]) = 0
         /\ name \in {"repos_off", "unlink"} => Rank(prog[c][1]) = 1
         /\ name \in {"repo_on", "upsert_active", "upsert"} => Rank(prog[c][1]) = 2
         /\ name = "reread" => Rank(prog[c][1]) = 3
         /\ name = "resolve" => Rank(prog[c][1]) = 4
         /\ name = "require" => Rank(prog[c][1]) = 5
         /\ name = "bind" => Rank(prog[c][1]) = 6
         /\ name = "activate_begin" => Rank(prog[c][1]) = 7
         /\ name = "activate" => Rank(prog[c][1]) = 8
         /\ name = "insert_begin" => Rank(prog[c][1]) = 9
         /\ name = "insert" => Rank(prog[c][1]) = 10
         /\ name = "ensure" => Rank(prog[c][1]) = 11
         /\ name = "rebind" => Rank(prog[c][1]) = 12
         /\ name = "load" => Rank(prog[c][1]) = 13
         /\ name \in {"dispatch", "launch"} => Rank(prog[c][1]) = 14
         /\ name = "link" => Rank(prog[c][1]) = 15
         /\ name = "reactivate" => Rank(prog[c][1]) = 16
         /\ name = "read" => Rank(prog[c][1]) = 17
         /\ name \in {"archive", "probe"} => Rank(prog[c][1]) = 18
         /\ name = "delete_check" => Rank(prog[c][1]) = 19
         /\ name = "delete_begin" => Rank(prog[c][1]) = 20
         /\ name = "delete" => Rank(prog[c][1]) = 21
<1>1. ~Idle(c) /\ prog[c][1][1] = name BY Standing
<1>2. QED BY <1>1 DEF Rank

(* The statements there are *)
LEMMA HeadNames ==
  ASSUME ReferencesInv, NEW c \in Procs, ~Idle(c)
  PROVE  \/ \E name \in {"count", "repos_off", "unlink"} : At(c, name)
         \/ \E n \in Nat : n >= 2 /\ Rank(prog[c][1]) = n
<1>1. prog[c][1] \in Statements /\ Head(prog[c]) = prog[c][1] BY Arguments DEF ReferencesInv
<1>2. PICK n \in 0..22 : n = Rank(prog[c][1]) BY RankIsNatural
<1>3. CASE prog[c][1][1] \in {"count", "repos_off", "unlink"}
  BY <1>1, <1>3 DEF At, Idle
<1>4. CASE prog[c][1][1] \notin {"count", "repos_off", "unlink"}
  <2>1. n >= 2 BY <1>2, <1>4 DEF Rank
  <2>2. QED BY <1>2, <2>1
<1>5. QED BY <1>3, <1>4

(* A process that switches nothing has no place to keep *)
LEMMA Quiet ==
  \A c \in Procs : Programs /\ ~Switching(c) =>
    /\ \A i \in DOMAIN prog[c] : prog[c][i][1] \in Reading
    /\ \A name : At(c, name) => name \in Reading
<1> SUFFICES ASSUME NEW c \in Procs, Programs, ~Switching(c)
             PROVE  /\ \A i \in DOMAIN prog[c] : prog[c][i][1] \in Reading
                    /\ \A name : At(c, name) => name \in Reading
  OBVIOUS
<1>1. CASE c \in Handlers
  <2>1. prog[c] = <<>> BY <1>1 DEF Switching, Idle
  <2>2. DOMAIN prog[c] = {} BY <2>1
  <2>3. QED BY <2>1, <2>2 DEF At
<1>2. CASE c \notin Handlers
  <2>1. \A i \in DOMAIN prog[c] : prog[c][i][1] \in Reading BY <1>2 DEF Switching
  <2>2. ASSUME prog[c] # <<>> PROVE Head(prog[c])[1] \in Reading
    BY <2>1, <2>2, Arguments DEF Idle
  <2>3. QED BY <2>1, <2>2 DEF At
<1>3. QED BY <1>1, <1>2

QuietInPlace ==
  \A c \in Procs : Programs /\ ~Switching(c) => Place(c) /\ ~Rebinds(c) /\ ~Turning(c)

LEMMA QuietPlace == QuietInPlace
<1> SUFFICES ASSUME NEW c \in Procs, Programs, ~Switching(c)
             PROVE  Place(c) /\ ~Rebinds(c) /\ ~Turning(c)
  BY DEF QuietInPlace
<1>1. /\ \A i \in DOMAIN prog[c] : prog[c][i][1] \in Reading
      /\ \A name : At(c, name) => name \in Reading
  BY Quiet
<1>2. /\ ~Has(c, {"insert"}) /\ ~Rebinds(c) /\ ~Turning(c)
  BY <1>1 DEF Has, Rebinds, Turning, Reading
<1>3. /\ ~At(c, "activate") /\ ~At(c, "insert") /\ ~At(c, "delete") /\ ~At(c, "repo_on")
      /\ ~At(c, "upsert_active") /\ ~At(c, "count") /\ ~At(c, "require") /\ ~At(c, "bind")
      /\ ~At(c, "insert_begin") /\ ~At(c, "rebind")
  BY <1>1 DEF Reading
<1>4. Room(c) /\ Found(c) /\ Syncing(c) BY <1>2, <1>3 DEF Room, Found, Syncing
<1>5. Fitting(c) BY <1>1 DEF Fitting, Turns, Reading
<1>6. QED BY <1>2, <1>4, <1>5 DEF Place

LEMMA QuietPlaceAfter ==
  ASSUME NEW c \in Procs, Programs', ~Switching(c)'
  PROVE  Place(c)' /\ ~Rebinds(c)' /\ ~Turning(c)'
<1>1. QuietInPlace' BY QuietPlace, PTL
<1>2. QED BY <1>1 DEF QuietInPlace

LEMMA StatementLocal ==
  ASSUME ReferencesInv, NEW c \in Procs, Statement(c), NEW d \in Procs, d # c
  PROVE  /\ prog'[d] = prog[d] /\ copy'[d] = copy[d] /\ theRepo'[d] = theRepo[d]
         /\ snap'[d] = snap[d]
<1>1. prog'[d] = prog[d] BY StatementGoes DEF Goes, Ends
<1>2. CASE \/ Ensure(c) \/ ActivateBegin(c) \/ Activate(c) \/ Reactivate(c) \/ Count(c)
           \/ InsertBegin(c) \/ Insert(c) \/ Read(c) \/ Archive(c) \/ DeleteCheck(c)
           \/ DeleteBegin(c) \/ Delete(c)
  BY <1>1, <1>2 DEF Ensure, ActivateBegin, Activate, Reactivate, Count, InsertBegin, Insert, Read,
     Archive, DeleteCheck, DeleteBegin, Delete, Take, memory, ReferencesInv, TypeOK
<1>3. CASE \/ ReposOff(c) \/ RepoOn(c) \/ Upsert(c) \/ Reread(c) \/ Require(c) \/ Resolve(c)
           \/ Rebind(c) \/ Load(c) \/ Bind(c) \/ Dispatch(c) \/ StartRun(c) \/ Link(c)
           \/ Probe(c) \/ Unlink(c)
  BY <1>1, <1>3 DEF ReposOff, RepoOn, Upsert, Reread, Require, Resolve, Rebind, Load, Bind,
     Dispatch, StartRun, Link, Probe, Unlink, Hold, memory, ReferencesInv, TypeOK
<1>4. QED BY <1>2, <1>3 DEF Statement

LEMMA QuietRows ==
  ASSUME ReferencesInv, NEW c \in Procs, Statement(c), ~Switching(c)
  PROVE  UNCHANGED <<slots, active, slotRepo, activeRepos>>
<1>1. /\ ~Idle(c) BY StatementGoes
<1>2. At(c, Head(prog[c])[1]) BY <1>1 DEF At, Idle
<1>3. Head(prog[c])[1] \in Reading BY <1>2, Quiet DEF ReferencesInv
<1>4. Ensure(c) \/ Load(c) \/ StartRun(c) \/ Link(c) \/ Read(c) \/ Probe(c) \/ Unlink(c)
  BY <1>2, <1>3, Executes DEF Reading
<1>5. QED
  BY <1>4 DEF Ensure, Load, StartRun, Link, Read, Probe, Unlink, slotRows, repoRows

(* A process keeps its place when neither it nor the rows change *)
LEMMA PlaceKept ==
  ASSUME NEW d \in Procs, Place(d), prog'[d] = prog[d], copy'[d] = copy[d],
         theRepo'[d] = theRepo[d], snap'[d] = snap[d],
         UNCHANGED <<slots, active, slotRepo, activeRepos>>
  PROVE  Place(d)' /\ Rebinds(d)' = Rebinds(d) /\ Turning(d)' = Turning(d)
<1>1. Rebinds(d)' = Rebinds(d) /\ Turning(d)' = Turning(d)
  BY DEF Rebinds, Turning, Has
<1>2. Chosen(d)' = Chosen(d) BY DEF Chosen
<1>3. Room(d)' BY DEF Place, Room, Has, At
<1>4. Found(d)' BY <1>1, <1>2 DEF Place, Found, At, Arg
<1>5. Fitting(d)' BY <1>1 DEF Place, Fitting, Fits
<1>6. Syncing(d)' BY <1>1 DEF Place, Syncing, At, Has
<1>7. QED BY <1>1, <1>3, <1>4, <1>5, <1>6 DEF Place

(* The others keep their place *)
LEMMA OthersKeepPlace ==
  ASSUME ReferencesInv, ReferencesInv', Orderly, NEW c \in Procs, Statement(c), ~Overlap',
         NEW d \in Procs, d # c
  PROVE  Place(d)' /\ Rebinds(d)' = Rebinds(d) /\ Turning(d)' = Turning(d)
<1>1. /\ prog'[d] = prog[d] /\ copy'[d] = copy[d] /\ theRepo'[d] = theRepo[d]
      /\ snap'[d] = snap[d]
  BY StatementLocal
<1>2. Rebinds(d)' = Rebinds(d) /\ Turning(d)' = Turning(d)
  BY <1>1 DEF Rebinds, Turning, Has
<1>3. CASE ~Switching(d)'
  BY <1>2, <1>3, QuietPlaceAfter DEF ReferencesInv
<1>4. CASE Switching(d)'
  <2>1. Switching(d) BY <1>1, <1>4 DEF Switching, Idle
  <2>2. ~Switching(c) BY <2>1 DEF Orderly, OneSwitch
  <2>3. UNCHANGED <<slots, active, slotRepo, activeRepos>> BY <2>2, QuietRows
  <2>4. Place(d) BY DEF Orderly
  <2>5. QED BY <1>1, <2>3, <2>4, PlaceKept
<1>5. QED BY <1>3, <1>4

-----------------------------------------------------------------------------
(* What a statement leaves its own process to do *)

LEMMA SlotsFinite ==
  ASSUME ReferencesInv
  PROVE  /\ IsFiniteSet(slots) /\ Cardinality(slots) \in Nat
         /\ \A T \in SUBSET slots : Cardinality(T) \in Nat /\ Cardinality(T) <= Cardinality(slots)
<1>1. IsFiniteSet(SlotIds)
  BY AgentSlotsAssumption, FS_Interval DEF SlotIds
<1>2. slots \in SUBSET SlotIds BY DEF ReferencesInv, TypeOK
<1>3. IsFiniteSet(slots) BY <1>1, <1>2, FS_Subset
<1>4. ASSUME NEW T \in SUBSET slots
      PROVE  Cardinality(T) \in Nat /\ Cardinality(T) <= Cardinality(slots)
  BY <1>3, FS_Subset, FS_CardinalityType
<1>5. QED BY <1>3, <1>4, FS_CardinalityType

(* The next statement, when nothing was put in place *)
LEMMA NextHead ==
  ASSUME ReferencesInv, Programs', NEW c \in Procs, ~Idle(c), NEW more, Goes(c, more),
         Expands(c, more), NEW name, At(c, name)'
  PROVE  \/ Len(more) = 0 /\ Len(prog[c]) > 1 /\ prog[c][2][1] = name
              /\ Precedes(prog[c][1], prog[c][2]) /\ Head(prog'[c]) = prog[c][2]
         \/ Len(more) > 0 /\ name \in {"activate_begin", "resolve", "repos_off", "unlink"}
<1>1. Programs /\ prog'[c] # <<>> /\ Head(prog'[c])[1] = name BY DEF ReferencesInv, At
<1>2. CASE Len(more) = 0
  BY <1>1, <1>2, HeadAfter
<1>3. CASE Len(more) # 0
  <2>1. Len(more) > 0 BY <1>3 DEF Goes
  <2>2. Head(prog'[c]) = more[1] BY <1>1, <2>1, HeadAfter
  <2>3. QED
    BY <1>1, <1>3, <2>1, <2>2
    DEF Expands, Kept, SlotChosen, SlotCreated, RepoFollows, OnlyRepo, RepoBound, Unlinked
<1>4. QED BY <1>2, <1>3

(* What is put in place holds neither an insertion nor a sync of its own *)
LEMMA ExpandsNames ==
  ASSUME NEW c \in Procs, NEW more, Expands(c, more), NEW i \in 1..Len(more)
  PROVE  /\ more[i][1] # "rebind" /\ more[i][1] # "count" /\ more[i][1] # "ensure"
         /\ more[i][1] = "insert" => slots = {}
         /\ more[i][1] \in {"activate_begin", "activate"} => SlotChosen(c, more)
         /\ more[i][1] = "require" => RepoBound(c, more)
         /\ Turns(more[i]) => more[i][1] = "repo_on" /\ i = 2
                              /\ (RepoFollows(c, more) \/ OnlyRepo(c, more))
BY DEF Expands, Kept, SlotChosen, SlotCreated, RepoFollows, OnlyRepo, RepoBound, Unlinked, Turns

LEMMA EndedPlace ==
  ASSUME NEW c \in Procs, prog'[c] = <<>>
  PROVE  Place(c)' /\ ~Rebinds(c)' /\ ~Turning(c)'
<1>1. DOMAIN prog'[c] = {} OBVIOUS
<1>2. ~Has(c, {"insert"})' /\ ~Rebinds(c)' /\ ~Turning(c)'
  BY <1>1 DEF Has, Rebinds, Turning
<1>3. \A name : ~At(c, name)' BY DEF At
<1>4. Room(c)' /\ Found(c)' /\ Syncing(c)' BY <1>2, <1>3 DEF Room, Found, Syncing
<1>5. Fitting(c)' BY <1>1 DEF Fitting
<1>6. QED BY <1>2, <1>4, <1>5 DEF Place

LEMMA GoesOn ==
  ASSUME ReferencesInv, NEW c \in Procs, ~Idle(c), NEW more, Goes(c, more)
  PROVE  /\ ~At(c, "rebind") /\ Rebinds(c) => Rebinds(c)'
         /\ ~At(c, "repo_on") /\ ~At(c, "upsert_active") /\ Turning(c) => Turning(c)'
<1>1. \A names : Has(c, names) <=> Head(prog[c])[1] \in names \/ Later(c, names)
  BY HasNow
<1>2. \A names : Later(c, names) => Has(c, names)'
  BY HasAfter
<1>3. QED BY <1>1, <1>2 DEF Rebinds, Turning, At, Idle

LEMMA RebindsLater ==
  ASSUME ReferencesInv, NEW c \in Procs, ~Idle(c), NEW more, Goes(c, more), Expands(c, more),
         Rebinds(c)'
  PROVE  Rebinds(c) /\ Later(c, {"rebind"})
<1>1. Has(c, {"rebind"})' BY DEF Rebinds
<1>2. Later(c, {"rebind"})
  BY <1>1, HasAfter, ExpandsNames
<1>3. QED BY <1>2, HasNow DEF Rebinds

(* Exactly one slot is active after a deletion *)
LEMMA DeletedActive ==
  ASSUME ReferencesInv, NEW c \in Procs, Found(c), OneActive, Delete(c)
  PROVE  /\ slots' = slots \ {copy[c].id} /\ copy[c].id \in slots
         /\ \E a \in slots' : active' = {a}
         /\ \A a \in active' : active' = {a} /\ a # copy[c].id /\ a \in SlotIds
<1>1. At(c, "delete") BY DEF Delete
<1>2. PICK s \in slots : s = copy[c].id BY <1>1 DEF Found
<1>3. /\ slots # {s} /\ snap[c] = IF s \in active THEN slots ELSE {}
  BY <1>1, <1>2 DEF Found
<1>4. PICK b \in slots : active = {b} BY <1>2 DEF OneActive
<1>5. /\ slots' = slots \ {s} /\ slots \ {s} # {}
      /\ active' = ((active \ {s}) \ snap[c]) \cup
                     (IF snap[c] # {} /\ slots \ {s} # {} THEN {Lowest(slots \ {s})} ELSE {})
  BY <1>2, <1>3 DEF Delete
<1>6. slots \subseteq SlotIds BY DEF ReferencesInv, TypeOK
<1>7. PICK t : t = Lowest(slots \ {s}) OBVIOUS
<1>8. t \in slots \ {s} BY <1>5, <1>6, <1>7, LowestOfSet
<1>9. CASE s \in active
  <2>1. active' = {t} BY <1>3, <1>4, <1>5, <1>7, <1>9
  <2>2. QED BY <1>2, <1>5, <1>6, <1>8, <2>1
<1>10. CASE s \notin active
  <2>1. active' = {b} /\ b # s BY <1>3, <1>4, <1>5, <1>10
  <2>2. QED BY <1>2, <1>4, <1>5, <1>6, <2>1
<1>11. QED BY <1>9, <1>10

LEMMA RoomAfter ==
  ASSUME ReferencesInv, NEW c \in Procs, Room(c), Statement(c)
  PROVE  Room(c)'
<1>1. /\ ~Idle(c) /\ Programs'
      /\ Ends(c) \/ \E more : Goes(c, more) /\ Expands(c, more)
  BY StatementGoes
<1>2. CASE Ends(c) BY <1>2, EndedPlace DEF Ends, Place
<1>3. ASSUME NEW more, Goes(c, more), Expands(c, more), ~Ends(c), Has(c, {"insert"})'
      PROVE  Cardinality(slots') < MaxSlots
  <2>1. CASE slots = {}
    <3>1. Later(c, {"insert"}) \/ SlotCreated(c, more)
      BY <1>3, HasAfter DEF Expands, Kept, SlotChosen, RepoFollows, OnlyRepo, RepoBound, Unlinked
    <3>2. ~At(c, "insert")
      <4>1. CASE Later(c, {"insert"})
        BY <1>1, <4>1, HeadRanks, LaterRanks
      <4>2. CASE SlotCreated(c, more)
        BY <4>2 DEF SlotCreated, At
      <4>3. QED BY <3>1, <4>1, <4>2
    <3>3. slots' = {}
      BY <2>1, <3>2 DEF Statement, Ensure, ActivateBegin, Activate, Reactivate, Count,
         InsertBegin, Insert, Read, Archive, DeleteCheck, DeleteBegin, Delete, ReposOff, RepoOn,
         Upsert, Reread, Require, Resolve, Rebind, Load, Bind, Dispatch, StartRun, Link, Probe,
         Unlink, slotRows
    <3>4. QED BY <3>3, FS_EmptySet, AgentSlotsAssumption
  <2>2. CASE slots # {}
    <3>1. Later(c, {"insert"}) BY <1>3, <2>2, HasAfter, ExpandsNames
    <3>2. Has(c, {"insert"}) BY <1>1, <3>1, HasNow
    <3>3. ~At(c, "insert") /\ ~At(c, "delete")
      BY <1>1, <3>1, HeadRanks, LaterRanks
    <3>4. UNCHANGED slots
      BY <3>3 DEF Statement, Ensure, ActivateBegin, Activate, Reactivate, Count,
         InsertBegin, Insert, Read, Archive, DeleteCheck, DeleteBegin, Delete, ReposOff, RepoOn,
         Upsert, Reread, Require, Resolve, Rebind, Load, Bind, Dispatch, StartRun, Link, Probe,
         Unlink, slotRows
    <3>5. CASE At(c, "count")
      <4>1. Count(c) BY <3>5, Executes
      <4>2. ~Return(c) BY <1>3, <4>1, ChecksGo
      <4>3. ~(Cardinality(slots) >= MaxSlots) BY <4>1, <4>2 DEF Count
      <4>4. QED BY <3>4, <4>3, SlotsFinite, AgentSlotsAssumption
    <3>6. CASE ~At(c, "count") BY <3>2, <3>4, <3>6 DEF Room
    <3>7. QED BY <3>5, <3>6
  <2>3. QED BY <2>1, <2>2
<1>4. QED BY <1>1, <1>2, <1>3 DEF Room

(* The switches still to come fit the active slot *)
LEMMA FittingAfter ==
  ASSUME ReferencesInv, NEW c \in Procs, Place(c), OneActive, Statement(c)
  PROVE  Fitting(c)'
<1>1. /\ ~Idle(c) /\ Programs'
      /\ Ends(c) \/ \E more : Goes(c, more) /\ Expands(c, more)
  BY StatementGoes
<1>2. CASE Ends(c) BY <1>2, EndedPlace DEF Ends, Place
<1>3. ASSUME NEW more, Goes(c, more), Expands(c, more), NEW j \in DOMAIN prog'[c],
             Turns(prog'[c][j])
      PROVE  Rebinds(c)' \/ \A s \in active' : slotRepo'[s] \in {Nothing, prog'[c][j][2]}
  <2>1. /\ DOMAIN prog[c] = 1..Len(prog[c]) /\ DOMAIN prog'[c] = 1..Len(prog'[c])
        /\ Len(more) \in Nat /\ Len(prog[c]) \in Nat
    BY <1>3 DEF Goes
  <2>2. CASE j > Len(more)
    <3>1. PICK k \in 2..Len(prog[c]) : prog'[c][j] = prog[c][k] BY <1>3, <2>1, <2>2 DEF Goes
    <3>2. Later(c, {"repo_on", "upsert_active"}) BY <1>3, <3>1 DEF Later, Turns
    <3>3. \E name \in {"count", "repos_off", "unlink"} : At(c, name)
      BY <1>1, <3>2, HeadNames, LaterRanks
    <3>4. Count(c) \/ ReposOff(c) \/ Unlink(c) BY <3>3, Executes
    <3>5. UNCHANGED <<active, slotRepo>>
      BY <3>4 DEF Count, ReposOff, Unlink, slotRows
    <3>6. k \in DOMAIN prog[c] /\ Turns(prog[c][k]) BY <1>3, <2>1, <3>1
    <3>7. Rebinds(c) \/ \A s \in active : Fits(s, prog[c][k][2])
      BY <3>6 DEF Place, Fitting
    <3>8. Rebinds(c) => Rebinds(c)' BY <1>1, <1>3, <3>3, GoesOn DEF At
    <3>9. QED BY <3>1, <3>5, <3>7, <3>8 DEF Fits
  <2>3. CASE j <= Len(more)
    <3>1. j \in 1..Len(more) BY <2>1, <2>3
    <3>2. prog'[c][j] = more[j] BY <1>3, <3>1 DEF Goes
    <3>3. j = 2 /\ (RepoFollows(c, more) \/ OnlyRepo(c, more))
      BY <1>3, <3>1, <3>2, ExpandsNames
    <3>4. CASE RepoFollows(c, more) /\ At(c, "activate")
      <4>1. Activate(c) BY <3>4, Executes
      <4>2. Arg(c) \in slots /\ more[2][2] = slotRepo[Arg(c)] /\ snap[c] = slots
        BY <3>4 DEF RepoFollows, At, Place, Found
      <4>3. active' = {Arg(c)} /\ slotRepo' = slotRepo
        BY <4>1, <4>2 DEF Activate, Deactivated, ReferencesInv, TypeOK
      <4>4. QED BY <3>2, <3>3, <4>2, <4>3
    <3>5. CASE RepoFollows(c, more) /\ At(c, "delete")
      <4>1. Delete(c) BY <3>5, Executes
      <4>2. PICK a \in active' : more[2][2] = slotRepo[a] BY <3>5 DEF RepoFollows, At
      <4>3. active' = {a} /\ a # copy[c].id /\ a \in SlotIds
        BY <4>1, <4>2, DeletedActive DEF Place
      <4>4. slotRepo'[a] = slotRepo[a] BY <4>1, <4>3 DEF Delete, ReferencesInv, TypeOK
      <4>5. QED BY <3>2, <3>3, <4>2, <4>3, <4>4
    <3>6. CASE OnlyRepo(c, more)
      <4>1. Resolve(c) /\ repos = {more[2][2]} BY <3>6, Executes DEF OnlyRepo
      <4>2. UNCHANGED <<active, slotRepo>> BY <4>1 DEF Resolve, slotRows
      <4>3. \A s \in active : slotRepo[s] \in repos \cup {Nothing}
        BY DEF ReferencesInv, Rows, TypeOK
      <4>4. QED BY <3>2, <3>3, <4>1, <4>2, <4>3
    <3>7. QED BY <3>3, <3>4, <3>5, <3>6 DEF RepoFollows
  <2>4. QED BY <2>1, <2>2, <2>3
<1>4. QED BY <1>1, <1>2, <1>3 DEF Fitting, Fits

LEMMA NeverCounts ==
  ASSUME ReferencesInv, NEW c \in Procs, ~Idle(c)
  PROVE  ~Later(c, {"count"})
<1>1. PICK n \in 0..22 : n = Rank(prog[c][1]) BY RankIsNatural
<1>2. n \in Nat BY <1>1
<1>3. QED BY <1>1, <1>2, LaterRanks

LEMMA HeadIsHad ==
  ASSUME Programs', NEW c \in Procs, NEW more, Goes(c, more), NEW name, At(c, name)'
  PROVE  Has(c, {name})'
<1>1. prog'[c] \in Seq(Statements) /\ prog'[c] # <<>> BY DEF Programs, At
<1>2. Head(prog'[c]) = prog'[c][1] /\ 1 \in DOMAIN prog'[c] BY <1>1, EmptySeq, LenProperties
<1>3. QED BY <1>2 DEF Has, At

(* What the next statement of a process counts on *)
LEMMA FoundAfter ==
  ASSUME ReferencesInv, ReferencesInv', NEW c \in Procs, Place(c), OneActive, Statement(c)
  PROVE  Found(c)'
<1>1. /\ ~Idle(c) /\ Programs'
      /\ Ends(c) \/ \E more : Goes(c, more) /\ Expands(c, more)
  BY StatementGoes
<1>2. CASE Ends(c) BY <1>2, EndedPlace DEF Ends, Place
<1>3. ASSUME NEW more, Goes(c, more), Expands(c, more)
      PROVE  Found(c)'
  <2>1. Head(prog[c]) = prog[c][1] /\ prog[c] # <<>> BY <1>1, Arguments DEF ReferencesInv, Idle
  <2>2. /\ At(c, "activate")' => Arg(c)' \in slots' /\ snap'[c] = slots'
        /\ At(c, "insert")' => snap'[c] = slots'
        /\ At(c, "repo_on")' \/ At(c, "upsert_active")' => activeRepos' = {}
    BY TransactionFinds
  <2>3. At(c, "delete")' => /\ copy'[c].id \in slots' /\ slots' # {copy'[c].id}
                            /\ snap'[c] = IF copy'[c].id \in active' THEN slots' ELSE {}
    <3>1. SUFFICES ASSUME At(c, "delete")'
                   PROVE  /\ copy'[c].id \in slots' /\ slots' # {copy'[c].id}
                          /\ snap'[c] = IF copy'[c].id \in active' THEN slots' ELSE {}
      OBVIOUS
    <3>2. prog'[c] # <<>> BY <3>1 DEF At
    <3>3. prog[c][2][1] = "delete" /\ Precedes(prog[c][1], prog[c][2])
      BY <1>1, <1>3, <3>1, NextHead
    <3>4. At(c, "delete_begin") BY <2>1, <3>3 DEF Precedes, At
    <3>5. DeleteBegin(c) BY <3>4, Executes
    <3>6. ~Return(c) BY <3>2, <3>5, ChecksGo DEF Ends
    <3>7. /\ copy[c].id \in slots /\ Cardinality(slots) > 1
          /\ snap' = [snap EXCEPT ![c] = IF copy[c].id \in active THEN slots ELSE {}]
          /\ UNCHANGED <<slots, active, copy>>
      BY <3>5, <3>6 DEF DeleteBegin, slotRows
    <3>8. slots # {copy[c].id}
      <4>1. ASSUME slots = {copy[c].id} PROVE FALSE
        <5>1. Cardinality({copy[c].id}) = 1 BY FS_Singleton
        <5>2. Cardinality(slots) = 1 BY <4>1, <5>1
        <5>3. QED BY <3>7, <5>2
      <4>2. QED BY <4>1
    <3>9. QED BY <3>7, <3>8 DEF ReferencesInv, TypeOK
  <2>4. ~At(c, "count")'
    <3>1. ASSUME At(c, "count")' PROVE FALSE
      <4>1. Len(prog[c]) > 1 /\ prog[c][2][1] = "count" BY <1>1, <1>3, <3>1, NextHead
      <4>2. Later(c, {"count"}) BY <1>3, <4>1 DEF Later, Goes
      <4>3. QED BY <1>1, <4>2, NeverCounts
    <3>2. QED BY <3>1
  <2>5. ASSUME \/ At(c, "require")' \/ At(c, "bind")' \/ At(c, "insert_begin")' \/ At(c, "insert")'
               \/ At(c, "rebind")' \/ (At(c, "ensure")' /\ Rebinds(c)')
        PROVE  Chosen(c)'
    <3>1. PICK name \in {"require", "bind", "insert_begin", "insert", "rebind", "ensure"} :
            At(c, name)' /\ (name \in {"rebind", "ensure"} => Rebinds(c)')
      <4>1. At(c, "rebind")' => Rebinds(c)'
        BY <1>1, <1>3, HeadIsHad DEF Rebinds
      <4>2. QED BY <2>5, <4>1
    <3>2. /\ Len(more) = 0 /\ Len(prog[c]) > 1 /\ prog[c][2][1] = name
          /\ Precedes(prog[c][1], prog[c][2])
      BY <1>1, <1>3, <3>1, NextHead
    <3>3. name \in {"rebind", "ensure"} => Rebinds(c) /\ Follows(prog[c][1], prog[c][2], theRepo[c])
      <4>1. SUFFICES ASSUME name \in {"rebind", "ensure"}
                     PROVE  Rebinds(c) /\ Follows(prog[c][1], prog[c][2], theRepo[c])
        OBVIOUS
      <4>2. Rebinds(c) BY <1>1, <1>3, <3>1, <4>1, RebindsLater
      <4>3. 1 \in DOMAIN prog[c] /\ 1 + 1 \in DOMAIN prog[c] /\ 1 + 1 = 2
        BY <1>3, <3>2 DEF Goes
      <4>4. Follows(prog[c][1], prog[c][2], theRepo[c])
        BY <4>2, <4>3 DEF Place, Syncing
      <4>5. QED BY <4>2, <4>4
    <3>4. Kept(c, more)
      BY <1>3, <3>2 DEF Expands, Kept, SlotChosen, SlotCreated, RepoFollows, OnlyRepo, RepoBound,
         Unlinked
    <3>5. CASE name \in {"require", "insert_begin"}
      <4>1. At(c, "resolve") \/ At(c, "reread")
        BY <2>1, <3>2, <3>5 DEF Precedes, At
      <4>2. Resolve(c) \/ Reread(c) BY <4>1, Executes
      <4>3. \/ activeRepos = {} /\ Hold(c, Nothing)
            \/ \E r \in activeRepos : Hold(c, r)
        <5>1. CASE Reread(c) BY <5>1 DEF Reread
        <5>2. CASE Resolve(c)
          <6>1. ASSUME NEW r \in repos,
                       Goes(c, <<Do("repos_off"), <<"repo_on", r>>, Do("reread")>>)
                PROVE  FALSE
            <7>1. Len(<<Do("repos_off"), <<"repo_on", r>>, Do("reread")>>) = 3 OBVIOUS
            <7>2. QED BY <1>3, <3>2, <6>1, <7>1 DEF Goes
          <6>2. QED BY <5>2, <6>1, ResolveGoes
        <5>3. QED BY <4>2, <5>1, <5>2
      <4>4. UNCHANGED activeRepos BY <4>2 DEF Resolve, Reread, repoRows
      <4>5. \/ theRepo'[c] = Nothing
            \/ theRepo'[c] \in activeRepos
        BY <4>3 DEF Hold, ReferencesInv, TypeOK
      <4>6. QED BY <4>4, <4>5 DEF Chosen, OneActive
    <3>6. CASE name \in {"bind", "insert", "rebind"}
      <4>1. \/ At(c, "require") \/ At(c, "insert_begin") \/ (At(c, "ensure") /\ Rebinds(c))
            \/ At(c, "insert")
        BY <2>1, <3>2, <3>3, <3>6 DEF Precedes, Follows, At
      <4>2. Chosen(c) BY <4>1 DEF Place, Found
      <4>3. Require(c) \/ InsertBegin(c) \/ Ensure(c) \/ Insert(c) BY <4>1, Executes
      <4>4. UNCHANGED <<theRepo, activeRepos>>
        BY <4>3 DEF Require, InsertBegin, Ensure, Insert, repoRows, memory
      <4>5. QED BY <4>2, <4>4 DEF Chosen
    <3>7. CASE name = "ensure"
      <4>1. At(c, "require") \/ (Turns(prog[c][1]) /\ prog[c][1][2] = theRepo[c])
        BY <2>1, <3>2, <3>3, <3>7 DEF Follows, At
      <4>2. CASE At(c, "require")
        <5>1. Chosen(c) BY <4>2 DEF Place, Found
        <5>2. Require(c) BY <4>2, Executes
        <5>3. UNCHANGED <<theRepo, activeRepos>> BY <5>2 DEF Require, repoRows, memory
        <5>4. QED BY <5>1, <5>3 DEF Chosen
      <4>3. CASE Turns(prog[c][1]) /\ prog[c][1][2] = theRepo[c]
        <5>1. At(c, "repo_on") \/ At(c, "upsert_active") BY <2>1, <4>3 DEF Turns, At
        <5>2. activeRepos = {} BY <5>1 DEF Place, Found
        <5>3. RepoOn(c) \/ (Upsert(c) /\ At(c, "upsert_active")) BY <5>1, Executes
        <5>4. activeRepos' = {theRepo[c]} /\ theRepo' = theRepo
          BY <2>1, <4>3, <5>2, <5>3 DEF RepoOn, Upsert, Arg, At, memory
        <5>5. QED BY <5>4 DEF Chosen
      <4>4. QED BY <4>1, <4>2, <4>3
    <3>8. QED BY <3>5, <3>6, <3>7
  <2>6. QED BY <2>2, <2>3, <2>4, <2>5 DEF Found
<1>4. QED BY <1>1, <1>2, <1>3

(* A switch of repository goes on to the sync of the active slot *)
LEMMA SyncingAfter ==
  ASSUME ReferencesInv, ReferencesInv', NEW c \in Procs, Place(c), OneActive, Statement(c)
  PROVE  Syncing(c)'
<1>1. /\ ~Idle(c) /\ Programs'
      /\ Ends(c) \/ \E more : Goes(c, more) /\ Expands(c, more)
  BY StatementGoes
<1>2. CASE Ends(c) BY <1>2, EndedPlace DEF Ends, Place
<1>3. ASSUME NEW more, Goes(c, more), Expands(c, more), Rebinds(c)'
      PROVE  /\ c \in Handlers /\ ~At(c, "count")'
             /\ ~Has(c, {"activate_begin", "activate"})'
             /\ At(c, "reread")' => activeRepos' # {}
             /\ At(c, "require")' => theRepo'[c] # Nothing
             /\ At(c, "rebind")' => active' = {copy'[c].id} /\ slotRepo'[copy'[c].id] = copy'[c].repo
             /\ \A i \in DOMAIN prog'[c] : i + 1 \in DOMAIN prog'[c] =>
                  Follows(prog'[c][i], prog'[c][i + 1], theRepo'[c])
  <2>1. Head(prog[c]) = prog[c][1] /\ prog[c] # <<>> /\ Len(prog[c]) \in Nat /\ Len(prog[c]) > 0
    BY <1>1, Arguments DEF ReferencesInv, Idle
  <2>2. Rebinds(c) /\ Later(c, {"rebind"}) BY <1>1, <1>3, RebindsLater
  <2>3. /\ c \in Handlers /\ ~At(c, "count") /\ ~Has(c, {"activate_begin", "activate"})
        /\ At(c, "reread") => activeRepos # {}
        /\ \A i \in DOMAIN prog[c] : i + 1 \in DOMAIN prog[c] =>
             Follows(prog[c][i], prog[c][i + 1], theRepo[c])
    BY <2>2 DEF Place, Syncing
  <2>4. /\ ~At(c, "reactivate") /\ ~At(c, "load") /\ ~At(c, "probe") /\ ~At(c, "delete")
        /\ ~At(c, "rebind")
    BY <1>1, <2>2, HeadRanks, LaterRanks
  <2>5. ~At(c, "activate") BY <1>1, <2>3, HasNow DEF At
  <2>6. Kept(c, more) \/ SlotCreated(c, more) \/ OnlyRepo(c, more)
    BY <1>3, <2>4, <2>5
    DEF Expands, SlotChosen, RepoFollows, RepoBound, Unlinked, OneActive
  <2>7. ~At(c, "count")'
    <3>1. ASSUME At(c, "count")' PROVE FALSE
      <4>1. Len(prog[c]) > 1 /\ prog[c][2][1] = "count" BY <1>1, <1>3, <3>1, NextHead
      <4>2. Later(c, {"count"}) BY <1>3, <4>1 DEF Later, Goes
      <4>3. QED BY <1>1, <4>2, NeverCounts
    <3>2. QED BY <3>1
  <2>8. ~Has(c, {"activate_begin", "activate"})'
    <3>1. ~Later(c, {"activate_begin", "activate"}) BY <1>1, <2>3, HasNow
    <3>2. \A i \in 1..Len(more) : more[i][1] \notin {"activate_begin", "activate"}
      BY <2>6 DEF Kept, SlotCreated, OnlyRepo
    <3>3. QED BY <1>3, <3>1, <3>2, HasAfter
  <2>9. ASSUME NEW name \in {"reread", "require", "rebind"}, At(c, name)'
        PROVE  /\ Kept(c, more) /\ Len(prog[c]) > 1 /\ prog[c][2][1] = name
               /\ Precedes(prog[c][1], prog[c][2])
               /\ Follows(prog[c][1], prog[c][2], theRepo[c])
    <3>1. /\ Len(more) = 0 /\ Len(prog[c]) > 1 /\ prog[c][2][1] = name
          /\ Precedes(prog[c][1], prog[c][2])
      BY <1>1, <1>3, <2>9, NextHead
    <3>2. 1 \in DOMAIN prog[c] /\ 1 + 1 \in DOMAIN prog[c] /\ 1 + 1 = 2
      BY <1>3, <3>1 DEF Goes
    <3>3. Follows(prog[c][1], prog[c][2], theRepo[c]) BY <2>3, <3>2
    <3>4. ~SlotCreated(c, more) /\ ~OnlyRepo(c, more)
      BY <3>1 DEF SlotCreated, OnlyRepo
    <3>5. QED BY <2>6, <3>1, <3>3, <3>4
  <2>10. At(c, "reread")' => activeRepos' # {}
    <3>1. SUFFICES ASSUME At(c, "reread")' PROVE activeRepos' # {}
      OBVIOUS
    <3>2. At(c, "repo_on") BY <2>1, <2>9, <3>1 DEF Precedes, At
    <3>3. RepoOn(c) BY <3>2, Executes
    <3>4. QED BY <3>3 DEF RepoOn
  <2>11. At(c, "require")' => theRepo'[c] # Nothing
    <3>1. SUFFICES ASSUME At(c, "require")' PROVE theRepo'[c] # Nothing
      OBVIOUS
    <3>2. At(c, "reread") BY <2>1, <2>9, <3>1 DEF Follows, At
    <3>3. Reread(c) /\ activeRepos # {} BY <2>3, <3>2, Executes
    <3>4. PICK r \in activeRepos : Hold(c, r) BY <3>3 DEF Reread
    <3>5. r # Nothing /\ theRepo'[c] = r
      BY <3>4, AgentSlotsAssumption DEF Hold, ReferencesInv, TypeOK
    <3>6. QED BY <3>5
  <2>12. At(c, "rebind")' => active' = {copy'[c].id} /\ slotRepo'[copy'[c].id] = copy'[c].repo
    <3>1. SUFFICES ASSUME At(c, "rebind")'
                   PROVE  active' = {copy'[c].id} /\ slotRepo'[copy'[c].id] = copy'[c].repo
      OBVIOUS
    <3>2. Kept(c, more) /\ (At(c, "ensure") \/ At(c, "insert"))
      BY <2>1, <2>9, <3>1 DEF Follows, At
    <3>3. CASE At(c, "ensure")
      <4>1. PICK s \in active : Take(c, s) BY <3>2, <3>3 DEF Kept
      <4>2. s \in SlotIds /\ s \in slots BY DEF ReferencesInv, TypeOK
      <4>3. copy'[c].id = s /\ copy'[c].repo = slotRepo[s] BY <4>1, <4>2, Taken
      <4>4. active = {s} BY <4>2 DEF OneActive
      <4>5. UNCHANGED <<active, slotRepo>> BY <3>3, Executes DEF Ensure, slotRows
      <4>6. QED BY <4>3, <4>4, <4>5
    <3>4. CASE At(c, "insert")
      <4>1. Insert(c) BY <3>4, Executes
      <4>2. created + 1 \in SlotIds
        BY <4>1, AgentSlotsAssumption DEF Insert, SlotIds, ReferencesInv, TypeOK
      <4>3. snap[c] = slots BY <3>4 DEF Place, Found
      <4>4. active' = {created + 1}
        BY <4>1, <4>3 DEF Insert, Deactivated, ReferencesInv, TypeOK
      <4>5. slotRepo'[created + 1] = theRepo[c]
        BY <4>1, <4>2 DEF Insert, ReferencesInv, TypeOK
      <4>6. copy'[c].id = created + 1 /\ copy'[c].repo = theRepo[c]
        BY <4>1 DEF Insert, ReferencesInv, TypeOK
      <4>7. QED BY <4>4, <4>5, <4>6
    <3>5. QED BY <3>2, <3>3, <3>4
  <2>13. ASSUME NEW i \in DOMAIN prog'[c], i + 1 \in DOMAIN prog'[c]
         PROVE  Follows(prog'[c][i], prog'[c][i + 1], theRepo'[c])
    <3> DEFINE m == Len(more)
    <3>1. /\ m \in Nat /\ DOMAIN prog[c] = 1..Len(prog[c]) /\ DOMAIN prog'[c] = 1..Len(prog'[c])
          /\ Len(prog'[c]) = m + Len(prog[c]) - 1
          /\ \A j \in 1..m : prog'[c][j] = more[j]
          /\ \A j \in 1..Len(prog'[c]) : j > m =>
               /\ j - m + 1 \in 2..Len(prog[c])
               /\ prog'[c][j] = prog[c][j - m + 1]
      BY <1>3 DEF Goes
    <3>2. i \in 1..Len(prog'[c]) /\ i + 1 \in 1..Len(prog'[c]) BY <2>13, <3>1
    <3> HIDE DEF m
    <3>3. CASE i > m
      <4>1. PICK k \in 2..Len(prog[c]) : k = i - m + 1 BY <3>1, <3>2, <3>3
      <4>2. prog'[c][i] = prog[c][k] BY <3>1, <3>2, <3>3, <4>1
      <4>3. i + 1 - m + 1 = k + 1 /\ i + 1 > m BY <3>1, <3>2, <3>3, <4>1
      <4>4. prog'[c][i + 1] = prog[c][k + 1] /\ k + 1 \in 2..Len(prog[c])
        BY <3>1, <3>2, <4>3
      <4>5. k \in DOMAIN prog[c] /\ k + 1 \in DOMAIN prog[c] BY <3>1, <4>1, <4>4
      <4>6. Follows(prog[c][k], prog[c][k + 1], theRepo[c]) BY <2>3, <4>5
      <4>7. Turns(prog[c][k]) => theRepo'[c] = theRepo[c]
        <5>1. SUFFICES ASSUME Turns(prog[c][k]) PROVE theRepo'[c] = theRepo[c]
          OBVIOUS
        <5>2. Later(c, {"repo_on", "upsert_active"}) BY <4>1, <5>1 DEF Later, Turns
        <5>3. \E name \in {"count", "repos_off", "unlink"} : At(c, name)
          BY <1>1, <5>2, HeadNames, LaterRanks
        <5>4. Count(c) \/ ReposOff(c) \/ Unlink(c) BY <5>3, Executes
        <5>5. QED BY <5>4 DEF Count, ReposOff, Unlink, memory
      <4>8. QED BY <4>2, <4>4, <4>6, <4>7 DEF Follows
    <3>4. CASE i < m
      <4>1. i \in 1..m /\ i + 1 \in 1..m BY <3>1, <3>2, <3>4
      <4>2. prog'[c][i + 1] = more[i + 1] BY <3>1, <4>1
      <4>3. more[i + 1][1] \notin {"rebind", "require", "ensure"}
        BY <2>6, <4>1 DEF Kept, SlotCreated, OnlyRepo, m
      <4>4. QED BY <4>2, <4>3 DEF Follows
    <3>5. CASE i = m
      <4>1. m > 0 /\ m \in 1..m BY <3>1, <3>2, <3>5
      <4>2. prog'[c][i] = more[m] BY <3>1, <3>5, <4>1
      <4>3. i + 1 > m /\ i + 1 - m + 1 = 2 BY <3>1, <3>5
      <4>4. prog'[c][i + 1] = prog[c][2] /\ 2 \in 2..Len(prog[c])
        <5>1. PICK j \in 1..Len(prog'[c]) : j = i + 1 BY <3>2
        <5>2. j > m /\ j - m + 1 = 2 BY <3>1, <3>2, <3>5, <5>1
        <5>3. j - m + 1 \in 2..Len(prog[c]) /\ prog'[c][j] = prog[c][j - m + 1]
          BY <3>1, <5>1, <5>2
        <5>4. QED BY <5>1, <5>2, <5>3
      <4>5. 1 \in DOMAIN prog[c] /\ 1 + 1 \in DOMAIN prog[c] /\ 1 + 1 = 2
        BY <3>1, <4>4, <2>1
      <4>6. Follows(prog[c][1], prog[c][2], theRepo[c]) BY <2>3, <4>5
      <4>7. CASE SlotCreated(c, more)
        <5>1. prog[c][1][1] = "ensure" /\ more[m][1] = "insert"
          BY <2>1, <4>7 DEF SlotCreated, At, m
        <5>2. prog[c][2][1] # "require" /\ prog[c][2][1] # "ensure"
          BY <4>6, <5>1 DEF Follows, Turns
        <5>3. QED BY <4>2, <4>4, <5>1, <5>2 DEF Follows
      <4>8. CASE OnlyRepo(c, more)
        <5>1. prog[c][1][1] = "resolve" BY <2>1, <4>8 DEF OnlyRepo, At
        <5>2. prog[c][2][1] \notin {"rebind", "require", "ensure"}
          BY <4>6, <5>1 DEF Follows, Turns
        <5>3. QED BY <4>4, <5>2 DEF Follows
      <4>9. QED BY <2>6, <4>1, <4>7, <4>8 DEF Kept, m
    <3>6. QED BY <3>1, <3>2, <3>3, <3>4, <3>5
  <2>14. QED BY <2>3, <2>7, <2>8, <2>10, <2>11, <2>12, <2>13
<1>4. QED BY <1>1, <1>2, <1>3 DEF Syncing

-----------------------------------------------------------------------------
(* What a statement leaves in the rows *)

LEMMA OthersLeaveRows ==
  ASSUME NEW c \in Procs, Statement(c), ~At(c, "activate"), ~At(c, "insert"), ~At(c, "delete"),
         ~At(c, "repos_off"), ~At(c, "repo_on"), ~At(c, "upsert_active"), ~At(c, "upsert")
  PROVE  /\ UNCHANGED <<slots, active, activeRepos>>
         /\ ~At(c, "rebind") /\ ~At(c, "bind") => UNCHANGED slotRepo
<1>1. ~Activate(c) /\ ~Insert(c) /\ ~Delete(c) /\ ~ReposOff(c) /\ ~RepoOn(c) /\ ~Upsert(c)
  BY DEF Activate, Insert, Delete, ReposOff, RepoOn, Upsert
<1>2. CASE Rebind(c) \/ Bind(c)
  BY <1>2 DEF Rebind, Bind, repoRows
<1>3. CASE ~Rebind(c) /\ ~Bind(c)
  BY <1>1, <1>3 DEF Statement, Ensure, ActivateBegin, Reactivate, Count, InsertBegin, Read,
     Archive, DeleteCheck, DeleteBegin, Reread, Require, Resolve, Load, Dispatch, StartRun, Link,
     Probe, Unlink, slotRows, repoRows
<1>4. QED BY <1>2, <1>3

LEMMA InsertedSlot ==
  ASSUME ReferencesInv, NEW c \in Procs, Found(c), Insert(c)
  PROVE  /\ At(c, "insert") /\ created + 1 \in SlotIds /\ created + 1 \notin slots
         /\ slots' = slots \cup {created + 1} /\ active' = {created + 1}
         /\ slotRepo'[created + 1] = theRepo[c] /\ activeRepos' = activeRepos
<1>1. At(c, "insert") /\ created < MaxId /\ created \in 0..MaxId
  BY DEF Insert, ReferencesInv, TypeOK
<1>2. created + 1 \in SlotIds BY <1>1, AgentSlotsAssumption DEF SlotIds
<1>3. created + 1 \notin slots
  <2>1. slots \subseteq 1..created BY DEF ReferencesInv, Rows
  <2>2. QED BY <1>1, <2>1
<1>4. snap[c] = slots /\ active \subseteq slots BY <1>1 DEF Found, ReferencesInv, TypeOK
<1>5. active' = {created + 1} BY <1>4 DEF Insert, Deactivated
<1>6. slotRepo'[created + 1] = theRepo[c] BY <1>2 DEF Insert, ReferencesInv, TypeOK
<1>7. QED BY <1>1, <1>2, <1>3, <1>5, <1>6 DEF Insert, repoRows

LEMMA ActivatedSlot ==
  ASSUME ReferencesInv, NEW c \in Procs, Found(c), Activate(c)
  PROVE  /\ Arg(c) \in slots /\ active' = {Arg(c)}
         /\ UNCHANGED <<slots, slotRepo, activeRepos>>
<1>1. At(c, "activate") BY DEF Activate
<1>2. Arg(c) \in slots /\ snap[c] = slots /\ active \subseteq slots
  BY <1>1 DEF Found, ReferencesInv, TypeOK
<1>3. QED BY <1>2 DEF Activate, Deactivated, repoRows

LEMMA ActivatedRepo ==
  ASSUME ReferencesInv, NEW c \in Procs, Found(c), Statement(c),
         At(c, "repo_on") \/ At(c, "upsert_active")
  PROVE  activeRepos' = {Arg(c)} /\ UNCHANGED <<slots, active, slotRepo>>
<1>1. activeRepos = {} BY DEF Found
<1>2. RepoOn(c) \/ (Upsert(c) /\ At(c, "upsert_active") /\ ~At(c, "upsert"))
  BY Executes DEF At
<1>3. QED BY <1>1, <1>2 DEF RepoOn, Upsert, slotRows

LEMMA OneActiveAfter ==
  ASSUME ReferencesInv, NEW c \in Procs, Place(c), OneActive, Statement(c)
  PROVE  OneActive'
<1>1. /\ Found(c) /\ Room(c) /\ Cardinality(slots) <= MaxSlots
      /\ slots # {} => \E s \in slots : active = {s}
      /\ \A q, r \in activeRepos : q = r
  BY DEF Place, OneActive
<1>2. CASE At(c, "activate")
  <2>1. Activate(c) BY <1>2, Executes
  <2>2. QED BY <1>1, <2>1, ActivatedSlot DEF OneActive
<1>3. CASE At(c, "insert")
  <2>1. Insert(c) BY <1>3, Executes
  <2>2. /\ created + 1 \notin slots /\ slots' = slots \cup {created + 1}
        /\ active' = {created + 1} /\ activeRepos' = activeRepos
    BY <1>1, <2>1, InsertedSlot
  <2>3. Cardinality(slots) < MaxSlots
    <3>1. ~Idle(c) /\ Head(prog[c])[1] = "insert" BY <1>3 DEF At, Idle
    <3>2. Has(c, {"insert"}) BY <3>1, HasNow
    <3>3. ~At(c, "count") BY <1>3 DEF At
    <3>4. QED BY <1>1, <3>2, <3>3 DEF Room
  <2>4. IsFiniteSet(slots) /\ Cardinality(slots) \in Nat BY SlotsFinite
  <2>5. Cardinality(slots') = Cardinality(slots) + 1 BY <2>2, <2>4, FS_AddElement
  <2>6. Cardinality(slots') <= MaxSlots BY <2>3, <2>4, <2>5, AgentSlotsAssumption
  <2>7. QED BY <1>1, <2>2, <2>6 DEF OneActive
<1>4. CASE At(c, "delete")
  <2>1. Delete(c) BY <1>4, Executes
  <2>2. /\ slots' \in SUBSET slots /\ \E a \in slots' : active' = {a}
    BY <1>1, <2>1, DeletedActive
  <2>3. PICK k, n \in Nat : k = Cardinality(slots') /\ n = Cardinality(slots)
    BY <2>2, SlotsFinite
  <2>4. k <= n BY <2>2, <2>3, SlotsFinite
  <2>5. n <= MaxSlots BY <1>1, <2>3
  <2>6. Cardinality(slots') <= MaxSlots BY <2>3, <2>4, <2>5, AgentSlotsAssumption
  <2>7. activeRepos' = activeRepos BY <2>1 DEF Delete, repoRows
  <2>8. QED BY <1>1, <2>2, <2>6, <2>7 DEF OneActive
<1>5. CASE At(c, "repos_off")
  <2>1. ReposOff(c) BY <1>5, Executes
  <2>2. QED BY <1>1, <2>1 DEF ReposOff, OneActive, slotRows
<1>6. CASE At(c, "repo_on") \/ At(c, "upsert_active")
  BY <1>1, <1>6, ActivatedRepo DEF OneActive
<1>7. CASE At(c, "upsert")
  <2>1. Upsert(c) /\ ~At(c, "upsert_active") BY <1>7, Executes DEF At
  <2>2. QED BY <1>1, <2>1 DEF Upsert, OneActive, slotRows
<1>8. CASE /\ ~At(c, "activate") /\ ~At(c, "insert") /\ ~At(c, "delete") /\ ~At(c, "repos_off")
           /\ ~At(c, "repo_on") /\ ~At(c, "upsert_active") /\ ~At(c, "upsert")
  BY <1>1, <1>8, OthersLeaveRows DEF OneActive
<1>9. QED BY <1>2, <1>3, <1>4, <1>5, <1>6, <1>7, <1>8

(* A statement that ends its process, or that touches neither the rows nor   *)
(* the switch in progress, leaves nothing behind that was to be settled      *)
LEMMA EndsCalmly ==
  ASSUME ReferencesInv, NEW c \in Procs, Place(c),
         ActivateBegin(c) \/ Count(c) \/ Read(c) \/ DeleteCheck(c) \/ DeleteBegin(c) \/ Require(c),
         ~Goes(c, <<>>)
  PROVE  ~Rebinds(c) /\ ~Turning(c)
<1>1. /\ ~Idle(c) /\ Room(c) /\ Found(c) /\ Syncing(c) BY ChecksGo DEF Place
<1>2. /\ \A names : Has(c, names) <=> Head(prog[c])[1] \in names \/ Later(c, names)
  BY <1>1, HasNow
<1>3. CASE At(c, "read") \/ At(c, "delete_check") \/ At(c, "delete_begin")
  <2>1. \E n \in Nat : n >= 12 /\ Rank(prog[c][1]) = n BY <1>3, HeadRanks
  <2>2. ~Later(c, {"rebind"}) /\ ~Later(c, {"repo_on", "upsert_active"})
    BY <1>1, <2>1, LaterRanks
  <2>3. QED BY <1>2, <1>3, <2>2 DEF Rebinds, Turning, At
<1>4. CASE At(c, "activate_begin")
  <2>1. Has(c, {"activate_begin", "activate"}) BY <1>2, <1>4 DEF At
  <2>2. ~Rebinds(c) BY <1>1, <2>1 DEF Syncing
  <2>3. ~Later(c, {"repo_on", "upsert_active"}) BY <1>1, <1>4, HeadRanks, LaterRanks
  <2>4. QED BY <1>2, <1>4, <2>2, <2>3 DEF Turning, At
<1>5. CASE At(c, "count")
  BY <1>1, <1>5 DEF Found, Syncing
<1>6. CASE At(c, "require")
  <2>1. Require(c)
    BY <1>6 DEF ActivateBegin, Count, Read, DeleteCheck, DeleteBegin, Require, At
  <2>2. theRepo[c] = Nothing
    BY <2>1, ChecksGo DEF Require
  <2>3. ~Rebinds(c) BY <1>1, <1>6, <2>2 DEF Syncing
  <2>4. ~Later(c, {"repo_on", "upsert_active"}) BY <1>1, <1>6, HeadRanks, LaterRanks
  <2>5. QED BY <1>2, <1>6, <2>3, <2>4 DEF Turning, At
<1>7. QED
  BY <1>3, <1>4, <1>5, <1>6 DEF ActivateBegin, Count, Read, DeleteCheck, DeleteBegin, Require

LEMMA PushTurns ==
  ASSUME NEW c \in Procs, NEW r \in Repos, Goes(c, SetActiveRepo(r))
  PROVE  Turning(c)'
<1>1. Len(SetActiveRepo(r)) = 2 /\ SetActiveRepo(r)[2] = <<"repo_on", r>> BY RepoPush
<1>2. 2 \in 1..Len(SetActiveRepo(r)) /\ SetActiveRepo(r)[2][1] = "repo_on" BY <1>1
<1>3. Has(c, {"repo_on", "upsert_active"})' BY <1>2, HasAfter
<1>4. QED BY <1>3 DEF Turning

(* When no switch of c is left in progress, the active slot and repository   *)
(* are settled: c settled them, or has changed nothing that was settled      *)
LEMMA SettledAfter ==
  ASSUME ReferencesInv, ReferencesInv', NEW c \in Procs, Place(c), OneActive, Statement(c),
         ~Rebinds(c)', ~Turning(c)',
         ~Rebinds(c) /\ ~Turning(c) => Settled
  PROVE  Settled'
<1>1. /\ ~Idle(c) /\ Found(c) /\ Fitting(c) /\ Syncing(c)
  BY StatementGoes DEF Place
<1>2. \A more : Goes(c, more) =>
        /\ ~At(c, "rebind") => ~Rebinds(c)
        /\ ~At(c, "repo_on") /\ ~At(c, "upsert_active") => ~Turning(c)
  BY <1>1, GoesOn
<1>3. \A s \in active : s \in SlotIds BY DEF ReferencesInv, TypeOK
<1>4. CASE At(c, "activate")
  <2>1. Activate(c) BY <1>4, Executes
  <2>2. PICK s \in slots : s = Arg(c) BY <1>1, <2>1, ActivatedSlot
  <2>3. active' = {s} /\ UNCHANGED <<slotRepo, activeRepos>> BY <1>1, <2>1, <2>2, ActivatedSlot
  <2>4. slotRepo[s] = Nothing BY <2>1, <2>2, ActivateGoes, PushTurns
  <2>5. QED BY <2>3, <2>4 DEF Settled, Fits
<1>5. CASE At(c, "insert")
  <2>1. Insert(c) BY <1>5, Executes
  <2>2. /\ active' = {created + 1} /\ slotRepo'[created + 1] = theRepo[c]
        /\ activeRepos' = activeRepos
    BY <1>1, <2>1, InsertedSlot
  <2>3. Chosen(c) BY <1>1, <1>5 DEF Found
  <2>4. QED BY <2>2, <2>3 DEF Settled, Fits, Chosen
<1>6. CASE At(c, "delete")
  <2>1. Delete(c) BY <1>6, Executes
  <2>2. \A a \in active' : active' = {a} /\ a # copy[c].id /\ a \in SlotIds
    BY <1>1, <2>1, DeletedActive
  <2>3. active' # {} BY <1>1, <2>1, DeletedActive
  <2>4. PICK a \in active' : slotRepo[a] = Nothing BY <2>1, <2>3, DeleteGoes, PushTurns
  <2>5. active' = {a} /\ slotRepo'[a] = Nothing
    BY <2>1, <2>2, <2>4 DEF Delete, ReferencesInv, TypeOK
  <2>6. QED BY <2>5 DEF Settled, Fits
<1>7. CASE At(c, "repos_off")
  <2>1. ReposOff(c) BY <1>7, Executes
  <2>2. QED BY <2>1 DEF ReposOff, Settled
<1>8. CASE At(c, "repo_on") \/ At(c, "upsert_active")
  <2>1. RepoOn(c) \/ Upsert(c) BY <1>8, Executes
  <2>2. Goes(c, <<>>) BY <2>1, PlainStatementsGo
  <2>3. ~Rebinds(c) BY <1>2, <1>8, <2>2 DEF At
  <2>4. PICK x : x = prog[c][1] OBVIOUS
  <2>5. Head(prog[c]) = x /\ 1 \in DOMAIN prog[c]
    BY <1>1, <2>4, Arguments DEF ReferencesInv
  <2>6. Turns(x) /\ x[2] = Arg(c) BY <1>8, <2>5 DEF Turns, At, Arg
  <2>7. \A s \in active : Fits(s, Arg(c)) BY <1>1, <2>3, <2>4, <2>5, <2>6 DEF Fitting
  <2>8. activeRepos' = {Arg(c)} /\ UNCHANGED <<slots, active, slotRepo>>
    BY <1>1, <1>8, ActivatedRepo
  <2>9. QED BY <2>7, <2>8 DEF Settled, Fits
<1>9. CASE At(c, "upsert")
  <2>1. Upsert(c) /\ ~At(c, "upsert_active") /\ ~At(c, "repo_on") /\ ~At(c, "rebind")
    BY <1>9, Executes DEF At
  <2>2. Goes(c, <<>>) BY <2>1, PlainStatementsGo
  <2>3. Settled BY <1>2, <2>1, <2>2
  <2>4. activeRepos' \subseteq activeRepos /\ UNCHANGED <<active, slotRepo>>
    BY <2>1 DEF Upsert, slotRows
  <2>5. QED BY <2>3, <2>4 DEF Settled, Fits
<1>10. CASE At(c, "rebind")
  <2>1. Rebind(c) BY <1>10, Executes
  <2>2. Rebinds(c)
    <3>1. Head(prog[c])[1] = "rebind" BY <1>10 DEF At
    <3>2. Has(c, {"rebind"}) BY <1>1, <3>1, HasNow
    <3>3. QED BY <3>2 DEF Rebinds
  <2>3. PICK s : s = copy[c].id OBVIOUS
  <2>4. active = {s} /\ slotRepo[s] = copy[c].repo /\ Chosen(c)
    BY <1>1, <1>10, <2>2, <2>3 DEF Syncing, Found
  <2>5. s \in slots /\ s \in SlotIds BY <2>4 DEF ReferencesInv, TypeOK
  <2>6. slotRepo'[s] = theRepo[c]
    BY <2>1, <2>3, <2>4, <2>5 DEF Rebind, ReferencesInv, TypeOK
  <2>7. UNCHANGED <<active, activeRepos>> BY <2>1 DEF Rebind, repoRows
  <2>8. QED BY <2>4, <2>6, <2>7 DEF Settled, Fits, Chosen
<1>11. CASE At(c, "bind")
  <2>1. Bind(c) /\ ~At(c, "upsert_active") /\ ~At(c, "repo_on") /\ ~At(c, "rebind")
    BY <1>11, Executes DEF At
  <2>2. Goes(c, <<>>) BY <2>1, PlainStatementsGo
  <2>3. Settled BY <1>2, <2>1, <2>2
  <2>4. Chosen(c) BY <1>1, <1>11 DEF Found
  <2>5. UNCHANGED <<active, activeRepos>> BY <2>1 DEF Bind, repoRows
  <2>6. ASSUME NEW s \in active
        PROVE  slotRepo'[s] = slotRepo[s] \/ slotRepo'[s] = theRepo[c]
    BY <1>3, <2>1 DEF Bind, ReferencesInv, TypeOK
  <2>7. QED BY <2>3, <2>4, <2>5, <2>6 DEF Settled, Fits, Chosen
<1>12. CASE /\ ~At(c, "activate") /\ ~At(c, "insert") /\ ~At(c, "delete") /\ ~At(c, "repos_off")
            /\ ~At(c, "repo_on") /\ ~At(c, "upsert_active") /\ ~At(c, "upsert")
            /\ ~At(c, "rebind") /\ ~At(c, "bind")
  <2>1. UNCHANGED <<slots, active, activeRepos, slotRepo>> BY <1>12, OthersLeaveRows
  <2>2. ~Rebinds(c) /\ ~Turning(c)
    <3>1. CASE \E more : Goes(c, more) BY <1>2, <1>12, <3>1
    <3>2. CASE /\ ~(\E more : Goes(c, more))
               /\ \/ ActivateBegin(c) \/ Count(c) \/ Read(c) \/ DeleteCheck(c) \/ DeleteBegin(c)
                  \/ Require(c)
      BY <3>2, EndsCalmly
    <3>3. CASE ~(ActivateBegin(c) \/ Count(c) \/ Read(c) \/ DeleteCheck(c) \/ DeleteBegin(c)
                   \/ Require(c))
      <4>1. ~Activate(c) /\ ~Delete(c) BY <1>12 DEF Activate, Delete
      <4>2. \/ Ensure(c) \/ Reactivate(c) \/ Resolve(c) \/ Load(c) \/ Probe(c)
            \/ InsertBegin(c) \/ Insert(c) \/ Archive(c) \/ ReposOff(c) \/ RepoOn(c)
            \/ Upsert(c) \/ Reread(c) \/ Rebind(c) \/ Bind(c) \/ Dispatch(c) \/ StartRun(c)
            \/ Link(c) \/ Unlink(c)
        BY <3>3, <4>1 DEF Statement
      <4>3. \E more : Goes(c, more)
        BY <4>2, EnsureGoes, ReactivateGoes, ResolveGoes, LoadGoes, ProbeGoes, PlainStatementsGo
      <4>4. QED BY <3>1, <4>3
    <3>4. QED BY <3>1, <3>2, <3>3
  <2>3. QED BY <2>1, <2>2 DEF Settled, Fits
<1>13. QED
  BY <1>4, <1>5, <1>6, <1>7, <1>8, <1>9, <1>10, <1>11, <1>12

-----------------------------------------------------------------------------
(* Every step keeps the order *)

LEMMA OneSwitchAfter ==
  ASSUME ~Overlap'
  PROVE  OneSwitch'
BY DEF Overlap, OneSwitch

LEMMA OrderlyStatement ==
  ASSUME ReferencesInv, ReferencesInv', Orderly, NEW c \in Procs, Statement(c), ~Overlap'
  PROVE  Orderly'
<1>1. /\ OneActive /\ Calm /\ Place(c) BY DEF Orderly
<1>2. Place(c)'
  BY <1>1, RoomAfter, FoundAfter, FittingAfter, SyncingAfter DEF Place
<1>3. ASSUME NEW d \in Procs
      PROVE  /\ Place(d)'
             /\ d # c => Rebinds(d)' = Rebinds(d) /\ Turning(d)' = Turning(d)
  BY <1>2, OthersKeepPlace
<1>4. OneActive' BY <1>1, OneActiveAfter
<1>5. Calm'
  <2>1. SUFFICES ASSUME \A d \in Procs : ~Rebinds(d)' /\ ~Turning(d)'
                 PROVE  Settled'
    BY DEF Calm
  <2>2. \A d \in Procs : d # c => ~Rebinds(d) /\ ~Turning(d) BY <1>3, <2>1
  <2>3. ~Rebinds(c) /\ ~Turning(c) => Settled BY <1>1, <2>2 DEF Calm
  <2>4. QED BY <1>1, <2>1, <2>3, SettledAfter
<1>6. QED BY <1>3, <1>4, <1>5, OneSwitchAfter DEF Orderly

LEMMA BegunInPlace ==
  ASSUME ReferencesInv, NEW c \in Procs, NEW p, NEW r, Begins(c, p, r)
  PROVE  Place(c)'
<1>1. /\ Program(p) /\ Len(p) > 0 /\ BeginWith(c, p, r) /\ r \in Repos \cup {Nothing}
      /\ p[1][1] \in {"activate_begin", "count", "read", "repos_off", "upsert", "ensure"}
      /\ \A i \in 1..Len(p) : p[i][1] = "insert" => p[1][1] = "count"
      /\ \A i \in 1..Len(p) : p[i][1] = "rebind" =>
           /\ p[1][1] = "repos_off" /\ c \in Handlers
           /\ \A k \in 1..Len(p) :
                /\ p[k][1] \notin {"activate_begin", "activate", "insert"}
                /\ k + 1 \in 1..Len(p) => Follows(p[k], p[k + 1], r)
      /\ \A i \in 1..Len(p) : Turns(p[i]) =>
           /\ p[1][1] # "count"
           /\ (\E k \in 1..Len(p) : p[k][1] = "rebind") \/ repos = {}
  BY DEF Begins
<1>2. /\ prog'[c] = p BY ReferencesBegin
<1>3. /\ UNCHANGED <<slots, active, slotRepo, activeRepos>> /\ Hold(c, r)
  BY <1>1 DEF BeginWith, slotRows, repoRows
<1>4. theRepo'[c] = r BY <1>1, <1>3, Held
<1>5. /\ DOMAIN p = 1..Len(p) /\ Head(p) = p[1]
  <2>1. p \in Seq(Statements) /\ Len(p) > 0 BY <1>1 DEF Program
  <2>2. p # <<>> BY <2>1, EmptySeq
  <2>3. QED BY <2>1, <2>2, LenProperties
<1>6. \A name : At(c, name)' => name = p[1][1] BY <1>2, <1>5 DEF At
<1>7. Rebinds(c)' <=> \E i \in 1..Len(p) : p[i][1] = "rebind"
  BY <1>2, <1>5 DEF Rebinds, Has
<1>8. Room(c)'
  <2>1. SUFFICES ASSUME Has(c, {"insert"})' PROVE At(c, "count")'
    BY DEF Room
  <2>2. p[1][1] = "count" BY <1>1, <1>2, <1>5, <2>1 DEF Has
  <2>3. p # <<>> BY <1>1, EmptySeq DEF Program
  <2>4. QED BY <1>2, <1>5, <2>2, <2>3 DEF At
<1>9. Found(c)'
  <2>1. /\ ~At(c, "activate")' /\ ~At(c, "insert")' /\ ~At(c, "delete")' /\ ~At(c, "repo_on")'
        /\ ~At(c, "upsert_active")' /\ ~At(c, "require")' /\ ~At(c, "bind")'
        /\ ~At(c, "insert_begin")' /\ ~At(c, "rebind")'
    BY <1>1, <1>6
  <2>2. At(c, "count")' => ~Turning(c)'
    BY <1>1, <1>2, <1>5, <1>6 DEF Turning, Has, Turns
  <2>3. At(c, "ensure")' => ~Rebinds(c)' BY <1>1, <1>6, <1>7
  <2>4. QED BY <2>1, <2>2, <2>3 DEF Found
<1>10. Fitting(c)'
  <2>1. SUFFICES ASSUME NEW i \in 1..Len(p), Turns(p[i]), ~Rebinds(c)', NEW s \in active
                 PROVE  slotRepo[s] = Nothing
    BY <1>2, <1>3, <1>5 DEF Fitting, Fits
  <2>2. repos = {} BY <1>1, <1>7, <2>1
  <2>3. s \in SlotIds BY DEF ReferencesInv, TypeOK
  <2>4. QED BY <2>2, <2>3 DEF ReferencesInv, Rows
<1>11. Syncing(c)'
  <2>1. SUFFICES ASSUME Rebinds(c)'
                 PROVE  /\ c \in Handlers /\ ~At(c, "count")'
                        /\ ~Has(c, {"activate_begin", "activate"})'
                        /\ ~At(c, "reread")' /\ ~At(c, "require")' /\ ~At(c, "rebind")'
                        /\ \A i \in 1..Len(p) : i + 1 \in 1..Len(p) => Follows(p[i], p[i + 1], r)
    BY <1>2, <1>4, <1>5 DEF Syncing
  <2>2. /\ p[1][1] = "repos_off" /\ c \in Handlers
        /\ \A k \in 1..Len(p) :
             /\ p[k][1] \notin {"activate_begin", "activate", "insert"}
             /\ k + 1 \in 1..Len(p) => Follows(p[k], p[k + 1], r)
    BY <1>1, <1>7, <2>1
  <2>3. ~Has(c, {"activate_begin", "activate"})' BY <1>2, <1>5, <2>2 DEF Has
  <2>4. QED BY <1>6, <2>2, <2>3
<1>12. QED BY <1>8, <1>9, <1>10, <1>11 DEF Place

LEMMA OrderlyBegin ==
  ASSUME ReferencesInv, ReferencesInv', Orderly, NEW c \in Procs, NEW p, NEW r, Begins(c, p, r),
         ~Overlap'
  PROVE  Orderly'
<1>1. BeginWith(c, p, r) /\ r \in Repos \cup {Nothing} BY DEF Begins
<1>2. /\ UNCHANGED <<slots, active, slotRepo, activeRepos, snap>> /\ Hold(c, r) /\ Idle(c)
      /\ copy' = [copy EXCEPT ![c] = NoCopy]
  BY <1>1 DEF BeginWith, slotRows, repoRows
<1>3. ASSUME NEW d \in Procs, d # c
      PROVE  /\ prog'[d] = prog[d] /\ copy'[d] = copy[d] /\ theRepo'[d] = theRepo[d]
             /\ snap'[d] = snap[d]
  <2>1. prog'[d] = prog[d] BY <1>3, ReferencesBegin
  <2>2. copy'[d] = copy[d] BY <1>2, <1>3 DEF ReferencesInv, TypeOK
  <2>3. theRepo'[d] = theRepo[d] BY <1>1, <1>2, <1>3, Held
  <2>4. QED BY <1>2, <2>1, <2>2, <2>3
<1>4. ASSUME NEW d \in Procs
      PROVE  /\ Place(d)'
             /\ d # c => Rebinds(d)' = Rebinds(d) /\ Turning(d)' = Turning(d)
  <2>1. CASE d = c BY <2>1, BegunInPlace
  <2>2. CASE d # c
    <3>1. Place(d) BY DEF Orderly
    <3>2. QED BY <1>2, <1>3, <2>2, <3>1, PlaceKept
  <2>3. QED BY <2>1, <2>2
<1>5. ~Rebinds(c) /\ ~Turning(c)
  <2>1. DOMAIN prog[c] = {} BY <1>2 DEF Idle
  <2>2. QED BY <2>1 DEF Rebinds, Turning, Has
<1>6. Calm'
  <2>1. SUFFICES ASSUME \A d \in Procs : ~Rebinds(d)' /\ ~Turning(d)'
                 PROVE  Settled'
    BY DEF Calm
  <2>2. \A d \in Procs : ~Rebinds(d) /\ ~Turning(d) BY <1>4, <1>5, <2>1
  <2>3. Settled BY <2>2 DEF Orderly, Calm
  <2>4. QED BY <1>2, <2>3 DEF Settled, Fits
<1>7. OneActive' BY <1>2 DEF Orderly, OneActive
<1>8. QED BY <1>4, <1>6, <1>7, OneSwitchAfter DEF Orderly

LEMMA OrderlyKept ==
  ASSUME Orderly, UNCHANGED <<slots, active, slotRepo, activeRepos, prog, copy, theRepo, snap>>
  PROVE  Orderly'
<1>1. ASSUME NEW d \in Procs
      PROVE  /\ Place(d)' /\ Rebinds(d)' = Rebinds(d) /\ Turning(d)' = Turning(d)
             /\ Switching(d)' = Switching(d)
  <2>1. Place(d) BY DEF Orderly
  <2>2. Place(d)' /\ Rebinds(d)' = Rebinds(d) /\ Turning(d)' = Turning(d)
    BY <2>1, PlaceKept
  <2>3. Switching(d)' = Switching(d) BY DEF Switching, Idle
  <2>4. QED BY <2>2, <2>3
<1>2. Settled => Settled' BY DEF Settled, Fits
<1>3. Calm' BY <1>1, <1>2 DEF Orderly, Calm
<1>4. OneSwitch' BY <1>1 DEF Orderly, OneSwitch
<1>5. OneActive' BY DEF Orderly, OneActive
<1>6. QED BY <1>1, <1>3, <1>4, <1>5 DEF Orderly

LEMMA OrderlyNext ==
  ASSUME ReferencesInv, OrderlyInv, [Next]_vars
  PROVE  OrderlyInv'
<1>1. ReferencesInv' BY ReferencesNext
<1>2. SUFFICES ASSUME ~overlapped' PROVE Orderly'
  BY DEF OrderlyInv
<1>3. ASSUME NEW c \in Procs, NEW p, NEW r, Begins(c, p, r)
      PROVE  Orderly'
  <2>1. BeginWith(c, p, r) BY <1>3 DEF Begins
  <2>2. ~overlapped /\ ~Overlap' BY <1>2, <2>1 DEF BeginWith
  <2>3. QED BY <1>1, <1>3, <2>2, OrderlyBegin DEF OrderlyInv
<1>4. ASSUME NEW c \in Procs, Statement(c)
      PROVE  Orderly'
  <2>1. Stepped(c) BY <1>4, StatementGoes
  <2>2. ~overlapped /\ ~Overlap' BY <1>2, <2>1 DEF Stepped
  <2>3. QED BY <1>1, <1>4, <2>2, OrderlyStatement DEF OrderlyInv
<1>5. ASSUME NEW c \in Procs, Crash(c)
      PROVE  FALSE
  BY <1>2, <1>5 DEF Crash
<1>6. ASSUME NEW a \in Agents, RemoteDelete(a)
      PROVE  Orderly'
  <2>1. /\ UNCHANGED <<slots, active, slotRepo, activeRepos, prog, copy, theRepo, snap>>
        /\ overlapped' = overlapped
    BY <1>6 DEF RemoteDelete, slotRows, repoRows, memory
  <2>2. QED BY <1>2, <2>1, OrderlyKept DEF OrderlyInv
<1>7. CASE UNCHANGED vars
  <2>1. /\ UNCHANGED <<slots, active, slotRepo, activeRepos, prog, copy, theRepo, snap>>
        /\ overlapped' = overlapped
    BY <1>7 DEF vars
  <2>2. QED BY <1>2, <2>1, OrderlyKept DEF OrderlyInv
<1>8. CASE Next
  BY <1>3, <1>4, <1>5, <1>6, <1>8, Steps
<1>9. QED BY <1>7, <1>8

LEMMA OrderlyInit == Init => OrderlyInv
<1> SUFFICES ASSUME Init PROVE Orderly
  BY DEF OrderlyInv
<1>1. ReferencesInv BY ReferencesInit
<1>2. \A c \in Procs : prog[c] = <<>> BY DEF Init
<1>3. ASSUME NEW c \in Procs PROVE ~Switching(c)
  <2>1. DOMAIN prog[c] = {} BY <1>2
  <2>2. QED BY <1>2, <2>1 DEF Switching, Idle
<1>4. \A c \in Procs : Place(c) BY <1>1, <1>3, QuietPlace DEF QuietInPlace, ReferencesInv
<1>5. OneSwitch BY <1>3 DEF OneSwitch
<1>6. CASE slots = {}
  <2>1. active = {} /\ activeRepos = {} BY <1>6 DEF Init
  <2>2. Cardinality(slots) <= MaxSlots BY <1>6, FS_EmptySet, AgentSlotsAssumption
  <2>3. QED BY <1>4, <1>5, <1>6, <2>1, <2>2 DEF Orderly, OneActive, Calm, Settled
<1>7. CASE slots # {}
  <2>1. PICK r \in Repos : /\ slots = {1} /\ active = {1} /\ activeRepos = {r}
                           /\ slotRepo = [s \in SlotIds |-> IF s = 1 THEN r ELSE Nothing]
    BY <1>7 DEF Init
  <2>2. 1 \in SlotIds BY AgentSlotsAssumption DEF SlotIds
  <2>3. Cardinality(slots) <= MaxSlots
    <3>1. Cardinality(slots) = 1 BY <2>1, FS_Singleton
    <3>2. QED BY <3>1, AgentSlotsAssumption
  <2>4. OneActive BY <2>1, <2>3 DEF OneActive
  <2>5. Settled BY <2>1, <2>2 DEF Settled, Fits
  <2>6. QED BY <1>4, <1>5, <2>4, <2>5 DEF Orderly, Calm
<1>8. QED BY <1>6, <1>7

LEMMA OrderlyMeans ==
  ASSUME ReferencesInv, OrderlyInv
  PROVE  OneSlotOneRepo
<1>1. SUFFICES ASSUME ~overlapped
               PROVE  /\ Cardinality(slots) <= MaxSlots
                      /\ slots # {} => Cardinality(active) = 1
                      /\ Cardinality(activeRepos) <= 1
                      /\ (\A c \in Procs : ~Switching(c)) =>
                           \A s \in active : slotRepo[s] = Nothing \/ activeRepos \subseteq {slotRepo[s]}
  BY DEF OneSlotOneRepo, ReferencesInv
<1>2. /\ OneActive /\ Calm BY <1>1 DEF OrderlyInv, Orderly
<1>3. slots # {} => Cardinality(active) = 1 BY <1>2, FS_Singleton DEF OneActive
<1>4. Cardinality(activeRepos) <= 1
  <2>1. CASE activeRepos = {} BY <2>1, FS_EmptySet
  <2>2. CASE activeRepos # {}
    <3>1. PICK r : activeRepos = {r} BY <1>2, <2>2 DEF OneActive
    <3>2. Cardinality(activeRepos) = 1 BY <3>1, FS_Singleton
    <3>3. QED BY <3>2
  <2>3. QED BY <2>1, <2>2
<1>5. ASSUME \A c \in Procs : ~Switching(c), NEW s \in active
      PROVE  slotRepo[s] = Nothing \/ activeRepos \subseteq {slotRepo[s]}
  <2>1. \A c \in Procs : ~Rebinds(c) /\ ~Turning(c)
    BY <1>5, QuietPlace DEF QuietInPlace, ReferencesInv
  <2>2. Settled BY <1>2, <2>1 DEF Calm
  <2>3. QED BY <2>2 DEF Settled, Fits
<1>6. QED BY <1>2, <1>3, <1>4, <1>5 DEF OneActive

(* As long as no two processes of a user switch slots or repositories at the *)
(* same time, and none is cut off, the limit on slots is kept, one slot is   *)
(* active as soon as there is one, at most one repository is, and between    *)
(* two switches it is the one of the active slot: agent_slots.py and         *)
(* repo_sync.py keep it, whatever launches and the cloud sync do meanwhile.  *)
THEOREM SwitchesInTurn == Spec => []OneSlotOneRepo
<1>1. Init => ReferencesInv /\ OrderlyInv BY ReferencesInit, OrderlyInit
<1>2. ReferencesInv /\ OrderlyInv /\ [Next]_vars => (ReferencesInv /\ OrderlyInv)'
  BY ReferencesNext, OrderlyNext
<1>3. ReferencesInv /\ OrderlyInv => OneSlotOneRepo BY OrderlyMeans
<1>4. QED BY <1>1, <1>2, <1>3, PTL DEF Spec
=============================================================================
