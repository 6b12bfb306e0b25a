--------------------------- MODULE TrackerProofs ---------------------------
(***************************************************************************)
(* Proofs about Tracker, for every value of its constants.                 *)
(***************************************************************************)
EXTENDS Tracker, DatabaseProofs

-----------------------------------------------------------------------------
(* Type correctness.                                                       *)

LEMMA IdleTypes ==
  /\ AnyName \in Names
  /\ IdleWorker \in WorkerType
  /\ IdleBatch \in BatchType
  /\ IdlePull \in PullType
BY LowerType DEF AnyName, IdleWorker, WorkerType, IdleBatch, BatchType, IdlePull,
                 PullType, Members

\* What each step does to the tasks: their states stay well typed, and a task
\* that holds an id either held it before or has just been given a good one.
WorkersKeepIds ==
  \A w \in Workers : worker'[w].pc = "inserting" =>
    \/ /\ worker[w].pc = "inserting"
       /\ worker'[w].id = worker[w].id
       /\ worker'[w].name = worker[w].name
    \/ Carries(worker[w].id, worker[w].name)'

PullsKeepIds ==
  \A g \in Pulls : pull'[g].pc = "linking" =>
    \/ /\ pull[g].pc = "linking"
       /\ pull'[g].id = pull[g].id
       /\ pull'[g].member = pull[g].member
    \/ Carries(pull[g].id, pull[g].member.name)'

SeedKeepsId ==
  Seeding("link")' =>
    \/ Seeding("link") /\ seed' = seed
    \/ Carries(seed.id, Config[seed.i].name)'

Orderly == ServiceTypeOK' /\ WorkersKeepIds /\ PullsKeepIds

LEMMA UnchangedServiceIsOrderly ==
  ASSUME ServiceTypeOK, UNCHANGED service
  PROVE  Orderly
BY DEF service, ServiceTypeOK, Orderly, WorkersKeepIds, PullsKeepIds

LEMMA ReturnIsOrderly ==
  ASSUME ServiceTypeOK, NEW w \in Workers, NEW outcome \in {"ok", "gone", "failed"},
         Return(w, outcome)
  PROVE  Orderly
<1>1. worker[w].name \in Names
  BY DEF ServiceTypeOK, WorkerType
<1>2. [IdleWorker EXCEPT !.pc = "returned", !.name = worker[w].name, !.outcome = outcome]
        \in WorkerType
  BY <1>1, IdleTypes DEF WorkerType
<1>3. worker' \in [Workers -> WorkerType]
  BY <1>2, IdleTypes DEF Return, ServiceTypeOK
<1>4. \A v \in Workers : v # w => worker'[v] = worker[v]
  BY DEF Return, ServiceTypeOK
<1>5. worker'[w].pc # "inserting"
  BY DEF Return, ServiceTypeOK, IdleWorker
<1>6. permits' \in Nat
  BY DEF Return, ServiceTypeOK
<1>. QED
  BY <1>3, <1>4, <1>5, <1>6 DEF Return, ServiceTypeOK, Orderly, WorkersKeepIds, PullsKeepIds

LEMMA ReturnGuildIsOrderly ==
  ASSUME ServiceTypeOK, NEW g \in Pulls, ReturnGuild(g)
  PROVE  Orderly
BY IdleTypes DEF ReturnGuild, ServiceTypeOK, Orderly, WorkersKeepIds, PullsKeepIds, IdlePull

\* The steps of update_character that issue no statement.
LEMMA WorkerOrderly ==
  ASSUME ServiceTypeOK, NEW w \in Workers,
         \/ Acquire(w) \/ FetchProfile(w) \/ FetchGone(w) \/ FetchFails(w)
         \/ \E r \in worker[w].todo : SkipRun(w, r) \/ StoreRefused(w, r)
         \/ StatementFails(w) \/ Finish(w)
  PROVE  Orderly
<1>1. CASE Acquire(w)
  BY <1>1 DEF Acquire, ServiceTypeOK, WorkerType, Orderly, WorkersKeepIds, PullsKeepIds
<1>2. CASE FetchProfile(w)
  <2>. PICK reports \in Profiles :
         worker' = [worker EXCEPT ![w].pc = "upserting", ![w].fetched = reports,
                                  ![w].todo = reports]
    BY <1>2 DEF FetchProfile
  <2>1. reports \in SUBSET Reports
    BY ServiceAssumption DEF ServiceAssumption
  <2> DEFINE next == [worker[w] EXCEPT !.pc = "upserting", !.fetched = reports,
                                       !.todo = reports]
  <2>2. worker' = [worker EXCEPT ![w] = next]
    BY <1>2 DEF FetchProfile, ServiceTypeOK
  <2>3. next \in WorkerType /\ next.pc # "inserting"
    BY <2>1 DEF ServiceTypeOK, WorkerType
  <2>. HIDE DEF next
  <2>4. /\ worker' \in [Workers -> WorkerType]
        /\ \A v \in Workers : IF v = w THEN worker'[v].pc # "inserting"
                                       ELSE worker'[v] = worker[v]
    BY <2>2, <2>3 DEF ServiceTypeOK
  <2>. QED
    BY <1>2, <2>4 DEF FetchProfile, ServiceTypeOK, Orderly, WorkersKeepIds, PullsKeepIds
<1>3. CASE \E r \in worker[w].todo : SkipRun(w, r)
  BY <1>3 DEF SkipRun, ServiceTypeOK, WorkerType, Orderly, WorkersKeepIds, PullsKeepIds
<1>4. CASE \E outcome \in {"ok", "gone", "failed"} : Return(w, outcome)
  BY <1>4, ReturnIsOrderly
<1>. QED
  BY <1>1, <1>2, <1>3, <1>4 DEF FetchGone, FetchFails, StoreRefused, StatementFails, Finish

\* The steps of update_all_characters, whose delete concerns the tables only.
LEMMA BatchOrderly ==
  ASSUME ServiceTypeOK, NEW b \in Batches, BatchStep(b) \/ AbandonAll(b)
  PROVE  Orderly
<1>1. ASSUME Joined(b), UNCHANGED <<upstream, permits, pull>>
      PROVE  Orderly
  <2>1. batch' \in [Batches -> BatchType]
    BY <1>1 DEF Joined, ServiceTypeOK, BatchType
  <2>2. /\ worker' \in [Workers -> WorkerType]
        /\ \A w \in Workers : worker'[w] = worker[w] \/ worker'[w] = IdleWorker
    BY <1>1, IdleTypes DEF Joined, ServiceTypeOK
  <2>. QED
    BY <1>1, <2>1, <2>2 DEF ServiceTypeOK, Orderly, WorkersKeepIds, PullsKeepIds, IdleWorker
<1>2. CASE Join(b) \/ Prune(b) \/ PruneFails(b)
  BY <1>1, <1>2 DEF Join, Prune, PruneFails
<1>3. CASE JoinGone(b) \/ AllDone(b)
  BY <1>3, IdleTypes
  DEF JoinGone, AllDone, ServiceTypeOK, BatchType, Orderly, WorkersKeepIds, PullsKeepIds
<1>4. CASE AbandonAll(b)
  BY <1>4, IdleTypes
  DEF AbandonAll, ServiceTypeOK, Orderly, WorkersKeepIds, PullsKeepIds, IdleWorker
<1>. QED
  BY <1>2, <1>3, <1>4 DEF BatchStep

\* The steps of update_guild that issue no statement of consequence.
LEMMA PullOrderly ==
  ASSUME ServiceTypeOK, NEW g \in Pulls,
         \/ AcquireForGuild(g) \/ FetchRoster(g) \/ FetchRosterFails(g)
         \/ \E m \in pull[g].todo : NextMember(g, m)
         \/ FindMember(g) \/ LinkMember(g) \/ LeaveUnlinked(g)
         \/ GuildStatementFails(g) \/ FinishGuild(g)
  PROVE  Orderly
<1>1. CASE AcquireForGuild(g) \/ FindMember(g)
  BY <1>1 DEF AcquireForGuild, FindMember, ServiceTypeOK, PullType, Orderly, WorkersKeepIds,
              PullsKeepIds
<1>2. CASE FetchRoster(g)
  <2>. PICK roster \in Rosters :
         pull' = [pull EXCEPT ![g].pc = "members", ![g].todo = roster]
    BY <1>2 DEF FetchRoster
  <2>1. roster \in SUBSET Members
    BY ServiceAssumption DEF ServiceAssumption
  <2> DEFINE next == [pull[g] EXCEPT !.pc = "members", !.todo = roster]
  <2>2. pull' = [pull EXCEPT ![g] = next]
    BY <1>2 DEF FetchRoster, ServiceTypeOK
  <2>3. next \in PullType /\ next.pc # "linking"
    BY <2>1 DEF ServiceTypeOK, PullType
  <2>. HIDE DEF next
  <2>. QED
    BY <1>2, <2>2, <2>3 DEF FetchRoster, ServiceTypeOK, Orderly, WorkersKeepIds, PullsKeepIds
<1>3. CASE \E m \in pull[g].todo : NextMember(g, m)
  <2>. PICK m \in pull[g].todo : NextMember(g, m)
    BY <1>3
  <2>1. m \in Members
    BY DEF ServiceTypeOK, PullType
  <2> DEFINE next == [pull[g] EXCEPT !.pc = IF m.fresh THEN "upserting" ELSE "finding",
                                     !.todo = pull[g].todo \ {m}, !.member = m]
  <2>2. pull' = [pull EXCEPT ![g] = next]
    BY DEF NextMember, ServiceTypeOK
  <2>3. next \in PullType /\ next.pc # "linking"
    BY <2>1 DEF ServiceTypeOK, PullType
  <2>. HIDE DEF next
  <2>. QED
    BY <2>2, <2>3 DEF NextMember, ServiceTypeOK, Orderly, WorkersKeepIds, PullsKeepIds
<1>4. CASE LinkMember(g) \/ LeaveUnlinked(g)
  BY <1>4 DEF LinkMember, LeaveUnlinked, MemberDone, ServiceTypeOK, PullType, Orderly,
              WorkersKeepIds, PullsKeepIds
<1>5. CASE ReturnGuild(g)
  BY <1>5, ReturnGuildIsOrderly
<1>. QED
  BY <1>1, <1>2, <1>3, <1>4, <1>5 DEF FetchRosterFails, GuildStatementFails, FinishGuild

\* Requests that start a task and clients that go away.
LEMMA ClientOrderly ==
  ASSUME TypeOK, Request \/ ClientLeaves
  PROVE  Orderly
<1>. USE DEF TypeOK, ServiceTypeOK
<1>1. ASSUME NEW q \in Requests, NEW n \in Names, RequestCharacter(q, n)
      PROVE  Orderly
  <2>1. [IdleWorker EXCEPT !.pc = "waiting", !.name = n] \in WorkerType
    BY IdleTypes DEF WorkerType
  <2>. QED
    BY <1>1, <2>1 DEF RequestCharacter, IdleWorker, Orderly, WorkersKeepIds, PullsKeepIds, Workers
<1>2. ASSUME NEW b \in Batches, StartAll(b)
      PROVE  Orderly
  <2> DEFINE rows == {<<i, characters[i].name>> : i \in DOMAIN characters}
  <2>1. rows \subseteq Nat \X Canonical
    BY DEF DatabaseTypeOK
  <2>2. batch' \in [Batches -> BatchType]
    BY <1>2, <2>1 DEF StartAll, BatchType
  <2>3. ASSUME NEW w \in Workers, NEW row \in rows, w = <<b, row[2]>>
        PROVE  [IdleWorker EXCEPT !.pc = "waiting", !.name = w[2]] \in WorkerType
    <3>1. w[2] \in Names
      BY <2>1, <2>3, LowerType DEF Canonical
    <3>. QED
      BY <3>1, IdleTypes DEF WorkerType
  <2>4. /\ worker' \in [Workers -> WorkerType]
        /\ \A w \in Workers : worker'[w] = worker[w] \/ worker'[w].pc = "waiting"
    BY <1>2, <2>3 DEF StartAll, IdleWorker
  <2>. QED
    BY <1>2, <2>2, <2>4 DEF StartAll, Orderly, WorkersKeepIds, PullsKeepIds
<1>3. ASSUME NEW g \in Pulls, NEW guild \in Guilds, RequestGuild(g, guild)
      PROVE  Orderly
  <2>1. [IdlePull EXCEPT !.pc = "waiting", !.guild = guild] \in PullType
    BY IdleTypes DEF PullType
  <2>. QED
    BY <1>3, <2>1 DEF RequestGuild, IdlePull, Orderly, WorkersKeepIds, PullsKeepIds
<1>4. ASSUME NEW q \in Requests, CancelRequest(q)
      PROVE  Orderly
  BY <1>4, IdleTypes DEF CancelRequest, IdleWorker, Orderly, WorkersKeepIds, PullsKeepIds, Workers
<1>5. ASSUME NEW b \in Batches, AbandonAll(b)
      PROVE  Orderly
  BY <1>5, BatchOrderly
<1>6. ASSUME NEW g \in Pulls, CancelGuild(g)
      PROVE  Orderly
  BY <1>6, IdleTypes DEF CancelGuild, IdlePull, Orderly, WorkersKeepIds, PullsKeepIds
<1>. QED
  BY <1>1, <1>2, <1>3, <1>4, <1>5, <1>6 DEF Request, ClientLeaves

-----------------------------------------------------------------------------
(* The inductive invariant.                                                *)

\* RunsBelongToTheirCharacter is not inductive: InsertRun trusts the id it is
\* handed, so the invariant must say what the ids carried by tasks denote, and
\* that one name has one row.
Inv == TypeOK /\ OneRowPerCharacter /\ RunsBelongToTheirCharacter /\ CarriedIdsAreNotReused

ConfigEntry == \A i \in 1 .. Len(Config) : Config[i].player \in Players /\ Config[i].name \in Names

LEMMA ConfigType == ConfigEntry /\ Len(Config) \in Nat
<1> DEFINE Declaration == [player : Players, name : Names]
<1>1. Config \in Seq(Declaration)
  BY ServiceAssumption DEF ServiceAssumption
<1>2. Len(Config) \in Nat /\ \A i \in 1 .. Len(Config) : Config[i] \in Declaration
  <2>. HIDE DEF Declaration
  <2>. QED BY <1>1
<1>. QED
  BY <1>2 DEF ConfigEntry

\* The empty database satisfies the invariant.
THEOREM InitInv == Init => Inv
<1>. SUFFICES ASSUME Init PROVE Inv
  OBVIOUS
<1>1. DatabaseTypeOK /\ OneRowPerCharacter /\ RunsBelongToTheirCharacter
  BY DEF Init, DatabaseInit, DatabaseTypeOK, OneRowPerCharacter, RunsBelongToTheirCharacter
<1>2. ServiceTypeOK
  BY IdleTypes, ServiceAssumption DEF ServiceAssumption, Init, ServiceInit, ServiceTypeOK
<1>3. CarriedIdsAreNotReused
  BY DEF Init, ServiceInit, CarriedIdsAreNotReused, IdleWorker, IdlePull, Seeding
<1>4. server \in {"down"} /\ inputs \in 0 .. MaxInputs
      /\ seed \in [i : 1 .. Len(Config) + 1, pc : {"player", "character", "link"}, id : Nat]
  BY ConfigType, TrackerAssumption DEF TrackerAssumption, Init, SeedStart
<1>. QED
  BY <1>1, <1>2, <1>3, <1>4 DEF Inv, TypeOK

\* A step that changes the tables as the statements do and hands out good ids
\* only preserves the invariant.
LEMMA OrderlyPreserves ==
  ASSUME Inv, DbInv', IdsAreStable, Orderly, SeedKeepsId, TypeOK'
  PROVE  Inv'
<1>1. lastId \in Nat
  BY DEF Inv, TypeOK, DatabaseTypeOK
<1>2. ASSUME NEW w \in Workers, worker'[w].pc = "inserting"
      PROVE  Carries(worker[w].id, worker[w].name)'
  <2>1. CASE Carries(worker[w].id, worker[w].name)'
    BY <2>1
  <2>2. CASE /\ Carries(worker[w].id, worker[w].name)
             /\ worker'[w].id = worker[w].id
             /\ worker'[w].name = worker[w].name
    BY <1>1, <2>2 DEF Carries, IdsAreStable
  <2>. QED
    BY <1>2, <2>1, <2>2 DEF Inv, CarriedIdsAreNotReused, Orderly, WorkersKeepIds
<1>3. ASSUME NEW g \in Pulls, pull'[g].pc = "linking"
      PROVE  Carries(pull[g].id, pull[g].member.name)'
  <2>1. CASE Carries(pull[g].id, pull[g].member.name)'
    BY <2>1
  <2>2. CASE /\ Carries(pull[g].id, pull[g].member.name)
             /\ pull'[g].id = pull[g].id
             /\ pull'[g].member = pull[g].member
    BY <1>1, <2>2 DEF Carries, IdsAreStable
  <2>. QED
    BY <1>3, <2>1, <2>2 DEF Inv, CarriedIdsAreNotReused, Orderly, PullsKeepIds
<1>4. ASSUME Seeding("link")'
      PROVE  Carries(seed.id, Config[seed.i].name)'
  <2>1. CASE Carries(seed.id, Config[seed.i].name) /\ seed' = seed
    BY <1>1, <2>1 DEF Carries, IdsAreStable
  <2>. QED
    BY <1>4, <2>1 DEF Inv, CarriedIdsAreNotReused, SeedKeepsId
<1>. QED
  BY <1>2, <1>3, <1>4 DEF Inv, DbInv, CarriedIdsAreNotReused

\* Boot.
LEMMA BootPreserves ==
  ASSUME Inv, Boot \/ SeedFails
  PROVE  Inv'
<1>. USE ConfigType DEF ConfigEntry
<1>1. DbInv /\ ServiceTypeOK
  BY DEF Inv, DbInv, TypeOK
<1>2. Orderly
  <2>1. UNCHANGED service
    BY DEF Boot, Start, SeedPlayer, SeedCharacter, SeedLink, Serve, SeedFails
  <2>. QED
    BY <1>1, <2>1, UnchangedServiceIsOrderly
<1>3. CASE Start \/ Serve \/ SeedFails
  <2>1. DbInv' /\ IdsAreStable
    BY <1>1, <1>3, NoStatementLemma DEF Start, Serve, SeedFails
  <2>2. SeedKeepsId
    BY <1>3 DEF Start, Serve, SeedFails, SeedKeepsId, Seeding, SeedStart
  <2>3. TypeOK'
    BY <1>2, <1>3, <2>1 DEF Inv, TypeOK, DbInv, Orderly, Start, Serve, SeedFails, SeedStart
  <2>. QED
    BY <1>2, <2>1, <2>2, <2>3, OrderlyPreserves
<1>4. CASE SeedPlayer
  <2>1. Config[seed.i].player \in Players
    BY <1>4 DEF SeedPlayer, Seeding, Inv, TypeOK
  <2>2. DbInv' /\ IdsAreStable
    BY <1>1, <1>4, <2>1, UpsertPlayerLemma DEF SeedPlayer
  <2>3. SeedKeepsId
    BY <1>4 DEF SeedPlayer, SeedKeepsId, Seeding, Inv, TypeOK
  <2>4. TypeOK'
    BY <1>2, <1>4, <2>2 DEF Inv, TypeOK, DbInv, Orderly, SeedPlayer
  <2>. QED
    BY <1>2, <2>2, <2>3, <2>4, OrderlyPreserves
<1>5. CASE SeedLink
  <2>1. Config[seed.i].player \in Players /\ seed.id \in Nat
    BY <1>5 DEF SeedLink, Seeding, Inv, TypeOK
  <2>2. DbInv' /\ IdsAreStable
    BY <1>1, <1>5, <2>1, LinkLemma DEF SeedLink
  <2>3. SeedKeepsId
    BY <1>5 DEF SeedLink, SeedKeepsId, Seeding, Inv, TypeOK
  <2>4. TypeOK'
    BY <1>2, <1>5, <2>2 DEF Inv, TypeOK, DbInv, Orderly, SeedLink, Seeding
  <2>. QED
    BY <1>2, <2>2, <2>3, <2>4, OrderlyPreserves
<1>6. CASE SeedCharacter
  <2> DEFINE name == Config[seed.i].name
  <2>1. name \in Names
    BY <1>6 DEF SeedCharacter, Seeding, Inv, TypeOK
  <2>2. /\ DbInv' /\ IdsAreStable
        /\ \E id \in DOMAIN characters' : id = UpsertedId(name) /\ Carries(id, name)'
    BY <1>1, <1>6, <2>1, UpsertCharacterLemma DEF SeedCharacter
  <2>3. seed'.id = UpsertedId(name) /\ seed'.i = seed.i
    BY <1>6 DEF SeedCharacter, Inv, TypeOK
  <2>4. SeedKeepsId
    BY <2>2, <2>3 DEF SeedKeepsId, Carries
  <2>5. UpsertedId(name) \in Nat
    BY <2>2 DEF DbInv, DatabaseTypeOK
  <2>6. seed' \in [i : 1 .. Len(Config) + 1, pc : {"player", "character", "link"}, id : Nat]
    BY <1>6, <2>5 DEF SeedCharacter, Inv, TypeOK
  <2>7. TypeOK'
    BY <1>2, <1>6, <2>2, <2>6 DEF Inv, TypeOK, DbInv, Orderly, SeedCharacter
  <2>. QED
    BY <1>2, <2>2, <2>4, <2>7, OrderlyPreserves
<1>. QED
  BY <1>3, <1>4, <1>5, <1>6 DEF Boot

\* A task takes a step.
LEMMA WorkerPreserves ==
  ASSUME Inv, NEW w \in Workers, Acquire(w) \/ WorkerStep(w), UNCHANGED <<server, seed, inputs>>
  PROVE  Inv'
<1>1. DbInv /\ ServiceTypeOK /\ SeedKeepsId /\ worker[w] \in WorkerType
  BY DEF Inv, DbInv, TypeOK, SeedKeepsId, Seeding, ServiceTypeOK
<1>2. ASSUME DbInv', Orderly
      PROVE  TypeOK'
  BY <1>2 DEF Inv, TypeOK, DbInv, Orderly
<1>3. CASE \/ Acquire(w) \/ FetchProfile(w) \/ FetchGone(w) \/ FetchFails(w)
           \/ \E r \in worker[w].todo : SkipRun(w, r) \/ StoreRefused(w, r)
           \/ StatementFails(w) \/ Finish(w)
  <2>1. UNCHANGED tables
    BY <1>3 DEF Acquire, FetchProfile, FetchGone, FetchFails, SkipRun, StoreRefused,
                StatementFails, Finish
  <2>2. Orderly
    BY <1>1, <1>3, WorkerOrderly
  <2>. QED
    BY <1>1, <1>2, <2>1, <2>2, NoStatementLemma, OrderlyPreserves
<1>4. CASE Upsert(w)
  <2>0. PICK name : name = worker[w].name
    OBVIOUS
  <2>1. name \in Names
    BY <1>1, <2>0 DEF WorkerType
  <2>2. /\ DbInv' /\ IdsAreStable
        /\ \E id \in DOMAIN characters' : id = UpsertedId(name) /\ Carries(id, name)'
    <3>1. UpsertCharacter(name, NoGuild) /\ NoGuild \in Guilds \cup {NoGuild}
      BY <1>4, <2>0 DEF Upsert
    <3>. QED
      BY <1>1, <2>1, <3>1, UpsertCharacterLemma
  <2>3. UpsertedId(name) \in Nat
    BY <2>2 DEF DbInv, DatabaseTypeOK
  <2>4. worker' \in [Workers -> WorkerType]
    BY <1>1, <1>4, <2>0, <2>3 DEF Upsert, ServiceTypeOK, WorkerType
  <2>5. worker'[w].id = UpsertedId(name) /\ worker'[w].name = name
    BY <1>1, <1>4, <2>0 DEF Upsert, ServiceTypeOK, WorkerType
  <2>6. \A v \in Workers : v # w => worker'[v] = worker[v]
    BY <1>1, <1>4 DEF Upsert, ServiceTypeOK
  <2>7. Carries(worker[w].id, worker[w].name)'
    BY <2>2, <2>5 DEF Carries
  <2>8. Orderly
    BY <1>1, <1>4, <2>4, <2>6, <2>7
    DEF Upsert, ServiceTypeOK, Orderly, WorkersKeepIds, PullsKeepIds
  <2>. QED
    BY <1>1, <1>2, <2>2, <2>8, OrderlyPreserves
<1>5. ASSUME NEW r \in worker[w].todo, StoreRun(w, r)
      PROVE  Inv'
  <2>1. r \in Reports /\ worker[w].name \in Names
    BY <1>1 DEF WorkerType
  <2>2. Carries(worker[w].id, worker[w].name)
    BY <1>5 DEF StoreRun, Inv, CarriedIdsAreNotReused
  <2>3. DbInv' /\ IdsAreStable
    BY <1>1, <1>5, <2>1, <2>2, InsertRunLemma DEF StoreRun
  <2>4. Orderly
    BY <1>1, <1>5 DEF StoreRun, ServiceTypeOK, WorkerType, Orderly, WorkersKeepIds, PullsKeepIds
  <2>. QED
    BY <1>1, <1>2, <2>3, <2>4, OrderlyPreserves
<1>. QED
  BY <1>3, <1>4, <1>5 DEF WorkerStep

LEMMA BatchPreserves ==
  ASSUME Inv, NEW b \in Batches, BatchStep(b) \/ AbandonAll(b),
         UNCHANGED <<server, seed, inputs>>
  PROVE  Inv'
<1>1. DbInv /\ ServiceTypeOK /\ SeedKeepsId
  BY DEF Inv, DbInv, TypeOK, SeedKeepsId, Seeding
<1>2. Orderly
  BY <1>1, BatchOrderly
<1>3. DbInv' /\ IdsAreStable
  <2>1. CASE Prune(b)
    BY <1>1, <2>1, DeleteCharacterLemma DEF Prune
  <2>2. CASE UNCHANGED tables
    BY <1>1, <2>2, NoStatementLemma
  <2>. QED
    BY <2>1, <2>2 DEF BatchStep, Join, JoinGone, PruneFails, AllDone, AbandonAll
<1>4. TypeOK'
  BY <1>2, <1>3 DEF Inv, TypeOK, DbInv, Orderly
<1>. QED
  BY <1>1, <1>2, <1>3, <1>4, OrderlyPreserves

LEMMA PullPreserves ==
  ASSUME Inv, NEW g \in Pulls, AcquireForGuild(g) \/ PullStep(g),
         UNCHANGED <<server, seed, inputs>>
  PROVE  Inv'
<1>1. DbInv /\ ServiceTypeOK /\ SeedKeepsId /\ pull[g] \in PullType
  BY DEF Inv, DbInv, TypeOK, SeedKeepsId, Seeding, ServiceTypeOK
<1>2. ASSUME DbInv', Orderly
      PROVE  TypeOK'
  BY <1>2 DEF Inv, TypeOK, DbInv, Orderly
<1>3. CASE \/ AcquireForGuild(g) \/ FetchRoster(g) \/ FetchRosterFails(g)
           \/ \E m \in pull[g].todo : NextMember(g, m)
           \/ FindMember(g) \/ LeaveUnlinked(g)
           \/ GuildStatementFails(g) \/ FinishGuild(g)
  <2>1. UNCHANGED tables
    BY <1>3 DEF AcquireForGuild, FetchRoster, FetchRosterFails, NextMember, FindMember,
                LeaveUnlinked, GuildStatementFails, FinishGuild
  <2>2. Orderly
    BY <1>1, <1>3, PullOrderly
  <2>. QED
    BY <1>1, <1>2, <2>1, <2>2, NoStatementLemma, OrderlyPreserves
<1>4. CASE UpsertMember(g)
  <2>0. PICK name : name = pull[g].member.name
    OBVIOUS
  <2>1. name \in Names /\ pull[g].guild \in Guilds \cup {NoGuild}
    BY <1>1, <2>0 DEF PullType, Members
  <2>2. /\ DbInv' /\ IdsAreStable
        /\ \E id \in DOMAIN characters' : id = UpsertedId(name) /\ Carries(id, name)'
    <3>1. UpsertCharacter(name, pull[g].guild)
      BY <1>4, <2>0 DEF UpsertMember
    <3>. QED
      BY <1>1, <2>1, <3>1, UpsertCharacterLemma
  <2>3. UpsertedId(name) \in Nat
    BY <2>2 DEF DbInv, DatabaseTypeOK
  <2>4. pull' \in [Pulls -> PullType]
    BY <1>1, <1>4, <2>0, <2>3 DEF UpsertMember, ServiceTypeOK, PullType
  <2>5. pull'[g].id = UpsertedId(name) /\ pull'[g].member.name = name
    BY <1>1, <1>4, <2>0 DEF UpsertMember, ServiceTypeOK, PullType
  <2>6. \A h \in Pulls : h # g => pull'[h] = pull[h]
    BY <1>1, <1>4 DEF UpsertMember, ServiceTypeOK
  <2>7. Carries(pull[g].id, pull[g].member.name)'
    BY <2>2, <2>5 DEF Carries
  <2>8. Orderly
    BY <1>1, <1>4, <2>4, <2>6, <2>7
    DEF UpsertMember, ServiceTypeOK, Orderly, WorkersKeepIds, PullsKeepIds
  <2>. QED
    BY <1>1, <1>2, <2>2, <2>8, OrderlyPreserves
<1>5. CASE LinkMember(g)
  <2> DEFINE player == PlayerOf(pull[g].member.name)
  <2>1. LinkPlayerCharacter(player, pull[g].id)
    BY <1>5 DEF LinkMember
  <2>2. player \in Players
    BY <1>1, <2>1 DEF LinkPlayerCharacter, CanLink, DbInv, DatabaseTypeOK
  <2>3. pull[g].id \in Nat
    BY <1>1 DEF PullType
  <2>4. DbInv' /\ IdsAreStable
    <3>. HIDE DEF player
    <3>. QED BY <1>1, <2>1, <2>2, <2>3, LinkLemma
  <2>5. Orderly
    BY <1>1, <1>5, PullOrderly
  <2>. QED
    BY <1>1, <1>2, <2>4, <2>5, OrderlyPreserves
<1>. QED
  BY <1>3, <1>4, <1>5 DEF PullStep

LEMMA EnvironmentPreserves ==
  ASSUME Inv, Environment
  PROVE  Inv'
<1>1. DbInv /\ ServiceTypeOK
  BY DEF Inv, DbInv, TypeOK
<1>2. inputs' \in 0 .. MaxInputs
  BY TrackerAssumption DEF TrackerAssumption, Environment, Input, Inv, TypeOK
<1>3. CASE Crash
  <2>1. Orderly /\ SeedKeepsId
    BY <1>1, <1>3, IdleTypes, ServiceAssumption
    DEF ServiceAssumption, Crash, ServiceTypeOK, Orderly, WorkersKeepIds, PullsKeepIds,
        IdleWorker, IdlePull, SeedKeepsId, Seeding
  <2>2. DbInv' /\ IdsAreStable
    BY <1>1, <1>3, NoStatementLemma DEF Crash
  <2>3. TypeOK'
    BY <1>2, <1>3, <2>1, <2>2 DEF Crash, Inv, TypeOK, DbInv, Orderly
  <2>. QED
    BY <2>1, <2>2, <2>3, OrderlyPreserves
<1>4. CASE Request
  <2>1. UNCHANGED tables
    BY <1>4 DEF Request, RequestCharacter, StartAll, RequestGuild
  <2>2. Orderly /\ SeedKeepsId
    BY <1>4, ClientOrderly DEF Inv, Request, SeedKeepsId, Seeding
  <2>3. DbInv' /\ IdsAreStable
    BY <1>1, <2>1, NoStatementLemma
  <2>4. TypeOK'
    BY <1>2, <1>4, <2>2, <2>3 DEF Request, Inv, TypeOK, DbInv, Orderly
  <2>. QED
    BY <2>2, <2>3, <2>4, OrderlyPreserves
<1>5. ASSUME NEW c \in Canonical, UpstreamChanges(c)
      PROVE  Inv'
  <2>1. Orderly /\ SeedKeepsId
    BY <1>1, <1>5 DEF UpstreamChanges, ServiceTypeOK, Orderly, WorkersKeepIds, PullsKeepIds,
                      SeedKeepsId, Seeding
  <2>2. DbInv' /\ IdsAreStable
    BY <1>1, <1>5, NoStatementLemma DEF UpstreamChanges
  <2>3. TypeOK'
    BY <1>2, <1>5, <2>1, <2>2 DEF UpstreamChanges, Inv, TypeOK, DbInv, Orderly
  <2>. QED
    BY <2>1, <2>2, <2>3, OrderlyPreserves
<1>6. ASSUME NEW n \in Names, DeleteRequest(n)
      PROVE  Inv'
  <2>1. Orderly /\ SeedKeepsId
    BY <1>1, <1>6, UnchangedServiceIsOrderly DEF DeleteRequest, SeedKeepsId, Seeding
  <2>2. DbInv' /\ IdsAreStable
    BY <1>1, <1>6, DeleteCharacterLemma DEF DeleteRequest
  <2>3. TypeOK'
    BY <1>2, <1>6, <2>1, <2>2 DEF DeleteRequest, Inv, TypeOK, DbInv, Orderly
  <2>. QED
    BY <2>1, <2>2, <2>3, OrderlyPreserves
<1>. QED
  BY <1>3, <1>4, <1>5, <1>6 DEF Environment

LEMMA ClientLeavesPreserves ==
  ASSUME Inv, ClientLeaves, UNCHANGED <<server, seed, inputs>>
  PROVE  Inv'
<1>1. DbInv /\ SeedKeepsId
  BY DEF Inv, DbInv, TypeOK, SeedKeepsId, Seeding
<1>2. Orderly
  BY ClientOrderly DEF Inv
<1>3. UNCHANGED tables
  BY DEF ClientLeaves, CancelRequest, AbandonAll, CancelGuild
<1>4. DbInv' /\ IdsAreStable
  BY <1>1, <1>3, NoStatementLemma
<1>5. TypeOK'
  BY <1>2, <1>4 DEF Inv, TypeOK, DbInv, Orderly
<1>. QED
  BY <1>1, <1>2, <1>4, <1>5, OrderlyPreserves

\* Every step of the server keeps it.
THEOREM NextInv == Inv /\ [Next]_vars => Inv'
<1>. SUFFICES ASSUME Inv, [Next]_vars PROVE Inv'
  OBVIOUS
<1>1. CASE Next
  BY <1>1, BootPreserves, EnvironmentPreserves, WorkerPreserves, BatchPreserves,
     PullPreserves, ClientLeavesPreserves DEF Next, Tasks
<1>2. CASE UNCHANGED vars
  <2>1. DbInv' /\ IdsAreStable
    BY <1>2, NoStatementLemma DEF vars, tables, Inv, TypeOK, DbInv
  <2>2. Orderly /\ SeedKeepsId
    BY <1>2, UnchangedServiceIsOrderly DEF vars, service, Inv, TypeOK, SeedKeepsId, Seeding
  <2>3. TypeOK'
    BY <1>2, <2>1, <2>2 DEF vars, Inv, TypeOK, DbInv, Orderly
  <2>. QED
    BY <2>1, <2>2, <2>3, OrderlyPreserves
<1>. QED
  BY <1>1, <1>2

\* So it holds in every state.
THEOREM Invariance == Spec => []Inv
BY InitInv, NextInv, PTL DEF Spec

-----------------------------------------------------------------------------
(* The results.                                                            *)

\* Every variable keeps its type, for any config, roster, profile and faults.
THEOREM TypeCorrect == Spec => []TypeOK
<1>1. Inv => TypeOK
  BY DEF Inv
<1>. QED
  BY <1>1, Invariance, PTL

\* A stored run always belongs to the live row of the character whose name is
\* in its hash, whatever deletes, prunes, restarts and re-creations happen
\* between the step that looks a row up and the step that uses its id.
THEOREM RunsStayWithTheirCharacter == Spec => []RunsBelongToTheirCharacter
<1>1. Inv => RunsBelongToTheirCharacter
  BY DEF Inv
<1>. QED
  BY <1>1, Invariance, PTL

\* Different spellings of one character never get two rows.
THEOREM OneRow == Spec => []OneRowPerCharacter
<1>1. Inv => OneRowPerCharacter
  BY DEF Inv
<1>. QED
  BY <1>1, Invariance, PTL

\* The row ids that workers, guild pulls and seeding hold across their awaits
\* (char_id in service.rs and db.rs) never come to denote another
\* character: ids are AUTOINCREMENT, so a deleted row's id stays unused.
THEOREM CarriedIds == Spec => []CarriedIdsAreNotReused
<1>1. Inv => CarriedIdsAreNotReused
  BY DEF Inv
<1>. QED
  BY <1>1, Invariance, PTL

-----------------------------------------------------------------------------
(* The tables implement the archive.                                       *)

OnFile == {characters[i].name : i \in DOMAIN characters}
Stored == [h \in DOMAIN runs |-> runs[h].within_time]
ArchiveStep == RunArchive!Next \/ UNCHANGED RunArchive!vars

LEMMA NoStatementSimulation ==
  ASSUME UNCHANGED <<characters, runs>>
  PROVE  ArchiveStep
BY DEF ArchiveStep, RunArchive!vars

LEMMA UpsertSimulation ==
  ASSUME DbInv, NEW n \in Names, NEW guild, UpsertCharacter(n, guild)
  PROVE  ArchiveStep
<1>. USE DEF Normalised
<1>1. UNCHANGED Stored
  BY DEF UpsertCharacter, Stored
<1>2. OnFile' = OnFile \cup {Lower[n]}
  <2>0. PICK id : id = UpsertedId(n)
    OBVIOUS
  <2>1. /\ DOMAIN characters' = DOMAIN characters \cup {id}
        /\ characters'[id].name = Lower[n]
        /\ \A i \in DOMAIN characters : i # id => characters'[i] = characters[i]
    BY <2>0 DEF UpsertCharacter
  <2>2. id \in DOMAIN characters => characters[id].name = Lower[n]
    BY <2>0 DEF UpsertedId, Known, IdsOf, DbInv, DatabaseTypeOK
  <2>. QED
    BY <2>1, <2>2 DEF OnFile
<1>. QED
  BY <1>1, <1>2, LowerType DEF ArchiveStep, RunArchive!Next, RunArchive!Meet, OnFile, Stored

LEMMA InsertRunSimulation ==
  ASSUME DbInv, NEW n \in Names, NEW id, Carries(id, n), NEW r \in Reports,
         InsertRun(id, n, r)
  PROVE  ArchiveStep
<1>1. UNCHANGED OnFile
  BY DEF InsertRun, OnFile
<1>2. CASE run_hash(n, r) \in DOMAIN runs
  <2>1. DOMAIN runs' = DOMAIN runs /\ \A h \in DOMAIN runs : runs'[h] = runs[h]
    BY <1>2 DEF InsertRun
  <2>2. UNCHANGED Stored
    BY <2>1 DEF Stored
  <2>. QED
    BY <1>1, <2>2 DEF ArchiveStep, RunArchive!vars, OnFile, Stored
<1>3. CASE run_hash(n, r) \notin DOMAIN runs
  <2>1. run_hash(n, r) = <<Lower[n], r.key>>
    BY DEF run_hash
  <2>2. Lower[n] \in Canonical /\ r.key \in RunKeys /\ r.timed \in BOOLEAN
    BY LowerType DEF Reports
  <2>3. id \in DOMAIN characters /\ characters[id].name = Lower[n]
    BY <1>3 DEF InsertRun, CanInsertRun, Carries
  <2>4. Lower[n] \in OnFile
    BY <2>3 DEF OnFile
  <2>5. Stored' = [e \in DOMAIN Stored \cup {<<Lower[n], r.key>>} |->
                     IF e = <<Lower[n], r.key>> THEN r.timed ELSE Stored[e]]
    BY <1>3, <2>1 DEF InsertRun, Stored
  <2>6. RunArchive!Record(Lower[n], r.key, r.timed)
    BY <1>1, <1>3, <2>1, <2>4, <2>5 DEF RunArchive!Record, OnFile, Stored
  <2>. QED
    BY <2>2, <2>6 DEF ArchiveStep, RunArchive!Next
<1>. QED
  BY <1>2, <1>3

LEMMA DeleteSimulation ==
  ASSUME DbInv, NEW n, DeleteCharacter(n)
  PROVE  ArchiveStep
<1>1. OnFile' = OnFile \ {n}
  BY DEF DeleteCharacter, OnFile
<1>2. Stored' = [e \in {f \in DOMAIN Stored : f[1] # n} |-> Stored[e]]
  <2>1. DOMAIN runs' = {h \in DOMAIN runs : h[1] # n}
    BY DEF DeleteCharacter, DbInv, RunsBelongToTheirCharacter
  <2>2. \A h \in DOMAIN runs' : runs'[h] = runs[h]
    BY DEF DeleteCharacter
  <2>. QED
    BY <2>1, <2>2 DEF Stored
<1>3. CASE n \in Canonical
  BY <1>1, <1>2, <1>3 DEF ArchiveStep, RunArchive!Next, RunArchive!Forget, OnFile, Stored
<1>4. CASE n \notin Canonical
  <2>1. \A i \in DOMAIN characters : characters[i].name # n
    BY <1>4 DEF DbInv, DatabaseTypeOK
  <2>2. characters' = characters /\ runs' = runs
    <3>1. DOMAIN characters' = DOMAIN characters /\ DOMAIN runs' = DOMAIN runs
      BY <2>1 DEF DeleteCharacter, DbInv, RunsBelongToTheirCharacter
    <3>. QED
      BY <3>1 DEF DeleteCharacter, DbInv, DatabaseTypeOK
  <2>. QED
    BY <2>2, NoStatementSimulation
<1>. QED
  BY <1>3, <1>4

LEMMA StepSimulation ==
  ASSUME Inv, Inv', [Next]_vars
  PROVE  ArchiveStep
<1>. USE DEF tables
<1>0. DbInv /\ ServiceTypeOK
  BY DEF Inv, TypeOK, DbInv
<1>1. CASE UNCHANGED vars
  BY <1>1, NoStatementSimulation DEF vars
<1>2. CASE Start \/ SeedPlayer \/ SeedLink \/ Serve \/ SeedFails
  BY <1>2, NoStatementSimulation
  DEF Start, SeedPlayer, SeedLink, Serve, SeedFails, UpsertPlayer, LinkPlayerCharacter
<1>3. CASE SeedCharacter
  <2>1. Config[seed.i].name \in Names
    BY <1>3, ConfigType DEF ConfigEntry, SeedCharacter, Seeding, Inv, TypeOK
  <2>. QED
    BY <1>0, <1>3, <2>1, UpsertSimulation DEF SeedCharacter
<1>4. CASE Crash \/ Request \/ (\E c \in Canonical : UpstreamChanges(c)) \/ ClientLeaves
  BY <1>4, NoStatementSimulation
  DEF Crash, Request, RequestCharacter, StartAll, RequestGuild, UpstreamChanges, ClientLeaves,
      CancelRequest, AbandonAll, CancelGuild
<1>5. CASE \E n \in Names : DeleteRequest(n)
  BY <1>0, <1>5, DeleteSimulation DEF DeleteRequest
<1>6. ASSUME NEW w \in Workers, Acquire(w) \/ WorkerStep(w)
      PROVE  ArchiveStep
  <2>0. worker[w] \in WorkerType
    BY <1>0 DEF ServiceTypeOK
  <2>1. CASE Upsert(w)
    <3>1. worker[w].name \in Names
      BY <2>0 DEF WorkerType
    <3>. QED
      BY <1>0, <2>1, <3>1, UpsertSimulation DEF Upsert
  <2>2. ASSUME NEW r \in worker[w].todo, StoreRun(w, r)
        PROVE  ArchiveStep
    <3>1. r \in Reports /\ worker[w].name \in Names
      BY <2>0 DEF WorkerType
    <3>2. Carries(worker[w].id, worker[w].name)
      BY <2>2 DEF StoreRun, Inv, CarriedIdsAreNotReused
    <3>. QED
      BY <1>0, <2>2, <3>1, <3>2, InsertRunSimulation DEF StoreRun
  <2>3. CASE UNCHANGED <<characters, runs>>
    BY <2>3, NoStatementSimulation
  <2>. QED
    BY <1>6, <2>1, <2>2, <2>3
    DEF WorkerStep, Acquire, FetchProfile, FetchGone, FetchFails, SkipRun, StoreRefused,
        StatementFails, Finish
<1>7. ASSUME NEW b \in Batches, BatchStep(b)
      PROVE  ArchiveStep
  <2>1. CASE Prune(b)
    BY <1>0, <2>1, DeleteSimulation DEF Prune
  <2>. QED
    BY <1>7, <2>1, NoStatementSimulation DEF BatchStep, Join, JoinGone, PruneFails, AllDone
<1>8. ASSUME NEW g \in Pulls, AcquireForGuild(g) \/ PullStep(g)
      PROVE  ArchiveStep
  <2>1. CASE UpsertMember(g)
    <3>1. pull[g].member.name \in Names
      BY <1>0 DEF ServiceTypeOK, PullType, Members
    <3>. QED
      BY <1>0, <2>1, <3>1, UpsertSimulation DEF UpsertMember
  <2>2. CASE UNCHANGED <<characters, runs>>
    BY <2>2, NoStatementSimulation
  <2>. QED
    BY <1>8, <2>1, <2>2
    DEF PullStep, AcquireForGuild, FetchRoster, FetchRosterFails, NextMember, FindMember,
        LinkMember, LinkPlayerCharacter, LeaveUnlinked, GuildStatementFails, FinishGuild
<1>. QED
  BY <1>1, <1>2, <1>3, <1>4, <1>5, <1>6, <1>7, <1>8 DEF Next, Boot, Environment, Tasks

\* The tables, with ids and tasks forgotten, behave as the archive: each run is
\* filed once, under a character on file, is never re-booked or overwritten,
\* and goes only together with its character.
THEOREM ArchiveImplemented == Spec => ImplementsArchive
<1>1. Init => RunArchive!Init
  BY DEF Init, DatabaseInit, RunArchive!Init
<1>2. Inv /\ Inv' /\ [Next]_vars => [RunArchive!Next]_RunArchive!vars
  BY StepSimulation DEF ArchiveStep
<1>. QED
  BY <1>1, <1>2, Invariance, PTL DEF Spec, ImplementsArchive, RunArchive!Spec
=============================================================================
