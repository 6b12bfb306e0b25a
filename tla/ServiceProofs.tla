---------------------------- MODULE ServiceProofs ----------------------------
(***************************************************************************)
(* Proofs about what the tasks of Service share: the permits of the        *)
(* semaphore, the results that an update_all joins and prunes by, and what *)
(* updates, guild pulls and the seeding leave on file.                     *)
(***************************************************************************)
EXTENDS TrackerProofs, FiniteSetTheorems, WellFoundedInduction

-----------------------------------------------------------------------------
(* Least elements.  NextJoin takes the row with the least id, so what it   *)
(* returns is known only once a least id is known to exist.                *)

LEMMA LeastExists ==
  ASSUME NEW S, S \subseteq Nat, S # {}
  PROVE  \E x \in S : \A y \in S : x <= y
<1> DEFINE Below == {p \in Nat \X Nat : p[1] < p[2]}
<1>1. IsWellFoundedOn(Below, Nat)
  BY NatLessThanWellFounded DEF OpToRel
<1>2. \A x, y \in Nat : <<y, x>> \in Below <=> y < x
  OBVIOUS
<1>. HIDE DEF Below
<1>3. PICK x \in S : \A y \in S : <<y, x>> \notin Below
  BY <1>1, WFMin
<1>4. \A y \in S : y \in Nat /\ x \in Nat /\ ~(y < x)
  BY <1>2, <1>3
<1>5. \A y \in S : x <= y
  BY <1>4
<1>. QED
  BY <1>5

LEMMA NextJoinType ==
  ASSUME ServiceTypeOK, NEW b \in Batches, batch[b].joins # {}
  PROVE  /\ NextJoin(b) \in batch[b].joins
         /\ NextJoin(b)[2] \in Canonical
         /\ <<b, NextJoin(b)[2]>> \in Workers
<1> DEFINE ids == {row[1] : row \in batch[b].joins}
<1>1. batch[b].joins \subseteq Nat \X Canonical
  BY DEF ServiceTypeOK, BatchType
<1>2. ids \subseteq Nat /\ ids # {}
  BY <1>1
<1>3. PICK i \in ids : \A j \in ids : i <= j
  <2>. HIDE DEF ids
  <2>. QED BY <1>2, LeastExists
<1>4. PICK first \in batch[b].joins : first[1] = i
  OBVIOUS
<1>5. \A other \in batch[b].joins : first[1] <= other[1]
  BY <1>3, <1>4
<1>6. NextJoin(b) \in batch[b].joins
  BY <1>5 DEF NextJoin
<1>7. NextJoin(b)[2] \in Canonical
  BY <1>1, <1>6
<1>. QED
  BY <1>6, <1>7, LowerType DEF Workers, Children, Canonical

-----------------------------------------------------------------------------
(* Counting the holders.                                                   *)

Holders(S, task) == {s \in S : Holding(task[s])}
Held(task) == IF Holding(task) THEN 1 ELSE 0

\* One task moves: the number of holders follows it.
LEMMA HoldersAfterMove ==
  ASSUME NEW S, IsFiniteSet(S), NEW f, NEW g, NEW x \in S, \A s \in S \ {x} : g[s] = f[s]
  PROVE  /\ Cardinality(Holders(S, f)) \in Nat
         /\ Cardinality(Holders(S, g)) \in Nat
         /\ Cardinality(Holders(S, g)) + Held(f[x]) = Cardinality(Holders(S, f)) + Held(g[x])
<1>1. IsFiniteSet(Holders(S, f)) /\ IsFiniteSet(Holders(S, g))
  BY FS_Subset DEF Holders
<1>2. Cardinality(Holders(S, f)) \in Nat /\ Cardinality(Holders(S, g)) \in Nat
  BY <1>1, FS_CardinalityType
<1>3. CASE Holding(f[x]) <=> Holding(g[x])
  <2>1. Holders(S, g) = Holders(S, f)
    BY <1>3 DEF Holders
  <2>. QED
    BY <1>2, <1>3, <2>1 DEF Held
<1>4. CASE Holding(f[x]) /\ ~Holding(g[x])
  <2>1. Holders(S, g) = Holders(S, f) \ {x} /\ x \in Holders(S, f)
    BY <1>4 DEF Holders
  <2>2. Cardinality(Holders(S, g)) = Cardinality(Holders(S, f)) - 1
    BY <1>1, <2>1, FS_RemoveElement
  <2>. QED
    BY <1>2, <1>4, <2>2 DEF Held
<1>5. CASE ~Holding(f[x]) /\ Holding(g[x])
  <2>1. Holders(S, g) = Holders(S, f) \cup {x} /\ x \notin Holders(S, f)
    BY <1>5 DEF Holders
  <2>2. Cardinality(Holders(S, g)) = Cardinality(Holders(S, f)) + 1
    BY <1>1, <2>1, FS_AddElement
  <2>. QED
    BY <1>2, <1>5, <2>2 DEF Held
<1>. QED
  BY <1>3, <1>4, <1>5

LEMMA SlotsFinite == IsFiniteSet(Workers) /\ IsFiniteSet(Pulls)
<1>1. IsFiniteSet(Children)
  BY ServiceAssumption, FS_Product DEF ServiceAssumption, Children
<1>. QED
  BY <1>1, ServiceAssumption, FS_Union DEF ServiceAssumption, Workers

\* What is free and what is held, together.
PermitSum ==
  permits + Cardinality(Holders(Workers, worker)) + Cardinality(Holders(Pulls, pull))

LEMMA Balance ==
  ASSUME NEW free \in Nat, NEW held \in Nat, NEW mine \in Nat, NEW others \in Nat,
         NEW free1 \in Nat, NEW held1 \in Nat, NEW mine1 \in Nat,
         free1 + mine1 = free + mine, held1 + mine = held + mine1
  PROVE  /\ free1 + held1 + others = free + held + others
         /\ free1 + others + held1 = free + others + held
OBVIOUS

LEMMA WorkerMoves ==
  ASSUME ServiceTypeOK, NEW w \in Workers, NEW task, worker' = [worker EXCEPT ![w] = task],
         permits' \in Nat, permits' + Held(task) = permits + Held(worker[w]), UNCHANGED pull
  PROVE  PermitSum' = PermitSum
<1>1. PICK old, new : old = worker /\ new = worker'
  OBVIOUS
<1>2. new[w] = task /\ \A s \in Workers \ {w} : new[s] = old[s]
  BY <1>1 DEF ServiceTypeOK
<1>3. /\ Cardinality(Holders(Workers, old)) \in Nat
      /\ Cardinality(Holders(Workers, new)) \in Nat
      /\ Cardinality(Holders(Workers, new)) + Held(old[w])
           = Cardinality(Holders(Workers, old)) + Held(new[w])
  BY <1>2, SlotsFinite, HoldersAfterMove
<1>4. Cardinality(Holders(Pulls, pull)) \in Nat
  BY SlotsFinite, FS_Subset, FS_CardinalityType DEF Holders
<1>5. permits \in Nat /\ Held(task) \in Nat /\ Held(worker[w]) \in Nat
  BY DEF ServiceTypeOK, Held
<1>. QED
  BY <1>1, <1>2, <1>3, <1>4, <1>5, Balance DEF PermitSum

LEMMA PullMoves ==
  ASSUME ServiceTypeOK, NEW g \in Pulls, NEW task, pull' = [pull EXCEPT ![g] = task],
         permits' \in Nat, permits' + Held(task) = permits + Held(pull[g]), UNCHANGED worker
  PROVE  PermitSum' = PermitSum
<1>0. g \in Pulls /\ IsFiniteSet(Pulls)
  BY SlotsFinite
<1>1. PICK old, new : old = pull /\ new = pull'
  OBVIOUS
<1>2. new[g] = task /\ \A s \in Pulls \ {g} : new[s] = old[s]
  BY <1>1 DEF ServiceTypeOK
<1>3. /\ Cardinality(Holders(Pulls, old)) \in Nat
      /\ Cardinality(Holders(Pulls, new)) \in Nat
      /\ Cardinality(Holders(Pulls, new)) + Held(old[g])
           = Cardinality(Holders(Pulls, old)) + Held(new[g])
  BY ONLY <1>0, <1>2, HoldersAfterMove
<1>4. Cardinality(Holders(Workers, worker)) \in Nat
  BY SlotsFinite, FS_Subset, FS_CardinalityType DEF Holders
<1>5. permits \in Nat /\ Held(task) \in Nat /\ Held(pull[g]) \in Nat
  BY DEF ServiceTypeOK, Held
<1>. QED
  BY <1>1, <1>2, <1>3, <1>4, <1>5, Balance DEF PermitSum

\* Tasks that are spawned, joined or forgotten hold nothing before or after.
LEMMA IdleMoves ==
  ASSUME UNCHANGED <<permits, pull>>,
         \A w \in Workers : Holding(worker'[w]) <=> Holding(worker[w])
  PROVE  PermitSum' = PermitSum
<1>1. Holders(Workers, worker') = Holders(Workers, worker)
  BY DEF Holders
<1>. QED
  BY <1>1 DEF PermitSum

-----------------------------------------------------------------------------
(* Each step keeps the sum.                                                *)

LEMMA ReturnKeepsSum ==
  ASSUME ServiceTypeOK, NEW w \in Workers, Holding(worker[w]), NEW outcome, Return(w, outcome)
  PROVE  PermitSum' = PermitSum
<1> DEFINE result ==
      IF w \in Children /\ batch[w[1]].pc # "idle"
      THEN [IdleWorker EXCEPT !.pc = "returned", !.name = worker[w].name, !.outcome = outcome]
      ELSE IdleWorker
<1>1. result.pc \in {"idle", "returned"}
  BY DEF IdleWorker
<1>2. Held(result) = 0 /\ Held(worker[w]) = 1
  BY <1>1 DEF Held, Holding
<1>3. permits \in Nat /\ permits' = permits + 1 /\ UNCHANGED pull
  BY DEF ServiceTypeOK, Return
<1>4. worker' = [worker EXCEPT ![w] = result]
  BY DEF Return
<1>. HIDE DEF result
<1>5. permits' \in Nat /\ permits' + Held(result) = permits + Held(worker[w])
  BY <1>2, <1>3
<1>. QED
  BY <1>3, <1>4, <1>5, WorkerMoves

\* A worker that holds its permit before and after a step.
LEMMA WorkerGoesOn ==
  ASSUME ServiceTypeOK, NEW w \in Workers, NEW task, worker' = [worker EXCEPT ![w] = task],
         Holding(worker[w]) <=> Holding(task), UNCHANGED <<permits, pull>>
  PROVE  PermitSum' = PermitSum
<1>1. permits \in Nat /\ Held(task) = Held(worker[w])
  BY DEF ServiceTypeOK, Held
<1>. QED
  BY <1>1, WorkerMoves

LEMMA PullGoesOn ==
  ASSUME ServiceTypeOK, NEW g \in Pulls, NEW task, pull' = [pull EXCEPT ![g] = task],
         Holding(pull[g]) <=> Holding(task), UNCHANGED <<permits, worker>>
  PROVE  PermitSum' = PermitSum
<1>1. permits \in Nat /\ Held(task) = Held(pull[g])
  BY DEF ServiceTypeOK, Held
<1>. QED
  BY <1>1, PullMoves

LEMMA WorkerKeepsSum ==
  ASSUME ServiceTypeOK, NEW w \in Workers, Acquire(w) \/ WorkerStep(w)
  PROVE  PermitSum' = PermitSum
<1>0. worker[w] \in WorkerType
  BY DEF ServiceTypeOK
<1>1. CASE Acquire(w)
  <2>1. worker' = [worker EXCEPT ![w] = [worker[w] EXCEPT !.pc = "fetching"]]
    BY <1>1 DEF Acquire
  <2>2. PICK task : task = [worker[w] EXCEPT !.pc = "fetching"]
    OBVIOUS
  <2>3. Held(task) = 1 /\ Held(worker[w]) = 0
    BY <1>0, <1>1, <2>2 DEF Held, Holding, WorkerType, Acquire
  <2>4. permits \in Nat /\ permits > 0 /\ permits' = permits - 1 /\ UNCHANGED pull
    BY <1>1 DEF Acquire, ServiceTypeOK
  <2>5. permits' \in Nat /\ permits' + Held(task) = permits + Held(worker[w])
    BY <2>3, <2>4
  <2>. QED
    BY <2>1, <2>2, <2>4, <2>5, WorkerMoves
<1>2. CASE FetchProfile(w)
  <2>1. PICK reports \in Profiles :
          worker' = [worker EXCEPT ![w].pc = "upserting", ![w].fetched = reports,
                                   ![w].todo = reports]
    BY <1>2 DEF FetchProfile
  <2>2. PICK task : task = [worker[w] EXCEPT !.pc = "upserting", !.fetched = reports,
                                             !.todo = reports]
    OBVIOUS
  <2>3. worker' = [worker EXCEPT ![w] = task]
    BY <2>1, <2>2 DEF ServiceTypeOK
  <2>4. Holding(task) /\ Holding(worker[w])
    BY <1>0, <1>2, <2>2 DEF Holding, WorkerType, FetchProfile
  <2>. QED
    BY <1>2, <2>3, <2>4, WorkerGoesOn DEF FetchProfile
<1>3. CASE Upsert(w)
  <2>1. PICK task : task = [worker[w] EXCEPT !.pc = "inserting",
                                             !.id = UpsertedId(worker[w].name)]
    OBVIOUS
  <2>2. worker' = [worker EXCEPT ![w] = task]
    BY <1>3, <2>1 DEF ServiceTypeOK, Upsert
  <2>3. Holding(task) /\ Holding(worker[w])
    BY <1>0, <1>3, <2>1 DEF Holding, WorkerType, Upsert
  <2>. QED
    BY <1>3, <2>2, <2>3, WorkerGoesOn DEF Upsert
<1>4. ASSUME NEW r \in worker[w].todo, SkipRun(w, r) \/ StoreRun(w, r)
      PROVE  PermitSum' = PermitSum
  <2>1. PICK task : task = [worker[w] EXCEPT !.todo = @ \ {r}]
    OBVIOUS
  <2>2. worker' = [worker EXCEPT ![w] = task]
    BY <1>4, <2>1 DEF ServiceTypeOK, SkipRun, StoreRun
  <2>3. Holding(task) /\ Holding(worker[w])
    BY <1>0, <1>4, <2>1 DEF Holding, WorkerType, SkipRun, StoreRun
  <2>. QED
    BY <1>4, <2>2, <2>3, WorkerGoesOn DEF SkipRun, StoreRun
<1>5. CASE \/ FetchGone(w) \/ FetchFails(w) \/ StatementFails(w) \/ Finish(w)
           \/ \E r \in worker[w].todo : StoreRefused(w, r)
  <2>1. Holding(worker[w])
    BY <1>5 DEF Holding, FetchGone, FetchFails, StatementFails, Finish, StoreRefused
  <2>2. \E outcome \in {"ok", "gone", "failed"} : Return(w, outcome)
    BY <1>5 DEF FetchGone, FetchFails, StatementFails, Finish, StoreRefused
  <2>. QED
    BY <2>1, <2>2, ReturnKeepsSum
<1>. QED
  BY <1>1, <1>2, <1>3, <1>4, <1>5 DEF WorkerStep

LEMMA ReturnGuildKeepsSum ==
  ASSUME ServiceTypeOK, NEW g \in Pulls, Holding(pull[g]), ReturnGuild(g)
  PROVE  PermitSum' = PermitSum
<1>1. Held(IdlePull) = 0 /\ Held(pull[g]) = 1
  BY DEF Held, Holding, IdlePull
<1>2. permits \in Nat /\ permits' = permits + 1 /\ UNCHANGED worker
  BY DEF ServiceTypeOK, ReturnGuild
<1>3. permits' \in Nat /\ permits' + Held(IdlePull) = permits + Held(pull[g])
  BY <1>1, <1>2
<1>. QED
  BY <1>2, <1>3, PullMoves DEF ReturnGuild

LEMMA PullKeepsSum ==
  ASSUME ServiceTypeOK, NEW g \in Pulls, AcquireForGuild(g) \/ PullStep(g)
  PROVE  PermitSum' = PermitSum
<1>0. pull[g] \in PullType
  BY DEF ServiceTypeOK
<1>1. CASE AcquireForGuild(g)
  <2>1. PICK task : task = [pull[g] EXCEPT !.pc = "fetching"]
    OBVIOUS
  <2>2. pull' = [pull EXCEPT ![g] = task]
    BY <1>1, <2>1 DEF AcquireForGuild, ServiceTypeOK
  <2>3. Held(task) = 1 /\ Held(pull[g]) = 0
    BY <1>0, <1>1, <2>1 DEF Held, Holding, PullType, AcquireForGuild
  <2>4. permits \in Nat /\ permits > 0 /\ permits' = permits - 1 /\ UNCHANGED worker
    BY <1>1 DEF AcquireForGuild, ServiceTypeOK
  <2>5. permits' \in Nat /\ permits' + Held(task) = permits + Held(pull[g])
    BY <2>3, <2>4
  <2>. QED
    BY <2>2, <2>4, <2>5, PullMoves
<1>2. CASE \/ FetchRoster(g) \/ (\E m \in pull[g].todo : NextMember(g, m)) \/ FindMember(g)
           \/ UpsertMember(g) \/ LinkMember(g) \/ LeaveUnlinked(g)
  <2>1. UNCHANGED <<permits, worker>>
    BY <1>2 DEF FetchRoster, NextMember, FindMember, UpsertMember, LinkMember, LeaveUnlinked
  <2>2. PICK task : task = pull'[g]
    OBVIOUS
  <2>3. pull' = [pull EXCEPT ![g] = task]
    BY <1>2, <2>2 DEF FetchRoster, NextMember, FindMember, UpsertMember, LinkMember,
                      LeaveUnlinked, MemberDone, ServiceTypeOK
  <2>4. Holding(pull[g])
    BY <1>2 DEF Holding, FetchRoster, NextMember, FindMember, UpsertMember, LinkMember,
                LeaveUnlinked
  <2>5. Holding(task)
    <3>1. CASE FetchRoster(g)
      BY <1>0, <2>2, <3>1 DEF FetchRoster, Holding, PullType, ServiceTypeOK
    <3>2. ASSUME NEW m \in pull[g].todo, NextMember(g, m)
          PROVE  Holding(task)
      BY <1>0, <2>2, <3>2 DEF NextMember, Holding, PullType, ServiceTypeOK
    <3>3. CASE FindMember(g) \/ UpsertMember(g)
      BY <1>0, <2>2, <3>3 DEF FindMember, UpsertMember, Holding, PullType, ServiceTypeOK
    <3>4. CASE LinkMember(g) \/ LeaveUnlinked(g)
      BY <1>0, <2>2, <3>4 DEF LinkMember, LeaveUnlinked, MemberDone, Holding, PullType,
                              ServiceTypeOK
    <3>. QED
      BY <1>2, <3>1, <3>2, <3>3, <3>4
  <2>. QED
    BY <2>1, <2>3, <2>4, <2>5, PullGoesOn
<1>3. CASE FetchRosterFails(g) \/ GuildStatementFails(g) \/ FinishGuild(g)
  <2>1. Holding(pull[g]) /\ ReturnGuild(g)
    BY <1>3 DEF Holding, FetchRosterFails, GuildStatementFails, FinishGuild
  <2>. QED
    BY <2>1, ReturnGuildKeepsSum
<1>. QED
  BY <1>1, <1>2, <1>3 DEF PullStep

-----------------------------------------------------------------------------
(* The results a coordinator acts on.                                      *)

Gone(task) == task.pc = "returned" /\ task.outcome = "gone"
Child(b) == <<b, NextJoin(b)[2]>>

\* JoinGone reads a child's result and the delete follows in another step.  In
\* between, the child stays where it is and the result stays what it was.
PruningIsBacked ==
  \A b \in Batches :
    batch[b].pc = "pruning" => batch[b].joins # {} /\ Gone(worker[Child(b)])

PermitInv == Inv /\ PermitsConserved /\ PruningIsBacked

\* A batch that is pruning after a step was so before it, and nobody has
\* touched its child.
PrunersUndisturbed ==
  \A b \in Batches : batch'[b].pc = "pruning" =>
    /\ batch[b].pc = "pruning"
    /\ batch'[b] = batch[b]
    /\ worker'[Child(b)] = worker[Child(b)]

LEMMA UndisturbedPreserves ==
  ASSUME PruningIsBacked, PrunersUndisturbed
  PROVE  PruningIsBacked'
<1>. SUFFICES ASSUME NEW b \in Batches, batch'[b].pc = "pruning"
              PROVE  (batch[b].joins # {} /\ Gone(worker[Child(b)]))'
  BY DEF PruningIsBacked
<1>1. batch'[b] = batch[b] /\ worker'[Child(b)] = worker[Child(b)]
  BY DEF PrunersUndisturbed
<1>2. NextJoin(b)' = NextJoin(b)
  BY <1>1 DEF NextJoin
<1>3. Child(b)' = Child(b)
  BY <1>2 DEF Child
<1>4. batch[b].joins # {} /\ Gone(worker[Child(b)])
  BY <1>1 DEF PruningIsBacked
<1>. QED
  BY <1>1, <1>3, <1>4 DEF Gone

\* Steps of a task that is no finished child.
LEMMA OthersUndisturbed ==
  ASSUME PruningIsBacked, UNCHANGED batch,
         \A b \in Batches : \A n \in Names :
           worker[<<b, n>>].pc = "returned" => worker'[<<b, n>>] = worker[<<b, n>>],
         ServiceTypeOK
  PROVE  PruningIsBacked'
<1>1. ASSUME NEW b \in Batches, batch'[b].pc = "pruning"
      PROVE  worker'[Child(b)] = worker[Child(b)]
  <2>1. batch[b].joins # {} /\ Gone(worker[Child(b)])
    BY <1>1 DEF PruningIsBacked
  <2>2. NextJoin(b)[2] \in Names
    BY <2>1, NextJoinType, LowerType DEF Canonical
  <2>. QED
    BY <2>1, <2>2 DEF Child, Gone
<1>. QED
  BY <1>1, UndisturbedPreserves DEF PrunersUndisturbed

LEMMA WorkerKeepsResults ==
  ASSUME ServiceTypeOK, PruningIsBacked, NEW w \in Workers, Acquire(w) \/ WorkerStep(w)
  PROVE  PruningIsBacked'
<1>1. UNCHANGED batch /\ worker[w].pc # "returned"
  BY DEF Acquire, WorkerStep, FetchProfile, FetchGone, FetchFails, Upsert, SkipRun, StoreRun,
         StoreRefused, StatementFails, Finish, Return
<1>2. \A v \in Workers : v # w => worker'[v] = worker[v]
  <2>1. CASE Acquire(w) \/ FetchProfile(w) \/ Upsert(w)
    BY <2>1 DEF Acquire, FetchProfile, Upsert, ServiceTypeOK
  <2>2. ASSUME NEW r \in worker[w].todo, SkipRun(w, r) \/ StoreRun(w, r)
        PROVE  \A v \in Workers : v # w => worker'[v] = worker[v]
    BY <2>2 DEF SkipRun, StoreRun, ServiceTypeOK
  <2>3. ASSUME NEW outcome, Return(w, outcome)
        PROVE  \A v \in Workers : v # w => worker'[v] = worker[v]
    BY <2>3 DEF Return, ServiceTypeOK
  <2>. QED
    BY <2>1, <2>2, <2>3 DEF WorkerStep, FetchGone, FetchFails, StoreRefused, StatementFails,
                            Finish
<1>3. \A b \in Batches : \A n \in Names : <<b, n>> \in Workers
  BY DEF Workers, Children
<1>. QED
  BY <1>1, <1>2, <1>3, OthersUndisturbed

LEMMA WorkersUntouched ==
  ASSUME PruningIsBacked, ServiceTypeOK, UNCHANGED <<worker, batch>>
  PROVE  PruningIsBacked'
BY OthersUndisturbed

\* A join frees the child for the next update_all.
LEMMA JoinedLemma ==
  ASSUME ServiceTypeOK, PruningIsBacked, NEW b \in Batches, batch[b].joins # {},
         worker[Child(b)].pc = "returned", Joined(b), UNCHANGED <<permits, pull>>
  PROVE  PermitSum' = PermitSum /\ PruningIsBacked'
<1>1. Child(b) \in Workers
  BY NextJoinType DEF Child
<1>2. worker' = [worker EXCEPT ![Child(b)] = IdleWorker]
  BY DEF Joined, Child
<1>3. PermitSum' = PermitSum
  <2>1. ~Holding(worker[Child(b)]) /\ ~Holding(IdleWorker)
    BY DEF Holding, IdleWorker
  <2>. QED
    BY <1>1, <1>2, <2>1, WorkerGoesOn
<1>4. batch'[b].pc = "joining" /\ \A c \in Batches : c # b => batch'[c] = batch[c]
  BY DEF Joined, ServiceTypeOK
<1>5. \A v \in Workers : v # Child(b) => worker'[v] = worker[v]
  BY <1>2 DEF ServiceTypeOK
<1>6. ASSUME NEW c \in Batches, batch'[c].pc = "pruning"
      PROVE  batch'[c] = batch[c] /\ worker'[Child(c)] = worker[Child(c)]
  <2>1. c # b /\ batch'[c] = batch[c] /\ batch[c].joins # {}
    BY <1>4, <1>6 DEF PruningIsBacked
  <2>2. Child(c) \in Workers /\ Child(c) # Child(b)
    BY <2>1, NextJoinType DEF Child
  <2>. QED
    BY <1>5, <2>1, <2>2
<1>7. PrunersUndisturbed
  BY <1>6 DEF PrunersUndisturbed
<1>. QED
  BY <1>3, <1>7, UndisturbedPreserves

LEMMA JoinChildReturned ==
  ASSUME ServiceTypeOK, NEW b \in Batches, Join(b) \/ JoinGone(b)
  PROVE  batch[b].joins # {} /\ worker[Child(b)].pc = "returned"
BY DEF Join, JoinGone, Child

LEMMA BatchKeeps ==
  ASSUME ServiceTypeOK, PruningIsBacked, NEW b \in Batches, BatchStep(b) \/ AbandonAll(b)
  PROVE  PermitSum' = PermitSum /\ PruningIsBacked'
<1>1. CASE Join(b)
  BY <1>1, JoinChildReturned, JoinedLemma DEF Join
<1>2. CASE Prune(b) \/ PruneFails(b)
  <2>1. batch[b].joins # {} /\ worker[Child(b)].pc = "returned"
    BY <1>2 DEF Prune, PruneFails, PruningIsBacked, Gone
  <2>. QED
    BY <1>2, <2>1, JoinedLemma DEF Prune, PruneFails
<1>3. CASE JoinGone(b)
  <2>1. PermitSum' = PermitSum
    BY <1>3, IdleMoves DEF JoinGone
  <2>2. /\ batch[b].joins # {} /\ Gone(worker[Child(b)])
        /\ batch'[b].joins = batch[b].joins
        /\ \A c \in Batches : c # b => batch'[c] = batch[c]
    BY <1>3 DEF JoinGone, Gone, Child, ServiceTypeOK, BatchType
  <2>3. ASSUME NEW c \in Batches, batch'[c].pc = "pruning"
        PROVE  (batch[c].joins # {} /\ Gone(worker[Child(c)]))'
    <3>1. batch[c].joins # {} /\ Gone(worker[Child(c)]) /\ batch'[c].joins = batch[c].joins
      BY <2>2, <2>3 DEF PruningIsBacked
    <3>2. NextJoin(c)' = NextJoin(c)
      BY <3>1 DEF NextJoin
    <3>3. Child(c)' = Child(c) /\ worker' = worker
      BY <1>3, <3>2 DEF Child, JoinGone
    <3>. QED
      BY <3>1, <3>3 DEF Gone
  <2>. QED
    BY <2>1, <2>3 DEF PruningIsBacked
<1>4. CASE AllDone(b)
  <2>1. PermitSum' = PermitSum
    BY <1>4, IdleMoves DEF AllDone
  <2>2. PrunersUndisturbed
    BY <1>4 DEF AllDone, PrunersUndisturbed, ServiceTypeOK, IdleBatch
  <2>. QED
    BY <2>1, <2>2, UndisturbedPreserves
<1>5. CASE AbandonAll(b)
  <2>1. \A w \in Workers : worker'[w] = IF w \in {b} \X Names /\ worker[w].pc = "returned"
                                        THEN IdleWorker ELSE worker[w]
    BY <1>5 DEF AbandonAll
  <2>2. PermitSum' = PermitSum
    <3>1. \A w \in Workers : Holding(worker'[w]) <=> Holding(worker[w])
      BY <2>1 DEF Holding, IdleWorker
    <3>. QED
      BY <1>5, <3>1, IdleMoves DEF AbandonAll
  <2>3. ASSUME NEW c \in Batches, batch'[c].pc = "pruning"
        PROVE  batch'[c] = batch[c] /\ worker'[Child(c)] = worker[Child(c)]
    <3>1. c # b /\ batch'[c] = batch[c] /\ batch[c].joins # {}
      BY <1>5, <2>3 DEF AbandonAll, ServiceTypeOK, IdleBatch, PruningIsBacked
    <3>2. Child(c) \in Workers /\ Child(c) \notin {b} \X Names
      BY <3>1, NextJoinType DEF Child
    <3>. QED
      BY <2>1, <3>1, <3>2
  <2>4. PrunersUndisturbed
    BY <2>3 DEF PrunersUndisturbed
  <2>. QED
    BY <2>2, <2>4, UndisturbedPreserves
<1>. QED
  BY <1>1, <1>2, <1>3, <1>4, <1>5 DEF BatchStep

LEMMA RequestKeeps ==
  ASSUME DatabaseTypeOK, ServiceTypeOK, PruningIsBacked, Request
  PROVE  PermitSum' = PermitSum /\ PruningIsBacked'
<1>0. Requests \cap Children = {}
  BY ServiceAssumption DEF ServiceAssumption
<1>1. ASSUME NEW q \in Requests, NEW n \in Names, RequestCharacter(q, n)
      PROVE  PermitSum' = PermitSum /\ PruningIsBacked'
  <2>1. PICK task : task = [IdleWorker EXCEPT !.pc = "waiting", !.name = n]
    OBVIOUS
  <2>2. worker' = [worker EXCEPT ![q] = task] /\ q \in Workers
    BY <1>1, <2>1 DEF RequestCharacter, Workers
  <2>3. ~Holding(task) /\ ~Holding(worker[q])
    BY <1>1, <2>1 DEF Holding, RequestCharacter, IdleWorker
  <2>4. PermitSum' = PermitSum
    BY <1>1, <2>2, <2>3, WorkerGoesOn DEF RequestCharacter
  <2>5. \A b \in Batches : \A m \in Names : worker'[<<b, m>>] = worker[<<b, m>>]
    BY <1>0, <2>2 DEF ServiceTypeOK, Workers, Children
  <2>. QED
    BY <1>1, <2>4, <2>5, OthersUndisturbed DEF RequestCharacter
<1>2. ASSUME NEW b \in Batches, StartAll(b)
      PROVE  PermitSum' = PermitSum /\ PruningIsBacked'
  <2>1. PICK rows : /\ rows = {<<i, characters[i].name>> : i \in DOMAIN characters}
                    /\ batch' = [batch EXCEPT ![b] = [pc |-> "joining", joins |-> rows]]
                    /\ worker' = [w \in Workers |->
                         IF \E row \in rows : w = <<b, row[2]>>
                         THEN [IdleWorker EXCEPT !.pc = "waiting", !.name = w[2]]
                         ELSE worker[w]]
    BY <1>2 DEF StartAll
  <2>2. ASSUME NEW w \in Workers
        PROVE  \/ worker'[w] = worker[w]
               \/ /\ \E m \in Names : w = <<b, m>>
                  /\ worker[w].pc = "idle" /\ worker'[w].pc = "waiting"
    <3>1. CASE \E row \in rows : w = <<b, row[2]>>
      <4>1. PICK row \in rows : w = <<b, row[2]>>
        BY <3>1
      <4>2. row[2] \in Names
        <5>0. rows = {<<i, characters[i].name>> : i \in DOMAIN characters}
          BY <2>1
        <5>1. PICK i \in DOMAIN characters : row = <<i, characters[i].name>>
          BY <5>0
        <5>2. characters[i].name \in Canonical
          BY <5>1 DEF DatabaseTypeOK
        <5>. QED
          BY <5>1, <5>2, LowerType DEF Canonical
      <4>3. \E m \in Names : w = <<b, m>>
        BY <4>1, <4>2
      <4>4. worker[w].pc = "idle"
        BY <1>2, <4>3 DEF StartAll
      <4>5. worker'[w].pc = "waiting"
        BY <2>1, <3>1 DEF IdleWorker
      <4>. QED
        BY <4>3, <4>4, <4>5
    <3>2. CASE ~\E row \in rows : w = <<b, row[2]>>
      BY <2>1, <3>2
    <3>. QED
      BY <3>1, <3>2
  <2>3. PermitSum' = PermitSum
    <3>1. \A w \in Workers : Holding(worker'[w]) <=> Holding(worker[w])
      BY <2>2 DEF Holding
    <3>. QED
      BY <1>2, <3>1, IdleMoves DEF StartAll
  <2>4. ASSUME NEW c \in Batches, batch'[c].pc = "pruning"
        PROVE  batch'[c] = batch[c] /\ worker'[Child(c)] = worker[Child(c)]
    <3>1. c # b /\ batch'[c] = batch[c] /\ batch[c].joins # {} /\ Gone(worker[Child(c)])
      BY <2>1, <2>4 DEF ServiceTypeOK, PruningIsBacked
    <3>2. Child(c) \in Workers
      BY <3>1, NextJoinType DEF Child
    <3>. QED
      BY <2>2, <3>1, <3>2 DEF Gone
  <2>5. PrunersUndisturbed
    BY <2>4 DEF PrunersUndisturbed
  <2>. QED
    BY <2>3, <2>5, UndisturbedPreserves
<1>3. ASSUME NEW g \in Pulls, NEW guild \in Guilds, RequestGuild(g, guild)
      PROVE  PermitSum' = PermitSum /\ PruningIsBacked'
  <2>1. PICK task : task = [IdlePull EXCEPT !.pc = "waiting", !.guild = guild]
    OBVIOUS
  <2>2. ~Holding(task) /\ ~Holding(pull[g])
    BY <1>3, <2>1 DEF Holding, RequestGuild, IdlePull
  <2>3. PermitSum' = PermitSum
    BY <1>3, <2>1, <2>2, PullGoesOn DEF RequestGuild
  <2>. QED
    BY <1>3, <2>3, WorkersUntouched DEF RequestGuild
<1>. QED
  BY <1>1, <1>2, <1>3 DEF Request

LEMMA ClientLeavesKeeps ==
  ASSUME ServiceTypeOK, PruningIsBacked, ClientLeaves
  PROVE  PermitSum' = PermitSum /\ PruningIsBacked'
<1>1. ASSUME NEW q \in Requests, CancelRequest(q)
      PROVE  PermitSum' = PermitSum /\ PruningIsBacked'
  <2>1. worker' = [worker EXCEPT ![q] = IdleWorker] /\ q \in Workers
    BY <1>1 DEF CancelRequest, Workers
  <2>2. Held(IdleWorker) = 0
    BY DEF Held, Holding, IdleWorker
  <2>3. permits \in Nat /\ permits' = permits + Held(worker[q])
    BY <1>1 DEF ServiceTypeOK, CancelRequest, Held
  <2>4. permits' \in Nat /\ permits' + Held(IdleWorker) = permits + Held(worker[q])
    <3>1. Held(worker[q]) \in 0 .. 1
      BY DEF Held
    <3>. QED
      BY <2>2, <2>3, <3>1
  <2>5. PermitSum' = PermitSum
    BY <1>1, <2>1, <2>4, WorkerMoves DEF CancelRequest
  <2>6. \A b \in Batches : \A m \in Names : worker'[<<b, m>>] = worker[<<b, m>>]
    BY <2>1, ServiceAssumption DEF ServiceAssumption, ServiceTypeOK, Workers, Children
  <2>. QED
    BY <1>1, <2>5, <2>6, OthersUndisturbed DEF CancelRequest
<1>2. ASSUME NEW b \in Batches, AbandonAll(b)
      PROVE  PermitSum' = PermitSum /\ PruningIsBacked'
  BY <1>2, BatchKeeps
<1>3. ASSUME NEW g \in Pulls, CancelGuild(g)
      PROVE  PermitSum' = PermitSum /\ PruningIsBacked'
  <2>1. Held(IdlePull) = 0
    BY DEF Held, Holding, IdlePull
  <2>2. permits \in Nat /\ permits' = permits + Held(pull[g])
    BY <1>3 DEF ServiceTypeOK, CancelGuild, Held
  <2>3. permits' \in Nat /\ permits' + Held(IdlePull) = permits + Held(pull[g])
    <3>1. Held(pull[g]) \in 0 .. 1
      BY DEF Held
    <3>. QED
      BY <2>1, <2>2, <3>1
  <2>4. PermitSum' = PermitSum
    BY <1>3, <2>3, PullMoves DEF CancelGuild
  <2>. QED
    BY <1>3, <2>4, WorkersUntouched DEF CancelGuild
<1>. QED
  BY <1>1, <1>2, <1>3 DEF ClientLeaves

\* A crash takes every holder with it and starts from all permits.
LEMMA CrashKeeps ==
  ASSUME Crash
  PROVE  PermitsConserved' /\ PruningIsBacked'
<1>1. /\ {w \in Workers : Holding(worker'[w])} = {}
      /\ {g \in Pulls : Holding(pull'[g])} = {}
  BY DEF Crash, Holding, IdleWorker, IdlePull
<1>2. permits' = MaxConcurrent /\ MaxConcurrent \in Nat
  BY ServiceAssumption DEF ServiceAssumption, Crash
<1>3. PermitsConserved'
  BY <1>1, <1>2, FS_EmptySet DEF PermitsConserved
<1>4. PruningIsBacked'
  BY DEF Crash, PruningIsBacked, IdleBatch
<1>. QED
  BY <1>3, <1>4

\* The server starts with all permits free.
LEMMA PermitInvInit == Init => PermitInv
<1>. SUFFICES ASSUME Init PROVE PermitsConserved /\ PruningIsBacked
  BY InitInv DEF PermitInv
<1>1. /\ {w \in Workers : Holding(worker[w])} = {}
      /\ {g \in Pulls : Holding(pull[g])} = {}
  BY DEF Init, ServiceInit, Holding, IdleWorker, IdlePull
<1>2. permits = MaxConcurrent /\ MaxConcurrent \in Nat
  BY ServiceAssumption DEF ServiceAssumption, Init, ServiceInit
<1>3. PermitsConserved
  BY <1>1, <1>2, FS_EmptySet DEF PermitsConserved
<1>4. PruningIsBacked
  BY DEF Init, ServiceInit, PruningIsBacked, IdleBatch
<1>. QED
  BY <1>3, <1>4

\* Every step keeps the accounts of permits and of the results to be joined.
LEMMA PermitInvNext == PermitInv /\ [Next]_vars => PermitInv'
<1>. SUFFICES ASSUME PermitInv, [Next]_vars PROVE PermitInv'
  OBVIOUS
<1>1. Inv' /\ DatabaseTypeOK /\ ServiceTypeOK /\ PruningIsBacked
  BY NextInv DEF PermitInv, Inv, TypeOK
<1>2. PermitSum = MaxConcurrent
  BY DEF PermitInv, PermitsConserved, PermitSum, Holders
<1>3. PermitSum' = PermitSum => PermitsConserved'
  BY <1>2 DEF PermitsConserved, PermitSum, Holders
<1>4. CASE Crash
  BY <1>1, <1>4, CrashKeeps DEF PermitInv
<1>5. CASE Request \/ ClientLeaves
  BY <1>1, <1>3, <1>5, RequestKeeps, ClientLeavesKeeps DEF PermitInv
<1>6. ASSUME NEW w \in Workers, Acquire(w) \/ WorkerStep(w)
      PROVE  PermitInv'
  BY <1>1, <1>3, <1>6, WorkerKeepsSum, WorkerKeepsResults DEF PermitInv
<1>7. ASSUME NEW b \in Batches, BatchStep(b)
      PROVE  PermitInv'
  BY <1>1, <1>3, <1>7, BatchKeeps DEF PermitInv
<1>8. ASSUME NEW g \in Pulls, AcquireForGuild(g) \/ PullStep(g)
      PROVE  PermitInv'
  <2>1. UNCHANGED <<worker, batch>>
    BY <1>8 DEF PullStep, AcquireForGuild, FetchRoster, FetchRosterFails, NextMember,
                FindMember, UpsertMember, LinkMember, LeaveUnlinked, GuildStatementFails,
                FinishGuild, ReturnGuild
  <2>. QED
    BY <1>1, <1>3, <1>8, <2>1, PullKeepsSum, WorkersUntouched DEF PermitInv
<1>9. CASE UNCHANGED <<permits, worker, batch, pull>>
  <2>1. PermitSum' = PermitSum
    BY <1>9, IdleMoves
  <2>. QED
    BY <1>1, <1>3, <1>9, <2>1, WorkersUntouched DEF PermitInv
<1>10. CASE Boot \/ SeedFails \/ (\E c \in Canonical : UpstreamChanges(c))
            \/ (\E n \in Names : DeleteRequest(n)) \/ UNCHANGED vars
  BY <1>9, <1>10 DEF Boot, Start, SeedPlayer, SeedCharacter, SeedLink, Serve, SeedFails,
                     UpstreamChanges, DeleteRequest, vars, service
<1>. QED
  BY <1>4, <1>5, <1>6, <1>7, <1>8, <1>10 DEF Next, Environment, Tasks

\* Permits and joined results are accounted for in every state.
LEMMA PermitInvariance == Spec => []PermitInv
BY PermitInvInit, PermitInvNext, PTL DEF Spec

-----------------------------------------------------------------------------
(* The results.                                                            *)

\* Every permit of the semaphore is free or held by exactly one task inside
\* Raider.IO traffic (_permit in service.rs), for any number of permits, tasks
\* and batches: returns, errors, cancellations and crashes neither leak one
\* nor hand one out twice.
THEOREM PermitsAreConserved == Spec => []PermitsConserved
<1>1. PermitInv => PermitsConserved
  BY DEF PermitInv
<1>. QED
  BY <1>1, PermitInvariance, PTL

\* A character row leaves the table only by a DELETE request that names it, or
\* by an update_all whose task for that very character was answered 400: the
\* result joined in one step still stands when the delete runs in the next.
THEOREM RowsAreNotLostOtherwise == Spec => RowsLeaveForAReason
<1>1. PermitInv /\ [Next]_vars =>
        [\A id \in DOMAIN characters \ DOMAIN characters' :
           \/ \E n \in Names : DeleteRequest(n)
           \/ \E b \in Batches :
                LET child == worker[<<b, characters[id].name>>]
                IN child.pc = "returned" /\ child.outcome = "gone"]_vars
  <2>. SUFFICES ASSUME PermitInv, Next, NEW id \in DOMAIN characters \ DOMAIN characters',
                       ~\E n \in Names : DeleteRequest(n)
                PROVE  \E b \in Batches :
                         LET child == worker[<<b, characters[id].name>>]
                         IN child.pc = "returned" /\ child.outcome = "gone"
    OBVIOUS
  <2>1. \A n, guild : ~UpsertCharacter(n, guild)
    BY DEF UpsertCharacter
  <2>2. PICK b \in Batches : Prune(b)
    BY <2>1
    DEF Next, Boot, Start, SeedPlayer, SeedCharacter, SeedLink, Serve, SeedFails, Environment,
        Crash, Request, RequestCharacter, StartAll, RequestGuild, UpstreamChanges,
        ClientLeaves, CancelRequest, AbandonAll, CancelGuild, Tasks, Acquire, WorkerStep,
        FetchProfile, FetchGone, FetchFails, Upsert, SkipRun, StoreRun, StoreRefused,
        StatementFails, Finish, Return, BatchStep, Join, JoinGone, PruneFails, AllDone,
        AcquireForGuild, PullStep, FetchRoster, FetchRosterFails, NextMember, FindMember,
        UpsertMember, LinkMember, LeaveUnlinked, GuildStatementFails, FinishGuild,
        InsertRun, UpsertPlayer, LinkPlayerCharacter, tables
  <2>3. characters[id].name = NextJoin(b)[2]
    BY <2>2 DEF Prune, DeleteCharacter
  <2>4. Gone(worker[Child(b)])
    BY <2>2 DEF Prune, PermitInv, PruningIsBacked
  <2>. QED
    BY <2>3, <2>4 DEF Gone, Child
<1>. QED
  BY <1>1, PermitInvariance, PTL DEF Spec, RowsLeaveForAReason

-----------------------------------------------------------------------------
(* A step issues at most one statement.                                    *)

Statement ==
  \/ UNCHANGED tables
  \/ \E n \in Names, guild \in Guilds \cup {NoGuild} : UpsertCharacter(n, guild)
  \/ \E n \in Names, id \in Nat, r \in Reports : Carries(id, n) /\ InsertRun(id, n, r)
  \/ \E p \in Players : UpsertPlayer(p)
  \/ \E p \in Players, id \in Nat : LinkPlayerCharacter(p, id)
  \/ \E n : DeleteCharacter(n)

LEMMA OneStatement ==
  ASSUME Inv, [Next]_vars
  PROVE  Statement
<1>. USE ConfigType DEF ConfigEntry
<1>0. ServiceTypeOK
  BY DEF Inv, TypeOK
<1>1. CASE UNCHANGED tables
  BY <1>1 DEF Statement
<1>2. CASE SeedPlayer \/ SeedCharacter
  <2>1. Config[seed.i].player \in Players /\ Config[seed.i].name \in Names
    BY <1>2 DEF SeedPlayer, SeedCharacter, Seeding, Inv, TypeOK
  <2>. QED
    BY <1>2, <2>1 DEF SeedPlayer, SeedCharacter, Statement
<1>3. CASE SeedLink
  <2>1. Config[seed.i].player \in Players /\ seed.id \in Nat
    BY <1>3 DEF SeedLink, Seeding, Inv, TypeOK
  <2>. QED
    BY <1>3, <2>1 DEF SeedLink, Statement
<1>4. ASSUME NEW n \in Names, DeleteRequest(n)
      PROVE  Statement
  BY <1>4 DEF DeleteRequest, Statement
<1>5. ASSUME NEW b \in Batches, Prune(b)
      PROVE  Statement
  BY <1>5 DEF Prune, Statement
<1>6. ASSUME NEW w \in Workers, Upsert(w)
      PROVE  Statement
  <2>1. worker[w].name \in Names
    BY <1>0 DEF ServiceTypeOK, WorkerType
  <2>. QED
    BY <1>6, <2>1 DEF Upsert, Statement
<1>7. ASSUME NEW w \in Workers, NEW r \in worker[w].todo, StoreRun(w, r)
      PROVE  Statement
  <2>1. worker[w].name \in Names /\ worker[w].id \in Nat /\ r \in Reports
    BY <1>0 DEF ServiceTypeOK, WorkerType
  <2>2. Carries(worker[w].id, worker[w].name)
    BY <1>7 DEF StoreRun, Inv, CarriedIdsAreNotReused
  <2>. QED
    BY <1>7, <2>1, <2>2 DEF StoreRun, Statement
<1>8. ASSUME NEW g \in Pulls, UpsertMember(g)
      PROVE  Statement
  <2>1. pull[g].member.name \in Names /\ pull[g].guild \in Guilds \cup {NoGuild}
    BY <1>0 DEF ServiceTypeOK, PullType, Members
  <2>. QED
    BY <1>8, <2>1 DEF UpsertMember, Statement
<1>9. ASSUME NEW g \in Pulls, LinkMember(g)
      PROVE  Statement
  <2>1. PICK p : p = PlayerOf(pull[g].member.name)
    OBVIOUS
  <2>2. LinkPlayerCharacter(p, pull[g].id) /\ pull[g].id \in Nat
    BY <1>0, <1>9, <2>1 DEF LinkMember, ServiceTypeOK, PullType
  <2>3. p \in Players
    BY <2>2 DEF LinkPlayerCharacter, CanLink, Inv, TypeOK, DatabaseTypeOK
  <2>. QED
    BY <2>2, <2>3 DEF Statement
<1>. QED
  BY <1>1, <1>2, <1>3, <1>4, <1>5, <1>6, <1>7, <1>8, <1>9
  DEF Next, vars, Boot, Start, Serve, SeedFails, Environment, Crash, Request, RequestCharacter,
      StartAll, RequestGuild, UpstreamChanges, ClientLeaves, CancelRequest, AbandonAll,
      CancelGuild, Tasks, Acquire, WorkerStep, FetchProfile, FetchGone, FetchFails, SkipRun,
      StoreRefused, StatementFails, Finish, BatchStep, Join, JoinGone, PruneFails, AllDone,
      AcquireForGuild, PullStep, FetchRoster, FetchRosterFails, NextMember, FindMember,
      LeaveUnlinked, GuildStatementFails, FinishGuild

\* What no statement undoes while a row lives: the row's guild, its links and
\* its runs; links go with their row and players stay.
RecordsKept ==
  /\ players \subseteq players'
  /\ \A i \in DOMAIN characters \cap DOMAIN characters' :
       characters[i].guild # NoGuild => characters'[i].guild # NoGuild
  /\ \A l \in links : l[2] \in DOMAIN characters' => l \in links'
  /\ \A l \in links \cap links' :
       l[2] \in DOMAIN characters => l[2] \in DOMAIN characters'
  /\ \A h \in DOMAIN runs :
       runs[h].character_id \in DOMAIN characters' => h \in DOMAIN runs'

LEMMA StatementLemma ==
  ASSUME DbInv, Statement
  PROVE  IdsAreStable /\ RecordsKept
<1>1. CASE UNCHANGED tables
  BY <1>1, NoStatementLemma DEF tables, RecordsKept
<1>2. ASSUME NEW n \in Names, NEW guild \in Guilds \cup {NoGuild}, UpsertCharacter(n, guild)
      PROVE  IdsAreStable /\ RecordsKept
  <2>0. PICK id : id = UpsertedId(n)
    OBVIOUS
  <2>1. /\ DOMAIN characters' = DOMAIN characters \cup {id}
        /\ characters'[id].guild = CoalescedGuild(n, guild)
        /\ \A i \in DOMAIN characters : i # id => characters'[i] = characters[i]
        /\ UNCHANGED <<players, links, runs>>
    BY <1>2, <2>0 DEF UpsertCharacter
  <2>2. id \in DOMAIN characters => Known(n)
    BY <2>0 DEF UpsertedId, DbInv, DatabaseTypeOK
  <2>3. id \in DOMAIN characters /\ characters[id].guild # NoGuild
          => characters'[id].guild # NoGuild
    BY <2>0, <2>1, <2>2, DatabaseAssumption DEF DatabaseAssumption, CoalescedGuild
  <2>. QED
    BY <1>2, <2>1, <2>3, UpsertCharacterLemma DEF RecordsKept
<1>3. ASSUME NEW n \in Names, NEW id \in Nat, NEW r \in Reports, Carries(id, n),
             InsertRun(id, n, r)
      PROVE  IdsAreStable /\ RecordsKept
  BY <1>3, InsertRunLemma DEF InsertRun, RecordsKept
<1>4. ASSUME NEW p \in Players, UpsertPlayer(p)
      PROVE  IdsAreStable /\ RecordsKept
  BY <1>4, UpsertPlayerLemma DEF UpsertPlayer, RecordsKept
<1>5. ASSUME NEW p \in Players, NEW id \in Nat, LinkPlayerCharacter(p, id)
      PROVE  IdsAreStable /\ RecordsKept
  BY <1>5, LinkLemma DEF LinkPlayerCharacter, RecordsKept
<1>6. ASSUME NEW n, DeleteCharacter(n)
      PROVE  IdsAreStable /\ RecordsKept
  BY <1>6, DeleteCharacterLemma DEF DeleteCharacter, RecordsKept
<1>. QED
  BY <1>1, <1>2, <1>3, <1>4, <1>5, <1>6 DEF Statement

LEMMA StepKeepsRecords ==
  ASSUME Inv, [Next]_vars
  PROVE  IdsAreStable /\ RecordsKept
BY OneStatement, StatementLemma DEF Inv, TypeOK, DbInv

\* The seeding and the updates, which know of no guild, never erase one: the
\* COALESCE of upsert_character (db.rs) covers every caller.
THEOREM GuildsStay == Spec => GuildIsNotErased
<1>1. Inv /\ [Next]_vars =>
        [\A id \in DOMAIN characters \cap DOMAIN characters' :
           characters[id].guild # NoGuild => characters'[id].guild # NoGuild]_vars
  BY StepKeepsRecords DEF RecordsKept
<1>. QED
  BY <1>1, Invariance, PTL DEF Spec, GuildIsNotErased

-----------------------------------------------------------------------------
(* Declarations.                                                           *)

LEMMA LastExists ==
  ASSUME NEW n \in Nat, NEW S, S \subseteq 1 .. n, S # {}
  PROVE  \E x \in S : \A y \in S : y <= x
<1> DEFINE gaps == {n - i : i \in S}
<1>1. gaps \subseteq Nat /\ gaps # {}
  <2>1. \A i \in S : n - i \in Nat
    OBVIOUS
  <2>. QED
    BY <2>1
<1>2. PICK t \in gaps : \A u \in gaps : t <= u
  <2>. HIDE DEF gaps
  <2>. QED BY <1>1, LeastExists
<1>3. PICK x \in S : t = n - x
  OBVIOUS
<1>4. ASSUME NEW y \in S
      PROVE  y <= x
  <2>1. n - y \in gaps
    OBVIOUS
  <2>2. n - x <= n - y
    BY <1>2, <1>3, <2>1
  <2>3. x \in Nat /\ y \in Nat
    OBVIOUS
  <2>. QED
    BY <2>2, <2>3
<1>. QED
  BY <1>4

ConfigRows == 1 .. Len(Config)

\* player_map answers with a declaration of the character it is asked about.
LEMMA PlayerOfLemma ==
  ASSUME NEW n \in Names, Declared(n)
  PROVE  \E i \in ConfigRows : Config[i].player = PlayerOf(n) /\ Lower[Config[i].name] = Lower[n]
<1>1. DOMAIN Config = ConfigRows
  <2> DEFINE Declaration == [player : Players, name : Names]
  <2>1. Config \in Seq(Declaration)
    BY ServiceAssumption DEF ServiceAssumption
  <2>. HIDE DEF Declaration
  <2>. QED BY <2>1 DEF ConfigRows
<1>2. DeclarationsOf(n) \subseteq ConfigRows /\ DeclarationsOf(n) # {}
  BY <1>1 DEF Declared, DeclarationsOf
<1>3. \E i \in DeclarationsOf(n) : \A j \in DeclarationsOf(n) : j <= i
  BY <1>2, ConfigType, LastExists DEF ConfigRows
<1>4. PICK i : i = CHOOSE k \in DeclarationsOf(n) : \A j \in DeclarationsOf(n) : j <= k
  OBVIOUS
<1>5. i \in DeclarationsOf(n)
  BY <1>3, <1>4
<1>6. PlayerOf(n) = Config[i].player
  BY <1>4 DEF PlayerOf
<1>. QED
  BY <1>2, <1>5, <1>6 DEF DeclarationsOf

\* It does not matter in which case the name is spelled.
LEMMA PlayerOfLower ==
  ASSUME NEW n \in Names
  PROVE  /\ Declared(Lower[n]) <=> Declared(n)
         /\ PlayerOf(Lower[n]) = PlayerOf(n)
<1>1. DeclarationsOf(Lower[n]) = DeclarationsOf(n)
  BY LowerType DEF DeclarationsOf
<1>. QED
  BY <1>1 DEF Declared, PlayerOf

-----------------------------------------------------------------------------
(* The inductive invariant.                                                *)

\* Nothing runs until the listener is open, and a crash takes every task.
TasksNeedServer ==
  server # "up" =>
    /\ \A w \in Workers : worker[w].pc = "idle"
    /\ \A b \in Batches : batch[b].pc = "idle"
    /\ \A g \in Pulls : pull[g] = IdlePull

\* The seeding has written the declarations it has passed.
PlayersOnFile ==
  \A i \in ConfigRows :
    \/ server = "up"
    \/ server = "seeding" /\ i < seed.i
    \/ server = "seeding" /\ i = seed.i /\ seed.pc # "player"
    => Config[i].player \in players

SeededSoFar ==
  server = "seeding" => \A i \in ConfigRows : i < seed.i =>
    \E id \in IdsOf(Config[i].name) : <<Config[i].player, id>> \in links

\* A worker starts inserting with every report still to do.
FetchedAsAWhole ==
  \A w \in Workers : worker[w].pc = "upserting" => worker[w].fetched = worker[w].todo

\* A pull knows its guild, remembers only ids that were given out, and links
\* only after the row has its guild.
PullsAreSound ==
  \A g \in Pulls :
    /\ pull[g].pc # "idle" => pull[g].guild \in Guilds
    /\ \A id \in pull[g].done : id \in 1 .. lastId
    /\ pull[g].pc = "linking" /\ pull[g].id \in DOMAIN characters =>
         characters[pull[g].id].guild # NoGuild

RecordInv ==
  /\ Inv
  /\ TasksNeedServer /\ PlayersOnFile /\ SeededSoFar
  /\ FetchedAsAWhole /\ HandledRunsAreStored
  /\ PullsAreSound /\ PassedMembersAreRecorded
  /\ LinksAreDeclared

LEMMA RecordInvInit == Init => RecordInv
<1>. SUFFICES ASSUME Init PROVE RecordInv
  OBVIOUS
<1>1. TasksNeedServer /\ PlayersOnFile /\ SeededSoFar
  BY DEF Init, ServiceInit, IdleWorker, IdleBatch, TasksNeedServer, PlayersOnFile, SeededSoFar
<1>2. FetchedAsAWhole /\ HandledRunsAreStored
  BY DEF Init, ServiceInit, IdleWorker, FetchedAsAWhole, HandledRunsAreStored
<1>3. PullsAreSound /\ PassedMembersAreRecorded
  BY DEF Init, ServiceInit, IdlePull, PullsAreSound, PassedMembersAreRecorded
<1>4. LinksAreDeclared
  BY DEF Init, DatabaseInit, LinksAreDeclared
<1>. QED
  BY <1>1, <1>2, <1>3, <1>4, InitInv DEF RecordInv

-----------------------------------------------------------------------------
(* Tasks need the server.                                                  *)

LEMMA NothingRuns ==
  ASSUME TasksNeedServer, server # "up"
  PROVE  ~Tasks /\ ~ClientLeaves
<1>0. /\ \A w \in Workers : worker[w].pc = "idle"
      /\ \A b \in Batches : batch[b].pc = "idle"
      /\ \A g \in Pulls : pull[g].pc = "idle"
  BY DEF TasksNeedServer, IdlePull
<1>1. ASSUME NEW w \in Workers
      PROVE  ~Acquire(w) /\ ~WorkerStep(w)
  BY <1>0 DEF Acquire, WorkerStep, FetchProfile, FetchGone, FetchFails, Upsert, SkipRun, StoreRun,
              StoreRefused, StatementFails, Finish
<1>2. ASSUME NEW b \in Batches
      PROVE  ~BatchStep(b)
  BY <1>0 DEF BatchStep, Join, JoinGone, Prune, PruneFails, AllDone
<1>3. ASSUME NEW g \in Pulls
      PROVE  ~AcquireForGuild(g) /\ ~PullStep(g)
  BY <1>0 DEF AcquireForGuild, PullStep, FetchRoster, FetchRosterFails, NextMember, FindMember,
              UpsertMember, LinkMember, LeaveUnlinked, GuildStatementFails, FinishGuild
<1>4. ~ClientLeaves
  BY <1>0 DEF ClientLeaves, CancelRequest, AbandonAll, CancelGuild, Workers
<1>. QED
  BY <1>1, <1>2, <1>3, <1>4 DEF Tasks

LEMMA TasksNeedServerNext ==
  ASSUME TasksNeedServer, ServiceTypeOK, [Next]_vars
  PROVE  TasksNeedServer'
<1>1. CASE server' = "up"
  BY <1>1 DEF TasksNeedServer
<1>2. CASE Crash
  BY <1>2 DEF Crash, TasksNeedServer, IdleWorker, IdleBatch
<1>3. CASE server' # "up" /\ ~Crash
  <2>1. server # "up"
    BY <1>3 DEF Next, vars, Boot, Start, SeedPlayer, SeedCharacter, SeedLink, Serve, SeedFails,
                Environment, Request, UpstreamChanges, DeleteRequest
  <2>2. ~Request /\ (\A n \in Names : ~DeleteRequest(n))
    BY <2>1 DEF Request, DeleteRequest
  <2>3. ~Tasks /\ ~ClientLeaves
    BY <2>1, NothingRuns
  <2>4. UNCHANGED <<worker, batch, pull>>
    BY <1>3, <2>2, <2>3
    DEF Next, vars, service, Boot, Start, SeedPlayer, SeedCharacter, SeedLink, Serve, SeedFails,
        Environment, UpstreamChanges
  <2>. QED
    BY <2>1, <2>4 DEF TasksNeedServer
<1>. QED
  BY <1>1, <1>2, <1>3

\* Until the listener is open only the seeding issues statements: no row goes.
LEMMA SeedingKeepsRows ==
  ASSUME Inv, TasksNeedServer, [Next]_vars, server # "up"
  PROVE  DOMAIN characters \subseteq DOMAIN characters'
<1>1. \A n \in Names : ~DeleteRequest(n)
  BY DEF DeleteRequest
<1>2. ~Tasks
  BY NothingRuns
<1>. QED
  BY <1>1, <1>2
  DEF Next, vars, tables, Boot, Start, SeedPlayer, SeedCharacter, SeedLink, Serve, SeedFails,
      Environment, Crash, Request, RequestCharacter, StartAll, RequestGuild, UpstreamChanges,
      ClientLeaves, CancelRequest, AbandonAll, CancelGuild, UpsertPlayer, UpsertCharacter,
      LinkPlayerCharacter

\* Outside Boot, SeedFails and Crash the seeding stands where it stood.
LEMMA SeedMoves ==
  ASSUME [Next]_vars
  PROVE  Boot \/ server' = "down" \/ UNCHANGED <<server, seed>>
BY DEF Next, vars, SeedFails, Environment, Crash, Request, UpstreamChanges, DeleteRequest

LEMMA PlayersOnFileNext ==
  ASSUME Inv, PlayersOnFile, [Next]_vars
  PROVE  PlayersOnFile'
<1>. USE ConfigType DEF ConfigRows
<1>1. players \subseteq players'
  BY StepKeepsRecords DEF RecordsKept
<1>2. seed.i \in Nat
  BY DEF Inv, TypeOK
<1>3. CASE server' = "down" \/ UNCHANGED <<server, seed>>
  BY <1>1, <1>3 DEF PlayersOnFile
<1>4. CASE Start
  BY <1>4 DEF Start, SeedStart, PlayersOnFile
<1>5. CASE SeedPlayer
  <2>1. server = "seeding" /\ server' = "seeding" /\ seed'.i = seed.i
    BY <1>5 DEF SeedPlayer, Seeding, Inv, TypeOK
  <2>2. Config[seed.i].player \in players'
    BY <1>5 DEF SeedPlayer, UpsertPlayer
  <2>. QED
    BY <1>1, <1>2, <2>1, <2>2 DEF PlayersOnFile
<1>6. CASE SeedCharacter
  <2>1. /\ server = "seeding" /\ server' = "seeding" /\ seed'.i = seed.i
        /\ seed.pc = "character"
    BY <1>6 DEF SeedCharacter, Seeding, Inv, TypeOK
  <2>. QED
    BY <1>1, <1>2, <2>1 DEF PlayersOnFile
<1>7. CASE SeedLink
  <2>1. /\ server = "seeding" /\ server' = "seeding" /\ seed'.i = seed.i + 1
        /\ seed.pc = "link"
        /\ seed'.pc # "player" => Config[seed.i + 1].player = Config[seed.i].player
    BY <1>7 DEF SeedLink, Seeding, SamePlayerNext
  <2>2. seed.i \in ConfigRows
    BY <1>7, <1>2 DEF SeedLink, Seeding, Inv, TypeOK
  <2>3. \A i \in ConfigRows : i <= seed.i => Config[i].player \in players
    BY <1>2, <2>1 DEF PlayersOnFile
  <2>. QED
    BY <1>1, <1>2, <2>1, <2>2, <2>3 DEF PlayersOnFile
<1>8. CASE Serve
  BY <1>1, <1>8 DEF Serve, PlayersOnFile
<1>. QED
  BY <1>3, <1>4, <1>5, <1>6, <1>7, <1>8, SeedMoves DEF Boot

LEMMA SeededSoFarNext ==
  ASSUME Inv, TasksNeedServer, SeededSoFar, [Next]_vars
  PROVE  SeededSoFar'
<1>. USE ConfigType DEF ConfigRows
<1>1. IdsAreStable /\ RecordsKept
  BY StepKeepsRecords
<1>2. seed.i \in Nat
  BY DEF Inv, TypeOK
<1>3. ASSUME server = "seeding", NEW i \in ConfigRows, i < seed.i
      PROVE  \E id \in IdsOf(Config[i].name)' : <<Config[i].player, id>> \in links'
  <2>1. PICK id \in IdsOf(Config[i].name) : <<Config[i].player, id>> \in links
    BY <1>3 DEF SeededSoFar
  <2>2. id \in DOMAIN characters /\ id \in DOMAIN characters'
    BY <1>3, <2>1, SeedingKeepsRows DEF IdsOf
  <2>3. characters'[id].name = characters[id].name
    BY <1>1, <2>2 DEF IdsAreStable, Inv, TypeOK, DatabaseTypeOK
  <2>4. id \in IdsOf(Config[i].name)'
    BY <2>1, <2>2, <2>3 DEF IdsOf, Normalised
  <2>5. <<Config[i].player, id>> \in links'
    BY <1>1, <2>1, <2>2 DEF RecordsKept
  <2>. QED
    BY <2>4, <2>5
<1>4. CASE server' = "down" \/ UNCHANGED <<server, seed>>
  BY <1>3, <1>4 DEF SeededSoFar
<1>5. CASE Start
  BY <1>5 DEF Start, SeedStart, SeededSoFar
<1>6. CASE SeedPlayer \/ SeedCharacter
  <2>1. server = "seeding" /\ seed'.i = seed.i
    BY <1>6 DEF SeedPlayer, SeedCharacter, Seeding, Inv, TypeOK
  <2>. QED
    BY <1>3, <2>1 DEF SeededSoFar
<1>7. CASE SeedLink
  <2>1. server = "seeding" /\ seed'.i = seed.i + 1
    BY <1>7 DEF SeedLink, Seeding
  <2>2. /\ <<Config[seed.i].player, seed.id>> \in links'
        /\ seed.id \in DOMAIN characters /\ characters' = characters
    BY <1>7 DEF SeedLink, LinkPlayerCharacter, CanLink
  <2>3. PICK k, id : k = seed.i /\ id = seed.id
    OBVIOUS
  <2>4. characters[id].name = Lower[Config[k].name]
    BY <1>7, <2>2, <2>3 DEF SeedLink, Inv, CarriedIdsAreNotReused, Carries
  <2>5. id \in IdsOf(Config[k].name)' /\ <<Config[k].player, id>> \in links'
    BY <2>2, <2>3, <2>4 DEF IdsOf, Normalised
  <2>6. \A i \in ConfigRows : i < seed'.i => i < k \/ i = k
    BY <1>2, <2>1, <2>3
  <2>. QED
    BY <1>3, <2>1, <2>3, <2>5, <2>6 DEF SeededSoFar
<1>8. CASE Serve
  BY <1>8 DEF Serve, SeededSoFar
<1>. QED
  BY <1>4, <1>5, <1>6, <1>7, <1>8, SeedMoves DEF Boot

-----------------------------------------------------------------------------
(* Links.                                                                  *)

LEMMA LinksAreDeclaredNext ==
  ASSUME Inv, LinksAreDeclared, [Next]_vars
  PROVE  LinksAreDeclared'
<1>. USE ConfigType DEF ConfigRows, ConfigEntry
<1>1. IdsAreStable /\ RecordsKept
  BY StepKeepsRecords
<1>2. ASSUME NEW l \in links, l \in links'
      PROVE  /\ l[2] \in DOMAIN characters'
             /\ \E i \in 1 .. Len(Config) :
                  Config[i].player = l[1] /\ Lower[Config[i].name] = characters'[l[2]].name
  <2>1. l[2] \in DOMAIN characters /\ l[2] \in DOMAIN characters'
    BY <1>1, <1>2 DEF LinksAreDeclared, RecordsKept
  <2>2. characters'[l[2]].name = characters[l[2]].name
    BY <1>1, <2>1 DEF IdsAreStable, Inv, TypeOK, DatabaseTypeOK
  <2>. QED
    BY <1>2, <2>1, <2>2 DEF LinksAreDeclared
<1>3. CASE SeedLink
  <2>1. /\ links' = links \cup {<<Config[seed.i].player, seed.id>>}
        /\ seed.id \in DOMAIN characters /\ characters' = characters
    BY <1>3 DEF SeedLink, LinkPlayerCharacter, CanLink
  <2>2. characters[seed.id].name = Lower[Config[seed.i].name]
    BY <1>3, <2>1 DEF SeedLink, Inv, CarriedIdsAreNotReused, Carries
  <2>3. seed.i \in 1 .. Len(Config)
    BY <1>3 DEF SeedLink, Seeding, Inv, TypeOK
  <2>. QED
    BY <1>2, <2>1, <2>2, <2>3 DEF LinksAreDeclared
<1>4. ASSUME NEW g \in Pulls, LinkMember(g)
      PROVE  LinksAreDeclared'
  <2>0. PICK n, id : n = pull[g].member.name /\ id = pull[g].id
    OBVIOUS
  <2>1. n \in Names /\ Declared(n)
    BY <1>4, <2>0 DEF LinkMember, Linkable, Inv, TypeOK, ServiceTypeOK, PullType, Members
  <2>2. /\ links' = links \cup {<<PlayerOf(n), id>>}
        /\ id \in DOMAIN characters /\ characters' = characters
    BY <1>4, <2>0 DEF LinkMember, LinkPlayerCharacter, CanLink
  <2>3. characters[id].name = Lower[n]
    BY <1>4, <2>0, <2>2 DEF LinkMember, Inv, CarriedIdsAreNotReused, Carries
  <2>4. PICK i \in ConfigRows : Config[i].player = PlayerOf(n) /\ Lower[Config[i].name] = Lower[n]
    BY <2>1, PlayerOfLemma
  <2>. QED
    BY <1>2, <2>2, <2>3, <2>4 DEF LinksAreDeclared
<1>5. CASE links' \subseteq links
  BY <1>2, <1>5 DEF LinksAreDeclared
<1>6. (\A g \in Pulls : ~LinkMember(g)) /\ ~SeedLink => links' \subseteq links
  BY DEF Next, vars, tables, Boot, Start, SeedPlayer, SeedCharacter, Serve, SeedFails, Environment,
        Crash, Request, RequestCharacter, StartAll, RequestGuild, UpstreamChanges, DeleteRequest,
        ClientLeaves, CancelRequest, AbandonAll, CancelGuild, Tasks, Acquire, WorkerStep,
        FetchProfile, FetchGone, FetchFails, Upsert, SkipRun, StoreRun, StoreRefused,
        StatementFails, Finish, Return, BatchStep, Join, JoinGone, Prune, PruneFails, AllDone,
        AcquireForGuild, PullStep, FetchRoster, FetchRosterFails, NextMember, FindMember,
        UpsertMember, LeaveUnlinked, GuildStatementFails, FinishGuild,
        InsertRun, UpsertPlayer, UpsertCharacter, DeleteCharacter
<1>. QED
  BY <1>3, <1>4, <1>5, <1>6

-----------------------------------------------------------------------------
(* Runs.                                                                   *)

\* What a step may do to a worker that has reports in hand.
RunsHandled(w) ==
  /\ worker'[w].pc = "upserting" => worker'[w].fetched = worker'[w].todo
  /\ worker'[w].pc = "inserting" =>
       \/ worker'[w].fetched = worker'[w].todo
       \/ /\ worker[w].pc = "inserting"
          /\ worker'[w].id = worker[w].id
          /\ worker'[w].name = worker[w].name
          /\ worker'[w].fetched = worker[w].fetched
          /\ \A r \in worker[w].todo \ worker'[w].todo :
               r.key \notin Unparsable => run_hash(worker[w].name, r) \in DOMAIN runs'

LEMMA WorkerHandlesRuns ==
  ASSUME ServiceTypeOK, FetchedAsAWhole, NEW w \in Workers, Acquire(w) \/ WorkerStep(w)
  PROVE  \A v \in Workers : RunsHandled(v)
<1>0. worker[w] \in WorkerType
  BY DEF ServiceTypeOK
<1>1. ASSUME NEW task, worker' = [worker EXCEPT ![w] = task], RunsHandled(w)
      PROVE  \A v \in Workers : RunsHandled(v)
  BY <1>1 DEF ServiceTypeOK, FetchedAsAWhole, RunsHandled
<1>2. CASE Acquire(w)
  BY <1>0, <1>1, <1>2 DEF Acquire, RunsHandled, ServiceTypeOK, WorkerType
<1>3. CASE FetchProfile(w)
  <2>1. PICK reports \in Profiles :
          worker' = [worker EXCEPT ![w].pc = "upserting", ![w].fetched = reports,
                                   ![w].todo = reports]
    BY <1>3 DEF FetchProfile
  <2>2. PICK task : task = [worker[w] EXCEPT !.pc = "upserting", !.fetched = reports,
                                             !.todo = reports]
    OBVIOUS
  <2>3. worker' = [worker EXCEPT ![w] = task]
    BY <2>1, <2>2 DEF ServiceTypeOK
  <2>4. task.pc = "upserting" /\ task.fetched = task.todo
    BY <1>0, <2>2 DEF WorkerType
  <2>5. RunsHandled(w)
    BY <2>3, <2>4 DEF RunsHandled, ServiceTypeOK
  <2>. QED
    BY <1>1, <2>3, <2>5
<1>4. CASE Upsert(w)
  <2>1. PICK task : task = [worker[w] EXCEPT !.pc = "inserting",
                                             !.id = UpsertedId(worker[w].name)]
    OBVIOUS
  <2>2. worker' = [worker EXCEPT ![w] = task]
    BY <1>4, <2>1 DEF ServiceTypeOK, Upsert
  <2>3. task.fetched = task.todo /\ task.pc = "inserting"
    BY <1>0, <1>4, <2>1 DEF WorkerType, Upsert, FetchedAsAWhole
  <2>4. RunsHandled(w)
    BY <2>2, <2>3 DEF RunsHandled, ServiceTypeOK
  <2>. QED
    BY <1>1, <2>2, <2>4
<1>5. ASSUME NEW r \in worker[w].todo, SkipRun(w, r) \/ StoreRun(w, r)
      PROVE  \A v \in Workers : RunsHandled(v)
  <2>1. PICK task : task = [worker[w] EXCEPT !.todo = @ \ {r}]
    OBVIOUS
  <2>2. worker' = [worker EXCEPT ![w] = task] /\ worker[w].pc = "inserting"
    BY <1>5, <2>1 DEF ServiceTypeOK, SkipRun, StoreRun
  <2>3. r.key \notin Unparsable => run_hash(worker[w].name, r) \in DOMAIN runs'
    BY <1>5 DEF SkipRun, StoreRun, InsertRun
  <2>4. /\ task.pc = worker[w].pc /\ task.id = worker[w].id /\ task.name = worker[w].name
        /\ task.fetched = worker[w].fetched /\ task.todo = worker[w].todo \ {r}
    BY <1>0, <2>1 DEF WorkerType
  <2>5. worker'[w] = task
    BY <2>2 DEF ServiceTypeOK
  <2>6. RunsHandled(w)
    BY <2>2, <2>3, <2>4, <2>5 DEF RunsHandled
  <2>. QED
    BY <1>1, <2>2, <2>6
<1>6. ASSUME NEW outcome, Return(w, outcome)
      PROVE  \A v \in Workers : RunsHandled(v)
  <2> DEFINE result ==
        IF w \in Children /\ batch[w[1]].pc # "idle"
        THEN [IdleWorker EXCEPT !.pc = "returned", !.name = worker[w].name, !.outcome = outcome]
        ELSE IdleWorker
  <2>1. worker' = [worker EXCEPT ![w] = result]
    BY <1>6 DEF Return
  <2>2. result.pc \in {"idle", "returned"}
    BY DEF IdleWorker
  <2>. HIDE DEF result
  <2>3. RunsHandled(w)
    BY <2>1, <2>2 DEF RunsHandled, ServiceTypeOK
  <2>. QED
    BY <1>1, <2>1, <2>3
<1>. QED
  BY <1>2, <1>3, <1>4, <1>5, <1>6
  DEF WorkerStep, FetchGone, FetchFails, StoreRefused, StatementFails, Finish

LEMMA StepHandlesRuns ==
  ASSUME Inv, FetchedAsAWhole, [Next]_vars
  PROVE  \A w \in Workers : RunsHandled(w)
<1>0. ServiceTypeOK
  BY DEF Inv, TypeOK
<1>1. ASSUME NEW w \in Workers,
             worker'[w] = worker[w] \/ worker'[w].pc \in {"idle", "waiting"}
      PROVE  RunsHandled(w)
  BY <1>1 DEF RunsHandled, FetchedAsAWhole
<1>2. ASSUME NEW w \in Workers, Acquire(w) \/ WorkerStep(w)
      PROVE  \A v \in Workers : RunsHandled(v)
  BY <1>0, <1>2, WorkerHandlesRuns
<1>3. ASSUME NEW q \in Requests, \/ CancelRequest(q)
                                 \/ \E n \in Names : RequestCharacter(q, n)
      PROVE  \A v \in Workers : RunsHandled(v)
  <2>1. CASE CancelRequest(q)
    BY <1>0, <1>1, <2>1 DEF CancelRequest, IdleWorker, ServiceTypeOK
  <2>2. ASSUME NEW n \in Names, RequestCharacter(q, n)
        PROVE  \A v \in Workers : RunsHandled(v)
    <3>1. PICK task : task = [IdleWorker EXCEPT !.pc = "waiting", !.name = n]
      OBVIOUS
    <3>2. worker' = [worker EXCEPT ![q] = task] /\ task.pc = "waiting"
      BY <2>2, <3>1 DEF RequestCharacter, IdleWorker
    <3>. QED
      BY <1>0, <1>1, <3>2 DEF ServiceTypeOK
  <2>. QED
    BY <1>3, <2>1, <2>2
<1>4. ASSUME NEW b \in Batches, StartAll(b) \/ AbandonAll(b) \/ Joined(b)
      PROVE  \A v \in Workers : RunsHandled(v)
  <2>1. CASE StartAll(b)
    BY <1>1, <2>1 DEF StartAll, IdleWorker
  <2>2. CASE AbandonAll(b)
    BY <1>1, <2>2 DEF AbandonAll, IdleWorker
  <2>3. CASE Joined(b)
    <3>1. \A v \in Workers : worker'[v] = worker[v] \/ worker'[v] = IdleWorker
      BY <1>0, <2>3 DEF Joined, ServiceTypeOK
    <3>. QED
      BY <1>1, <3>1 DEF IdleWorker
  <2>. QED
    BY <1>4, <2>1, <2>2, <2>3
<1>5. CASE Crash
  <2>1. \A v \in Workers : worker'[v].pc = "idle"
    BY <1>5 DEF Crash, IdleWorker
  <2>. QED
    BY <1>1, <2>1
<1>6. CASE UNCHANGED worker
  BY <1>1, <1>6
<1>. QED
  BY <1>2, <1>3, <1>4, <1>5, <1>6
  DEF Next, vars, service, Boot, Start, SeedPlayer, SeedCharacter, SeedLink, Serve, SeedFails,
      Environment, Request, RequestGuild, UpstreamChanges, DeleteRequest, ClientLeaves,
      CancelGuild, Tasks, BatchStep, Join, JoinGone, Prune, PruneFails, AllDone,
      AcquireForGuild, PullStep, FetchRoster, FetchRosterFails, NextMember, FindMember,
      UpsertMember, LinkMember, LeaveUnlinked, GuildStatementFails, FinishGuild, ReturnGuild

LEMMA FetchedAsAWholeNext ==
  ASSUME Inv, FetchedAsAWhole, [Next]_vars
  PROVE  FetchedAsAWhole'
BY StepHandlesRuns DEF RunsHandled, FetchedAsAWhole

\* A run that is on file stays on file as long as the row of the name in its
\* hash does, and the id a worker carries is that row or none.
LEMMA HandledRunsAreStoredNext ==
  ASSUME Inv, FetchedAsAWhole, HandledRunsAreStored, [Next]_vars
  PROVE  HandledRunsAreStored'
<1>. SUFFICES ASSUME NEW w \in Workers, worker'[w].pc = "inserting",
                     worker'[w].id \in DOMAIN characters',
                     NEW r \in worker'[w].fetched \ worker'[w].todo, r.key \notin Unparsable
              PROVE  run_hash(worker'[w].name, r) \in DOMAIN runs'
  BY DEF HandledRunsAreStored, run_hash
<1>1. IdsAreStable /\ RecordsKept
  BY StepKeepsRecords
<1>2. /\ worker[w].pc = "inserting"
      /\ worker'[w].id = worker[w].id
      /\ worker'[w].name = worker[w].name
      /\ worker'[w].fetched = worker[w].fetched
      /\ r \in worker[w].todo => run_hash(worker[w].name, r) \in DOMAIN runs'
  BY StepHandlesRuns DEF RunsHandled
<1>3. CASE r \in worker[w].todo
  BY <1>2, <1>3
<1>4. CASE r \notin worker[w].todo
  <2>0. PICK id, h : id = worker[w].id /\ h = run_hash(worker[w].name, r)
    OBVIOUS
  <2>1. Carries(worker[w].id, worker[w].name) /\ lastId \in Nat
    BY <1>2 DEF Inv, CarriedIdsAreNotReused, TypeOK, DatabaseTypeOK
  <2>2. id \in DOMAIN characters /\ characters[id].name = Lower[worker[w].name]
    BY <1>1, <1>2, <2>0, <2>1 DEF IdsAreStable, Carries
  <2>3. h \in DOMAIN runs
    BY <1>2, <1>4, <2>0, <2>2 DEF HandledRunsAreStored
  <2>4. /\ runs[h].character_id \in DOMAIN characters
        /\ characters[runs[h].character_id].name = Lower[worker[w].name]
    BY <2>0, <2>3 DEF Inv, RunsBelongToTheirCharacter, run_hash
  <2>5. runs[h].character_id = id
    BY <2>2, <2>4 DEF Inv, OneRowPerCharacter
  <2>. QED
    BY <1>1, <1>2, <2>0, <2>3, <2>5 DEF RecordsKept
<1>. QED
  BY <1>3, <1>4

-----------------------------------------------------------------------------
(* Guild pulls.                                                            *)

\* What becomes of the member a pull was linking.
Passed(g) ==
  /\ pull[g].pc = "linking"
  /\ UNCHANGED characters
  /\ Declared(pull[g].member.name) /\ pull[g].id \in DOMAIN characters =>
       <<PlayerOf(pull[g].member.name), pull[g].id>> \in links'

\* What a step may do to a pull.
PullRecords(g) ==
  /\ pull'[g].pc # "idle" => pull'[g].guild \in Guilds
  /\ pull'[g].pc = "linking" =>
       \/ pull[g].pc = "linking" /\ pull'[g].id = pull[g].id
       \/ characters'[pull'[g].id].guild # NoGuild
  /\ \A id \in pull'[g].done : id \in pull[g].done \/ (id = pull[g].id /\ Passed(g))

\* With every declared player on file, a link that does not fail is left out
\* only for want of the row.
LEMMA LeftUnlinked ==
  ASSUME Inv, TasksNeedServer, PlayersOnFile, NEW g \in Pulls,
         LinkMember(g) \/ (LeaveUnlinked(g) /\ ~Linkable(g))
  PROVE  Passed(g)
<1>1. pull[g].pc = "linking" /\ UNCHANGED characters
  BY DEF LeaveUnlinked, LinkMember, LinkPlayerCharacter, tables
<1>2. PICK n, id : n = pull[g].member.name /\ id = pull[g].id
  OBVIOUS
<1>3. ASSUME Declared(n), id \in DOMAIN characters
      PROVE  <<PlayerOf(n), id>> \in links'
  <2>1. CASE LinkMember(g)
    BY <1>2, <2>1 DEF LinkMember, LinkPlayerCharacter
  <2>2. CASE ~Linkable(g)
    <3>1. ~CanLink(PlayerOf(n), id)
      BY <1>2, <1>3, <2>2 DEF Linkable
    <3>2. n \in Names
      BY <1>2 DEF Inv, TypeOK, ServiceTypeOK, PullType, Members
    <3>3. PICK i \in ConfigRows : Config[i].player = PlayerOf(n)
      BY <1>3, <3>2, PlayerOfLemma
    <3>4. server = "up"
      BY <1>1 DEF TasksNeedServer, IdlePull
    <3>5. PlayerOf(n) \in players
      BY <3>3, <3>4 DEF PlayersOnFile
    <3>. QED
      BY <1>3, <3>1, <3>5 DEF CanLink
  <2>. QED
    BY <2>1, <2>2
<1>. QED
  BY <1>1, <1>2, <1>3 DEF Passed

LEMMA PullStepRecords ==
  ASSUME Inv, TasksNeedServer, PlayersOnFile, PullsAreSound, NEW g \in Pulls,
         AcquireForGuild(g) \/ PullStep(g)
  PROVE  \A h \in Pulls : PullRecords(h)
<1>0. pull \in [Pulls -> PullType] /\ pull[g] \in PullType
  BY DEF Inv, TypeOK, ServiceTypeOK
<1>1. ASSUME NEW task, pull' = [pull EXCEPT ![g] = task], PullRecords(g)
      PROVE  \A h \in Pulls : PullRecords(h)
  BY <1>0, <1>1 DEF PullsAreSound, PullRecords
<1>2. ASSUME NEW task, pull' = [pull EXCEPT ![g] = task], pull[g].pc # "idle",
             task.guild = pull[g].guild, task.done = pull[g].done, task.pc # "linking"
      PROVE  \A h \in Pulls : PullRecords(h)
  <2>1. pull'[g] = task
    BY <1>0, <1>2
  <2>2. PullRecords(g)
    BY <1>2, <2>1 DEF PullsAreSound, PullRecords
  <2>. QED
    BY <1>1, <1>2, <2>2
<1>3. CASE AcquireForGuild(g) \/ FindMember(g)
  <2>1. PICK pc \in {"fetching", "upserting"} : pull' = [pull EXCEPT ![g].pc = pc]
    BY <1>3 DEF AcquireForGuild, FindMember
  <2>2. PICK task : task = [pull[g] EXCEPT !.pc = pc]
    OBVIOUS
  <2>3. /\ pull' = [pull EXCEPT ![g] = task] /\ pull[g].pc # "idle"
    BY <1>3, <2>1, <2>2 DEF AcquireForGuild, FindMember
  <2>4. task.guild = pull[g].guild /\ task.done = pull[g].done /\ task.pc # "linking"
    BY <1>0, <2>2 DEF PullType
  <2>. QED
    BY <1>2, <2>3, <2>4
<1>4. CASE FetchRoster(g)
  <2>1. PICK roster \in Rosters :
          pull' = [pull EXCEPT ![g].pc = "members", ![g].todo = roster]
    BY <1>4 DEF FetchRoster
  <2>2. PICK task : task = [pull[g] EXCEPT !.pc = "members", !.todo = roster]
    OBVIOUS
  <2>3. pull' = [pull EXCEPT ![g] = task] /\ pull[g].pc # "idle"
    BY <1>0, <1>4, <2>1, <2>2 DEF FetchRoster
  <2>4. task.guild = pull[g].guild /\ task.done = pull[g].done /\ task.pc # "linking"
    BY <1>0, <2>2 DEF PullType
  <2>. QED
    BY <1>2, <2>3, <2>4
<1>5. ASSUME NEW m \in pull[g].todo, NextMember(g, m)
      PROVE  \A h \in Pulls : PullRecords(h)
  <2>1. PICK task : task = [pull[g] EXCEPT !.pc = IF m.fresh THEN "upserting" ELSE "finding",
                                           !.todo = @ \ {m}, !.member = m]
    OBVIOUS
  <2>2. pull' = [pull EXCEPT ![g] = task] /\ pull[g].pc # "idle"
    BY <1>0, <1>5, <2>1 DEF NextMember
  <2>3. task.guild = pull[g].guild /\ task.done = pull[g].done /\ task.pc # "linking"
    BY <1>0, <2>1 DEF PullType
  <2>. QED
    BY <1>2, <2>2, <2>3
<1>6. CASE UpsertMember(g)
  <2>1. PICK id : id = UpsertedId(pull[g].member.name)
    OBVIOUS
  <2>2. PICK task : task = [pull[g] EXCEPT !.pc = "linking", !.id = id]
    OBVIOUS
  <2>3. pull' = [pull EXCEPT ![g] = task] /\ pull[g].pc # "idle"
    BY <1>0, <1>6, <2>1, <2>2 DEF UpsertMember
  <2>4. task.guild = pull[g].guild /\ task.done = pull[g].done /\ task.id = id
    BY <1>0, <2>2 DEF PullType
  <2>5. pull[g].guild \in Guilds
    BY <2>3 DEF PullsAreSound
  <2>6. characters'[id].guild # NoGuild
    BY <1>6, <2>1, <2>5, DatabaseAssumption
    DEF DatabaseAssumption, UpsertMember, UpsertCharacter, CoalescedGuild
  <2>7. pull'[g] = task
    BY <1>0, <2>3
  <2>8. PullRecords(g)
    BY <2>4, <2>5, <2>6, <2>7 DEF PullRecords
  <2>. QED
    BY <1>1, <2>3, <2>8
<1>7. CASE LinkMember(g) \/ (LeaveUnlinked(g) /\ ~Linkable(g))
  <2>1. Passed(g)
    BY <1>7, LeftUnlinked
  <2>2. PICK task : task = [pull[g] EXCEPT !.pc = "members", !.done = @ \cup {pull[g].id}]
    OBVIOUS
  <2>3. pull' = [pull EXCEPT ![g] = task] /\ pull[g].pc # "idle"
    BY <1>0, <1>7, <2>2 DEF LinkMember, LeaveUnlinked, MemberDone
  <2>4. /\ task.guild = pull[g].guild /\ task.pc # "linking"
        /\ task.done = pull[g].done \cup {pull[g].id}
    BY <1>0, <2>2 DEF PullType
  <2>5. pull'[g] = task /\ pull[g].guild \in Guilds
    BY <1>0, <2>3 DEF PullsAreSound
  <2>6. PullRecords(g)
    BY <2>1, <2>4, <2>5 DEF PullRecords
  <2>. QED
    BY <1>1, <2>3, <2>6
<1>8. CASE LeaveUnlinked(g) /\ Linkable(g)
  <2>1. PICK task : task = [pull[g] EXCEPT !.pc = "members"]
    OBVIOUS
  <2>2. pull' = [pull EXCEPT ![g] = task] /\ pull[g].pc # "idle"
    BY <1>0, <1>8, <2>1 DEF LeaveUnlinked
  <2>3. task.guild = pull[g].guild /\ task.done = pull[g].done /\ task.pc # "linking"
    BY <1>0, <2>1 DEF PullType
  <2>. QED
    BY <1>2, <2>2, <2>3
<1>9. CASE ReturnGuild(g)
  <2>1. pull'[g] = IdlePull
    BY <1>0, <1>9 DEF ReturnGuild
  <2>2. PullRecords(g)
    BY <2>1 DEF PullRecords, IdlePull
  <2>. QED
    BY <1>1, <1>9, <2>2 DEF ReturnGuild
<1>. QED
  BY <1>3, <1>4, <1>5, <1>6, <1>7, <1>8, <1>9
  DEF PullStep, FetchRosterFails, GuildStatementFails, FinishGuild

LEMMA StepRecords ==
  ASSUME Inv, TasksNeedServer, PlayersOnFile, PullsAreSound, [Next]_vars
  PROVE  \A g \in Pulls : PullRecords(g)
<1>0. pull \in [Pulls -> PullType]
  BY DEF Inv, TypeOK, ServiceTypeOK
<1>1. ASSUME NEW g \in Pulls, pull'[g] = pull[g] \/ pull'[g] = IdlePull
      PROVE  PullRecords(g)
  BY <1>1 DEF PullRecords, PullsAreSound, IdlePull
<1>2. ASSUME NEW g \in Pulls, AcquireForGuild(g) \/ PullStep(g)
      PROVE  \A h \in Pulls : PullRecords(h)
  BY <1>2, PullStepRecords
<1>3. ASSUME NEW g \in Pulls, CancelGuild(g)
      PROVE  \A h \in Pulls : PullRecords(h)
  BY <1>0, <1>1, <1>3 DEF CancelGuild
<1>4. ASSUME NEW g \in Pulls, NEW guild \in Guilds, RequestGuild(g, guild)
      PROVE  \A h \in Pulls : PullRecords(h)
  <2>1. PICK task : task = [IdlePull EXCEPT !.pc = "waiting", !.guild = guild]
    OBVIOUS
  <2>2. task.pc = "waiting" /\ task.guild = guild /\ task.done = {}
    BY <2>1 DEF IdlePull
  <2>3. pull'[g] = task /\ \A h \in Pulls : h # g => pull'[h] = pull[h]
    BY <1>0, <1>4, <2>1 DEF RequestGuild
  <2>4. PullRecords(g)
    BY <2>2, <2>3 DEF PullRecords
  <2>. QED
    BY <1>1, <2>3, <2>4
<1>5. CASE Crash
  BY <1>1, <1>5 DEF Crash
<1>6. CASE UNCHANGED pull
  BY <1>1, <1>6
<1>. QED
  BY <1>2, <1>3, <1>4, <1>5, <1>6
  DEF Next, vars, service, Boot, Start, SeedPlayer, SeedCharacter, SeedLink, Serve, SeedFails,
      Environment, Request, RequestCharacter, StartAll, UpstreamChanges, DeleteRequest,
      ClientLeaves, CancelRequest, AbandonAll, Tasks, Acquire, WorkerStep, FetchProfile,
      FetchGone, FetchFails, Upsert, SkipRun, StoreRun, StoreRefused, StatementFails, Finish,
      Return, BatchStep, Join, JoinGone, Prune, PruneFails, AllDone

\* The id a pull is linking was given out, and a row that exists after the
\* step under an id given out before it existed before it.
LEMMA OldRows ==
  ASSUME Inv, IdsAreStable, NEW id \in 1 .. lastId, id \in DOMAIN characters'
  PROVE  id \in DOMAIN characters /\ characters'[id].name = characters[id].name
<1>1. lastId \in Nat
  BY DEF Inv, TypeOK, DatabaseTypeOK
<1>. QED
  BY <1>1 DEF IdsAreStable

LEMMA PullsAreSoundNext ==
  ASSUME Inv, TasksNeedServer, PlayersOnFile, PullsAreSound, [Next]_vars
  PROVE  PullsAreSound'
<1>1. IdsAreStable /\ RecordsKept /\ \A g \in Pulls : PullRecords(g)
  BY StepKeepsRecords, StepRecords
<1>2. lastId \in Nat /\ 1 .. lastId \subseteq 1 .. lastId'
  BY <1>1 DEF IdsAreStable, Inv, TypeOK, DatabaseTypeOK
<1>3. ASSUME NEW g \in Pulls, pull[g].pc = "linking"
      PROVE  pull[g].id \in 1 .. lastId
  BY <1>3 DEF Inv, CarriedIdsAreNotReused, Carries
<1>4. ASSUME NEW g \in Pulls, NEW id \in pull'[g].done
      PROVE  id \in 1 .. lastId'
  BY <1>1, <1>2, <1>3, <1>4 DEF PullRecords, Passed, PullsAreSound
<1>5. ASSUME NEW g \in Pulls, pull'[g].pc = "linking", pull'[g].id \in DOMAIN characters'
      PROVE  characters'[pull'[g].id].guild # NoGuild
  <2>1. CASE pull[g].pc = "linking" /\ pull'[g].id = pull[g].id
    <3>1. pull[g].id \in DOMAIN characters
      BY <1>1, <1>3, <1>5, <2>1, OldRows
    <3>2. characters[pull[g].id].guild # NoGuild
      BY <2>1, <3>1 DEF PullsAreSound
    <3>. QED
      BY <1>1, <1>5, <2>1, <3>1, <3>2 DEF RecordsKept
  <2>. QED
    BY <1>1, <1>5, <2>1 DEF PullRecords
<1>. QED
  BY <1>1, <1>4, <1>5 DEF PullsAreSound, PullRecords

LEMMA PassedMembersNext ==
  ASSUME Inv, TasksNeedServer, PlayersOnFile, PullsAreSound, PassedMembersAreRecorded,
         [Next]_vars
  PROVE  PassedMembersAreRecorded'
<1>. SUFFICES ASSUME NEW g \in Pulls, NEW id \in pull'[g].done, id \in DOMAIN characters'
              PROVE  /\ characters'[id].guild # NoGuild
                     /\ Declared(characters'[id].name) =>
                          <<PlayerOf(characters'[id].name), id>> \in links'
  BY DEF PassedMembersAreRecorded
<1>1. IdsAreStable /\ RecordsKept /\ PullRecords(g)
  BY StepKeepsRecords, StepRecords
<1>2. CASE id \in pull[g].done
  <2>1. id \in DOMAIN characters /\ characters'[id].name = characters[id].name
    BY <1>1, <1>2, OldRows DEF PullsAreSound
  <2>2. PICK n : n = characters[id].name
    OBVIOUS
  <2>3. /\ characters[id].guild # NoGuild
        /\ Declared(n) => <<PlayerOf(n), id>> \in links
    BY <1>2, <2>1, <2>2 DEF PassedMembersAreRecorded
  <2>4. <<PlayerOf(n), id>> \in links => <<PlayerOf(n), id>> \in links'
    BY <1>1 DEF RecordsKept
  <2>. QED
    BY <1>1, <2>1, <2>2, <2>3, <2>4 DEF RecordsKept
<1>3. CASE id = pull[g].id /\ Passed(g)
  <2>1. characters' = characters /\ pull[g].pc = "linking" /\ id \in DOMAIN characters
    BY <1>3 DEF Passed
  <2>2. characters[id].guild # NoGuild
    BY <1>3, <2>1 DEF PullsAreSound
  <2>3. PICK n : n = pull[g].member.name
    OBVIOUS
  <2>4. n \in Names
    BY <2>3 DEF Inv, TypeOK, ServiceTypeOK, PullType, Members
  <2>5. characters[id].name = Lower[n]
    BY <1>3, <2>1, <2>3 DEF Inv, CarriedIdsAreNotReused, Carries
  <2>6. Declared(n) => <<PlayerOf(n), id>> \in links'
    BY <1>3, <2>1, <2>3 DEF Passed
  <2>. QED
    BY <2>1, <2>2, <2>4, <2>5, <2>6, PlayerOfLower
<1>. QED
  BY <1>1, <1>2, <1>3 DEF PullRecords

\* What is on record stays true under every step.
LEMMA RecordInvNext == RecordInv /\ [Next]_vars => RecordInv'
BY NextInv, TasksNeedServerNext, PlayersOnFileNext, SeededSoFarNext, FetchedAsAWholeNext,
   HandledRunsAreStoredNext, PullsAreSoundNext, PassedMembersNext, LinksAreDeclaredNext
DEF RecordInv, Inv, TypeOK

\* What tasks have passed is on file in every state.
LEMMA RecordInvariance == Spec => []RecordInv
BY RecordInvInit, RecordInvNext, PTL DEF Spec

-----------------------------------------------------------------------------
(* The results.                                                            *)

\* Every report update_character has dealt with is on file, timed or depleted
\* (service.rs:281-287), for any profile, any number of updates of the same
\* character at once, and whatever is deleted or re-created meanwhile.
THEOREM HandledRuns == Spec => []HandledRunsAreStored
<1>1. RecordInv => HandledRunsAreStored
  BY DEF RecordInv
<1>. QED
  BY <1>1, RecordInvariance, PTL

\* Every link joins a live row to the player that config.toml declares it
\* under: seeding and guild pulls never link the wrong character.
THEOREM LinksStayDeclared == Spec => []LinksAreDeclared
<1>1. RecordInv => LinksAreDeclared
  BY DEF RecordInv
<1>. QED
  BY <1>1, RecordInvariance, PTL

\* When the listener opens (main.rs:143-149) every declaration has its row and
\* its link, for any config.toml, whatever crashes and failed seedings went
\* before.
THEOREM ServesOnlySeeded == Spec => []SeededBeforeServing
<1>1. RecordInv => SeededBeforeServing
  BY ConfigType DEF RecordInv, SeededSoFar, SeededBeforeServing, ConfigRows
<1>. QED
  BY <1>1, RecordInvariance, PTL

\* Each roster member a guild pull has passed is in a guild and, if declared,
\* linked, by either branch of the stale-crawl gate (service.rs:89-92,
\* 131-132): only a link statement that fails can leave it out.
THEOREM PassedMembers == Spec => []PassedMembersAreRecorded
<1>1. RecordInv => PassedMembersAreRecorded
  BY DEF RecordInv
<1>. QED
  BY <1>1, RecordInvariance, PTL
=============================================================================
