------------------------------ MODULE Service ------------------------------
(***************************************************************************)
(* src/service.rs: update_character, update_all_characters and             *)
(* update_guild, each split at its awaits, over the statements of Database *)
(* and the semaphore of AppState that bounds the Raider.IO traffic.        *)
(*                                                                         *)
(* A worker is one run of update_character: either the handler of          *)
(* POST /update/character, or a task that an update_all coordinator (a     *)
(* batch) spawned for one listed row.  axum drops a handler's future when  *)
(* its client goes away: its permit is released and it takes no further    *)
(* step.  A dropped coordinator does not stop the tasks it has spawned.    *)
(***************************************************************************)
EXTENDS Database, Sequences

CONSTANTS
  MaxConcurrent,  \* concurrency.max_concurrent_raiderio
  Requests,       \* slots for concurrent POST /update/character handlers
  Batches,        \* slots for concurrent POST /update/all handlers
  Pulls,          \* slots for concurrent POST /update/guild handlers
  Profiles,       \* the sets of reports a character profile may hold
  Unparsable,     \* run keys whose completed_at is not RFC 3339
  Rosters,        \* the sets of members a guild profile may hold
  Config,         \* config.toml: its declarations in file order
  Faults          \* the faults a run explores: "db", "cancel", "crash"

Members  == [name : Names, fresh : BOOLEAN]
Children == Batches \X Names
Workers  == Requests \cup Children

ASSUME ServiceAssumption ==
  /\ MaxConcurrent \in Nat
  /\ IsFiniteSet(Requests) /\ IsFiniteSet(Batches) /\ IsFiniteSet(Pulls)
  /\ IsFiniteSet(Names)
  /\ Requests \cap Children = {}
  /\ Profiles \subseteq SUBSET Reports
  /\ Rosters \subseteq SUBSET Members
  /\ Unparsable \subseteq RunKeys
  /\ Config \in Seq([player : Players, name : Names])
  /\ Faults \subseteq {"db", "cancel", "crash"}

VARIABLES
  upstream,  \* the characters (in lowercase) that Raider.IO knows
  permits,   \* free permits of AppState.semaphore
  worker,    \* the runs of update_character
  batch,     \* the runs of update_all_characters
  pull       \* the runs of update_guild

service == <<upstream, permits, worker, batch, pull>>

Holding(task) == task.pc \notin {"idle", "waiting", "returned"}

AnyName    == CHOOSE n \in Names : TRUE
IdleWorker == [pc |-> "idle", name |-> AnyName, id |-> 0, fetched |-> {}, todo |-> {},
               outcome |-> "ok"]
IdleBatch  == [pc |-> "idle", joins |-> {}]
IdlePull   == [pc |-> "idle", guild |-> NoGuild, todo |-> {},
               member |-> [name |-> AnyName, fresh |-> FALSE], id |-> 0, done |-> {}]

WorkerType ==
  [pc : {"idle", "waiting", "fetching", "upserting", "inserting", "returned"},
   name : Names, id : Nat, fetched : SUBSET Reports, todo : SUBSET Reports,
   outcome : {"ok", "gone", "failed"}]
BatchType == [pc : {"idle", "joining", "pruning"}, joins : SUBSET (Nat \X Canonical)]
PullType ==
  [pc : {"idle", "waiting", "fetching", "members", "finding", "upserting", "linking"},
   guild : Guilds \cup {NoGuild}, todo : SUBSET Members, member : Members,
   id : Nat, done : SUBSET Nat]

ServiceTypeOK ==
  /\ upstream \subseteq Canonical
  /\ permits \in Nat
  /\ worker \in [Workers -> WorkerType]
  /\ batch \in [Batches -> BatchType]
  /\ pull \in [Pulls -> PullType]

ServiceInit ==
  /\ upstream \in SUBSET Canonical
  /\ permits = MaxConcurrent
  /\ worker = [w \in Workers |-> IdleWorker]
  /\ batch = [b \in Batches |-> IdleBatch]
  /\ pull = [g \in Pulls |-> IdlePull]

-----------------------------------------------------------------------------
(* update_character.                                                       *)

RequestCharacter(q, n) ==
  /\ worker[q].pc = "idle"
  /\ worker' = [worker EXCEPT ![q] = [IdleWorker EXCEPT !.pc = "waiting", !.name = n]]
  /\ UNCHANGED <<upstream, permits, batch, pull, tables>>

Acquire(w) ==
  /\ worker[w].pc = "waiting"
  /\ permits > 0
  /\ permits' = permits - 1
  /\ worker' = [worker EXCEPT ![w].pc = "fetching"]
  /\ UNCHANGED <<upstream, batch, pull, tables>>

\* Mistake: the permit is given back on success only.
ReturnLeaking(w, outcome) ==
  /\ permits' = IF outcome = "ok" THEN permits + 1 ELSE permits
  /\ worker' = [worker EXCEPT ![w] =
       IF w \in Children /\ batch[w[1]].pc # "idle"
       THEN [IdleWorker EXCEPT !.pc = "returned", !.name = worker[w].name, !.outcome = outcome]
       ELSE IdleWorker]
  /\ UNCHANGED <<upstream, batch, pull>>

\* update_character returns and drops its permit.  A child keeps its result
\* for the coordinator to join, unless the coordinator has been dropped.
Return(w, outcome) ==
  /\ permits' = permits + 1
  /\ worker' = [worker EXCEPT ![w] =
       IF w \in Children /\ batch[w[1]].pc # "idle"
       THEN [IdleWorker EXCEPT !.pc = "returned", !.name = worker[w].name, !.outcome = outcome]
       ELSE IdleWorker]
  /\ UNCHANGED <<upstream, batch, pull>>

FetchProfile(w) ==
  /\ worker[w].pc = "fetching"
  /\ Lower[worker[w].name] \in upstream
  /\ \E reports \in Profiles :
       worker' = [worker EXCEPT ![w].pc = "upserting", ![w].fetched = reports,
                                ![w].todo = reports]
  /\ UNCHANGED <<upstream, permits, batch, pull, tables>>

\* "400 Bad Request ... Could not find requested character".
FetchGone(w) ==
  /\ worker[w].pc = "fetching"
  /\ Lower[worker[w].name] \notin upstream
  /\ Return(w, "gone")
  /\ UNCHANGED tables

\* Retries exhausted, another HTTP status, or a body that does not decode.
FetchFails(w) ==
  /\ worker[w].pc = "fetching"
  /\ Return(w, "failed")
  /\ UNCHANGED tables

Upsert(w) ==
  /\ worker[w].pc = "upserting"
  /\ UpsertCharacter(worker[w].name, NoGuild)
  /\ worker' = [worker EXCEPT ![w].pc = "inserting", ![w].id = UpsertedId(worker[w].name)]
  /\ UNCHANGED <<upstream, permits, batch, pull>>

\* Mistake: depleted runs are skipped too (the bug of service.rs:281-287).
SkipDepletedRun(w, r) ==
  /\ worker[w].pc = "inserting"
  /\ r \in worker[w].todo
  /\ r.key \in Unparsable \/ ~r.timed
  /\ worker' = [worker EXCEPT ![w].todo = @ \ {r}]
  /\ UNCHANGED <<upstream, permits, batch, pull, tables>>

\* A report whose completed_at does not parse is skipped with a warning.
SkipRun(w, r) ==
  /\ worker[w].pc = "inserting"
  /\ r \in worker[w].todo
  /\ r.key \in Unparsable
  /\ worker' = [worker EXCEPT ![w].todo = @ \ {r}]
  /\ UNCHANGED <<upstream, permits, batch, pull, tables>>

StoreRun(w, r) ==
  /\ worker[w].pc = "inserting"
  /\ r \in worker[w].todo
  /\ r.key \notin Unparsable
  /\ InsertRun(worker[w].id, worker[w].name, r)
  /\ worker' = [worker EXCEPT ![w].todo = @ \ {r}]
  /\ UNCHANGED <<upstream, permits, batch, pull>>

\* The row went away under the worker: the foreign key refuses the run and the
\* error abandons the reports that are left.
StoreRefused(w, r) ==
  /\ worker[w].pc = "inserting"
  /\ r \in worker[w].todo
  /\ r.key \notin Unparsable
  /\ ~CanInsertRun(worker[w].id, worker[w].name, r)
  /\ Return(w, "failed")
  /\ UNCHANGED tables

\* A statement of the worker fails for another reason (the file is locked,
\* the pool timed out): the error ends the update.
StatementFails(w) ==
  /\ "db" \in Faults
  /\ worker[w].pc \in {"upserting", "inserting"}
  /\ Return(w, "failed")
  /\ UNCHANGED tables

Finish(w) ==
  /\ worker[w].pc = "inserting"
  /\ worker[w].todo = {}
  /\ Return(w, "ok")
  /\ UNCHANGED tables

\* Mistake: only a return gives the permit back, not the drop of the future.
CancelRequestLeaking(q) ==
  /\ "cancel" \in Faults
  /\ worker[q].pc # "idle"
  /\ worker' = [worker EXCEPT ![q] = IdleWorker]
  /\ UNCHANGED <<upstream, permits, batch, pull, tables>>

\* The client of POST /update/character goes away.
CancelRequest(q) ==
  /\ "cancel" \in Faults
  /\ worker[q].pc # "idle"
  /\ worker' = [worker EXCEPT ![q] = IdleWorker]
  /\ permits' = IF Holding(worker[q]) THEN permits + 1 ELSE permits
  /\ UNCHANGED <<upstream, batch, pull, tables>>

-----------------------------------------------------------------------------
(* update_all_characters.                                                  *)

\* Mistake: the coordinator holds a permit itself while it waits for its tasks.
StartAllHolding(b) ==
  /\ batch[b].pc = "idle"
  /\ \A n \in Names : worker[<<b, n>>].pc = "idle"
  /\ permits > 0
  /\ permits' = permits - 1
  /\ LET rows == {<<i, characters[i].name>> : i \in DOMAIN characters}
     IN /\ batch' = [batch EXCEPT ![b] = [pc |-> "joining", joins |-> rows]]
        /\ worker' = [w \in Workers |->
             IF \E row \in rows : w = <<b, row[2]>>
             THEN [IdleWorker EXCEPT !.pc = "waiting", !.name = w[2]]
             ELSE worker[w]]
  /\ UNCHANGED <<upstream, pull, tables>>

\* List the rows and spawn one task per row.  The loop that spawns has no
\* await, so the batch starts as one step.
StartAll(b) ==
  /\ batch[b].pc = "idle"
  /\ \A n \in Names : worker[<<b, n>>].pc = "idle"
  /\ LET rows == {<<i, characters[i].name>> : i \in DOMAIN characters}
     IN /\ batch' = [batch EXCEPT ![b] = [pc |-> "joining", joins |-> rows]]
        /\ worker' = [w \in Workers |->
             IF \E row \in rows : w = <<b, row[2]>>
             THEN [IdleWorker EXCEPT !.pc = "waiting", !.name = w[2]]
             ELSE worker[w]]
  /\ UNCHANGED <<upstream, permits, pull, tables>>

\* Handles are awaited in the order of the list, which is the order of row ids.
NextJoin(b) == CHOOSE row \in batch[b].joins : \A other \in batch[b].joins : row[1] <= other[1]

Joined(b) ==
  /\ batch' = [batch EXCEPT ![b] = [pc |-> "joining", joins |-> @.joins \ {NextJoin(b)}]]
  /\ worker' = [worker EXCEPT ![<<b, NextJoin(b)[2]>>] = IdleWorker]

\* The next task was updated or failed: counted, and the row stays.
Join(b) ==
  /\ batch[b].pc = "joining"
  /\ batch[b].joins # {}
  /\ LET child == worker[<<b, NextJoin(b)[2]>>]
     IN child.pc = "returned" /\ child.outcome \in {"ok", "failed"}
  /\ Joined(b)
  /\ UNCHANGED <<upstream, permits, pull, tables>>

\* Mistake: any error prunes.
JoinGoneOnAnyError(b) ==
  /\ batch[b].pc = "joining"
  /\ batch[b].joins # {}
  /\ LET child == worker[<<b, NextJoin(b)[2]>>]
     IN child.pc = "returned" /\ child.outcome # "ok"
  /\ batch' = [batch EXCEPT ![b].pc = "pruning"]
  /\ UNCHANGED <<upstream, permits, worker, pull, tables>>

\* The next task got the 400: its row is to be pruned.
JoinGone(b) ==
  /\ batch[b].pc = "joining"
  /\ batch[b].joins # {}
  /\ LET child == worker[<<b, NextJoin(b)[2]>>]
     IN child.pc = "returned" /\ child.outcome = "gone"
  /\ batch' = [batch EXCEPT ![b].pc = "pruning"]
  /\ UNCHANGED <<upstream, permits, worker, pull, tables>>

Prune(b) ==
  /\ batch[b].pc = "pruning"
  /\ DeleteCharacter(NextJoin(b)[2])
  /\ Joined(b)
  /\ UNCHANGED <<upstream, permits, pull>>

\* A failed delete is logged and the row is counted as pruned all the same.
PruneFails(b) ==
  /\ "db" \in Faults
  /\ batch[b].pc = "pruning"
  /\ Joined(b)
  /\ UNCHANGED <<upstream, permits, pull, tables>>

AllDone(b) ==
  /\ batch[b].pc = "joining"
  /\ batch[b].joins = {}
  /\ batch' = [batch EXCEPT ![b] = IdleBatch]
  /\ UNCHANGED <<upstream, permits, worker, pull, tables>>

\* The client of POST /update/all goes away: the coordinator is dropped, its
\* finished results with it; the tasks that still run are detached.
AbandonAll(b) ==
  /\ "cancel" \in Faults
  /\ batch[b].pc # "idle"
  /\ batch' = [batch EXCEPT ![b] = IdleBatch]
  /\ worker' = [w \in Workers |->
       IF w \in {b} \X Names /\ worker[w].pc = "returned" THEN IdleWorker ELSE worker[w]]
  /\ UNCHANGED <<upstream, permits, pull, tables>>

-----------------------------------------------------------------------------
(* update_guild.                                                           *)

RequestGuild(g, guild) ==
  /\ pull[g].pc = "idle"
  /\ pull' = [pull EXCEPT ![g] = [IdlePull EXCEPT !.pc = "waiting", !.guild = guild]]
  /\ UNCHANGED <<upstream, permits, worker, batch, tables>>

AcquireForGuild(g) ==
  /\ pull[g].pc = "waiting"
  /\ permits > 0
  /\ permits' = permits - 1
  /\ pull' = [pull EXCEPT ![g].pc = "fetching"]
  /\ UNCHANGED <<upstream, worker, batch, tables>>

\* Mistake: update_guild never gives its permit back.
ReturnGuildLeaking(g) ==
  /\ pull' = [pull EXCEPT ![g] = IdlePull]
  /\ UNCHANGED <<upstream, permits, worker, batch>>

\* update_guild returns, with its summary or with an error.
ReturnGuild(g) ==
  /\ permits' = permits + 1
  /\ pull' = [pull EXCEPT ![g] = IdlePull]
  /\ UNCHANGED <<upstream, worker, batch>>

FetchRoster(g) ==
  /\ pull[g].pc = "fetching"
  /\ \E roster \in Rosters :
       pull' = [pull EXCEPT ![g].pc = "members", ![g].todo = roster]
  /\ UNCHANGED <<upstream, permits, worker, batch, tables>>

FetchRosterFails(g) ==
  /\ pull[g].pc = "fetching"
  /\ ReturnGuild(g)
  /\ UNCHANGED tables

\* A member crawled recently goes straight to its upsert; for any other the
\* code first looks the row up, to count it as added or as updated.
NextMember(g, m) ==
  /\ pull[g].pc = "members"
  /\ m \in pull[g].todo
  /\ pull' = [pull EXCEPT ![g].pc = IF m.fresh THEN "upserting" ELSE "finding",
                          ![g].todo = @ \ {m}, ![g].member = m]
  /\ UNCHANGED <<upstream, permits, worker, batch, tables>>

FindMember(g) ==
  /\ pull[g].pc = "finding"
  /\ pull' = [pull EXCEPT ![g].pc = "upserting"]
  /\ UNCHANGED <<upstream, permits, worker, batch, tables>>

UpsertMember(g) ==
  /\ pull[g].pc = "upserting"
  /\ UpsertCharacter(pull[g].member.name, pull[g].guild)
  /\ pull' = [pull EXCEPT ![g].pc = "linking", ![g].id = UpsertedId(pull[g].member.name)]
  /\ UNCHANGED <<upstream, permits, worker, batch>>

\* player_map: the declarations of a character, whatever their case.  A
\* HashMap collected from pairs keeps the last one.
DeclarationsOf(n) == {i \in DOMAIN Config : Lower[Config[i].name] = Lower[n]}
Declared(n) == DeclarationsOf(n) # {}
PlayerOf(n) ==
  Config[CHOOSE i \in DeclarationsOf(n) : \A j \in DeclarationsOf(n) : j <= i].player

MemberDone(g) ==
  pull' = [pull EXCEPT ![g].pc = "members", ![g].done = @ \cup {pull[g].id}]

Linkable(g) ==
  /\ Declared(pull[g].member.name)
  /\ CanLink(PlayerOf(pull[g].member.name), pull[g].id)

LinkMember(g) ==
  /\ pull[g].pc = "linking"
  /\ Linkable(g)
  /\ LinkPlayerCharacter(PlayerOf(pull[g].member.name), pull[g].id)
  /\ MemberDone(g)
  /\ UNCHANGED <<upstream, permits, worker, batch>>

\* Mistake: the branch for members crawled recently does not link.
LeaveFreshUnlinked(g) ==
  /\ pull[g].pc = "linking"
  /\ ~Linkable(g) \/ pull[g].member.fresh
  /\ MemberDone(g)
  /\ UNCHANGED <<upstream, permits, worker, batch, tables>>

\* Nothing to link, or a link that fails, whose error is dropped: such a member
\* is not among those `done`.
LeaveUnlinked(g) ==
  /\ pull[g].pc = "linking"
  /\ \/ ~Linkable(g) /\ MemberDone(g)
     \/ Linkable(g) /\ "db" \in Faults /\ pull' = [pull EXCEPT ![g].pc = "members"]
  /\ UNCHANGED <<upstream, permits, worker, batch, tables>>

GuildStatementFails(g) ==
  /\ "db" \in Faults
  /\ pull[g].pc \in {"finding", "upserting"}
  /\ ReturnGuild(g)
  /\ UNCHANGED tables

FinishGuild(g) ==
  /\ pull[g].pc = "members"
  /\ pull[g].todo = {}
  /\ ReturnGuild(g)
  /\ UNCHANGED tables

\* Mistake: a pull that is dropped keeps its permit.
CancelGuildLeaking(g) ==
  /\ "cancel" \in Faults
  /\ pull[g].pc # "idle"
  /\ pull' = [pull EXCEPT ![g] = IdlePull]
  /\ UNCHANGED <<upstream, permits, worker, batch, tables>>

CancelGuild(g) ==
  /\ "cancel" \in Faults
  /\ pull[g].pc # "idle"
  /\ pull' = [pull EXCEPT ![g] = IdlePull]
  /\ permits' = IF Holding(pull[g]) THEN permits + 1 ELSE permits
  /\ UNCHANGED <<upstream, worker, batch, tables>>

-----------------------------------------------------------------------------
(* One scheduler step of a task, its wait for a permit excepted.           *)

WorkerStep(w) ==
  \/ FetchProfile(w) \/ FetchGone(w) \/ FetchFails(w)
  \/ Upsert(w)
  \/ \E r \in worker[w].todo : SkipRun(w, r) \/ StoreRun(w, r) \/ StoreRefused(w, r)
  \/ StatementFails(w) \/ Finish(w)

BatchStep(b) == Join(b) \/ JoinGone(b) \/ Prune(b) \/ PruneFails(b) \/ AllDone(b)

PullStep(g) ==
  \/ FetchRoster(g) \/ FetchRosterFails(g)
  \/ \E m \in pull[g].todo : NextMember(g, m)
  \/ FindMember(g) \/ UpsertMember(g) \/ LinkMember(g) \/ LeaveUnlinked(g)
  \/ GuildStatementFails(g) \/ FinishGuild(g)
=============================================================================
