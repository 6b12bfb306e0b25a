------------------------------ MODULE Tracker ------------------------------
(***************************************************************************)
(* The server as a whole: main (src/main.rs) boots it and seeds the        *)
(* database from config.toml, the handlers of src/handlers.rs start the    *)
(* operations of Service or delete a character, and the process may crash  *)
(* at any point and be started again on the same database file.            *)
(*                                                                         *)
(* The world outside only acts through the inputs counted by `inputs`:     *)
(* requests, deletes, crashes, and characters that appear on or vanish     *)
(* from Raider.IO.  What the server does about them is not bounded.        *)
(***************************************************************************)
EXTENDS Service

CONSTANT MaxInputs  \* bound on the inputs of one behaviour

ASSUME TrackerAssumption == MaxInputs \in Nat

VARIABLES
  server,  \* "down", "seeding" (seed_from_config), or "up" (axum::serve)
  seed,    \* where seed_from_config stands
  inputs   \* inputs so far

vars == <<tables, service, server, seed, inputs>>

SeedStart == [i |-> 1, pc |-> "player", id |-> 0]

TypeOK ==
  /\ DatabaseTypeOK
  /\ ServiceTypeOK
  /\ server \in {"down", "seeding", "up"}
  /\ seed \in [i : 1 .. Len(Config) + 1, pc : {"player", "character", "link"}, id : Nat]
  /\ inputs \in 0 .. MaxInputs

Init ==
  /\ DatabaseInit
  /\ ServiceInit
  /\ server = "down"
  /\ seed = SeedStart
  /\ inputs = 0

-----------------------------------------------------------------------------
(* main and seed_from_config.                                              *)

Start ==
  /\ server = "down"
  /\ server' = "seeding"
  /\ seed' = SeedStart
  /\ UNCHANGED <<tables, service, inputs>>

Seeding(pc) == server = "seeding" /\ seed.i <= Len(Config) /\ seed.pc = pc

SeedPlayer ==
  /\ Seeding("player")
  /\ UpsertPlayer(Config[seed.i].player)
  /\ seed' = [seed EXCEPT !.pc = "character"]
  /\ UNCHANGED <<service, server, inputs>>

\* Mistake: a character that already has its row is taken for seeded.
SeedNewCharacter ==
  /\ Seeding("character")
  /\ UpsertCharacter(Config[seed.i].name, NoGuild)
  /\ seed' = IF Known(Config[seed.i].name) THEN [SeedStart EXCEPT !.i = seed.i + 1]
             ELSE [seed EXCEPT !.pc = "link", !.id = UpsertedId(Config[seed.i].name)]
  /\ UNCHANGED <<service, server, inputs>>

\* upsert_and_link_character is two statements.
SeedCharacter ==
  /\ Seeding("character")
  /\ UpsertCharacter(Config[seed.i].name, NoGuild)
  /\ seed' = [seed EXCEPT !.pc = "link", !.id = UpsertedId(Config[seed.i].name)]
  /\ UNCHANGED <<service, server, inputs>>

SamePlayerNext(i) == i < Len(Config) /\ Config[i + 1].player = Config[i].player

SeedLink ==
  /\ Seeding("link")
  /\ LinkPlayerCharacter(Config[seed.i].player, seed.id)
  /\ seed' = [i |-> seed.i + 1, id |-> 0,
              pc |-> IF SamePlayerNext(seed.i) THEN "character" ELSE "player"]
  /\ UNCHANGED <<service, server, inputs>>

Serve ==
  /\ server = "seeding"
  /\ seed.i = Len(Config) + 1
  /\ server' = "up"
  /\ UNCHANGED <<tables, service, seed, inputs>>

\* A statement of the seeding fails and main returns the error.
SeedFails ==
  /\ "db" \in Faults
  /\ server = "seeding"
  /\ server' = "down"
  /\ UNCHANGED <<tables, service, seed, inputs>>

Boot == Start \/ SeedPlayer \/ SeedCharacter \/ SeedLink \/ Serve

-----------------------------------------------------------------------------
(* Inputs.                                                                 *)

Input == inputs < MaxInputs /\ inputs' = inputs + 1

\* The process dies: every task with it, no table row.
Crash ==
  /\ "crash" \in Faults
  /\ server # "down"
  /\ server' = "down"
  /\ permits' = MaxConcurrent
  /\ worker' = [w \in Workers |-> IdleWorker]
  /\ batch' = [b \in Batches |-> IdleBatch]
  /\ pull' = [g \in Pulls |-> IdlePull]
  /\ UNCHANGED <<tables, upstream, seed>>

\* A character is created on, or is renamed, moved or deleted from, Raider.IO.
UpstreamChanges(c) ==
  /\ upstream' = IF c \in upstream THEN upstream \ {c} ELSE upstream \cup {c}
  /\ UNCHANGED <<tables, permits, worker, batch, pull, server, seed>>

Request ==
  /\ server = "up"
  /\ \/ \E q \in Requests, n \in Names : RequestCharacter(q, n)
     \/ \E b \in Batches : StartAll(b)
     \/ \E g \in Pulls, guild \in Guilds : RequestGuild(g, guild)
  /\ UNCHANGED <<server, seed>>

\* DELETE /character/{region}/{realm}/{name}: the path goes to the statement
\* as it was typed.
DeleteRequest(n) ==
  /\ server = "up"
  /\ DeleteCharacter(n)
  /\ UNCHANGED <<service, server, seed>>

Environment ==
  /\ Input
  /\ Crash \/ Request \/ (\E c \in Canonical : UpstreamChanges(c))
           \/ (\E n \in Names : DeleteRequest(n))

ClientLeaves ==
  \/ \E q \in Requests : CancelRequest(q)
  \/ \E b \in Batches : AbandonAll(b)
  \/ \E g \in Pulls : CancelGuild(g)

-----------------------------------------------------------------------------

Tasks ==
  \/ \E w \in Workers : Acquire(w) \/ WorkerStep(w)
  \/ \E b \in Batches : BatchStep(b)
  \/ \E g \in Pulls : AcquireForGuild(g) \/ PullStep(g)

Next ==
  \/ Boot \/ SeedFails
  \/ Environment
  \/ (Tasks \/ ClientLeaves) /\ UNCHANGED <<server, seed, inputs>>

Spec == Init /\ [][Next]_vars

\* Every started step of a task ends: Raider.IO calls time out and are retried
\* a bounded number of times, statements return, and tokio runs what is ready.
\* Its semaphore queues waiters first come first served, so a task is not
\* passed over for ever: that is strong fairness of taking a permit.  The
\* container is restarted when it stops.
Alone(A) == A /\ UNCHANGED <<server, seed, inputs>>

Fairness ==
  /\ WF_vars(Boot)
  /\ \A w \in Workers : SF_vars(Alone(Acquire(w))) /\ WF_vars(Alone(WorkerStep(w)))
  /\ \A b \in Batches : WF_vars(Alone(BatchStep(b)))
  /\ \A g \in Pulls : SF_vars(Alone(AcquireForGuild(g))) /\ WF_vars(Alone(PullStep(g)))

FairSpec == Spec /\ Fairness

-----------------------------------------------------------------------------
(* Safety.                                                                 *)

\* Every permit is free or held by exactly one task in its critical part:
\* returns, errors, dropped requests and crashes give back what was taken,
\* once, so the limit on Raider.IO traffic neither leaks away nor grows.
PermitsConserved ==
  permits + Cardinality({w \in Workers : Holding(worker[w])})
          + Cardinality({g \in Pulls : Holding(pull[g])}) = MaxConcurrent

\* The row ids that tasks hold across their awaits never come to denote
\* another character, although the row may be deleted, and other rows
\* created, before they are used (AUTOINCREMENT, 0001_initial.sql:4).
CarriedIdsAreNotReused ==
  /\ \A w \in Workers :
       worker[w].pc = "inserting" => Carries(worker[w].id, worker[w].name)
  /\ \A g \in Pulls :
       pull[g].pc = "linking" => Carries(pull[g].id, pull[g].member.name)
  /\ Seeding("link") => Carries(seed.id, Config[seed.i].name)

\* Whatever update_character has dealt with is on file, timed or depleted,
\* unless the character's row was deleted under it (the repair described at
\* service.rs:281-287).
HandledRunsAreStored ==
  \A w \in Workers : worker[w].pc = "inserting" /\ worker[w].id \in DOMAIN characters =>
    \A r \in worker[w].fetched \ worker[w].todo :
      r.key \notin Unparsable => run_hash(worker[w].name, r) \in DOMAIN runs

\* A link only ever joins a player to a live row of a character that
\* config.toml declares under that player, although seeding and guild pulls
\* both link by a row id they obtained one step earlier.
LinksAreDeclared ==
  \A l \in links :
    /\ l[2] \in DOMAIN characters
    /\ \E i \in 1 .. Len(Config) :
         Config[i].player = l[1] /\ Lower[Config[i].name] = characters[l[2]].name

\* When the listener opens, every declared character has its row and its
\* link, whatever crashes and half-done seedings went before
\* (main.rs:143-149).
SeededBeforeServing ==
  server = "seeding" /\ seed.i = Len(Config) + 1 =>
    \A i \in 1 .. Len(Config) :
      \E id \in IdsOf(Config[i].name) : <<Config[i].player, id>> \in links

\* Each roster member a guild pull has passed, and that still has its row, is
\* in a guild and, if config.toml declares it, linked: by either branch of
\* the stale-crawl gate (service.rs:89-92, 131-132), and although the row may
\* have been deleted and made again.  Only a link whose own statement fails is
\* missing, since the code drops that error: such a member is not `done`.
PassedMembersAreRecorded ==
  \A g \in Pulls : \A id \in pull[g].done \cap DOMAIN characters :
    /\ characters[id].guild # NoGuild
    /\ LET n == characters[id].name
       IN Declared(n) => <<PlayerOf(n), id>> \in links

-----------------------------------------------------------------------------
(* Action properties.                                                      *)

\* A row leaves the table only because somebody asked for it by DELETE or
\* because an update_all in progress holds Raider.IO's 400 for that very
\* character: no error, timeout or mix-up of handles prunes anybody else.
RowsLeaveForAReason ==
  [][\A id \in DOMAIN characters \ DOMAIN characters' :
       \/ \E n \in Names : DeleteRequest(n)
       \/ \E b \in Batches :
            LET child == worker[<<b, characters[id].name>>]
            IN child.pc = "returned" /\ child.outcome = "gone"]_vars

\* A character once seen in a guild keeps a guild for as long as its row
\* lives: updates and seeding, which know of no guild, do not erase it.
GuildIsNotErased ==
  [][\A id \in DOMAIN characters \cap DOMAIN characters' :
       characters[id].guild # NoGuild => characters'[id].guild # NoGuild]_vars

-----------------------------------------------------------------------------
(* Refinement: forget the ids and the tasks.                               *)

RunArchive == INSTANCE Archive WITH
  Characters <- Canonical,
  Keys <- RunKeys,
  known <- {characters[i].name : i \in DOMAIN characters},
  archive <- [h \in DOMAIN runs |-> runs[h].within_time]

\* The tables behave as an archive that files each run once under its
\* character.
ImplementsArchive == RunArchive!Spec

-----------------------------------------------------------------------------
(* Liveness.                                                               *)

\* Every update that waits for a permit is finished (or dropped) some day.
UpdatesReturn ==
  \A w \in Workers : worker[w].pc = "waiting" ~> worker[w].pc \in {"idle", "returned"}

\* Every update_all answers: no child keeps its coordinator waiting for ever.
BatchesReturn == \A b \in Batches : batch[b].pc # "idle" ~> batch[b].pc = "idle"

\* Every guild pull answers.
PullsReturn == \A g \in Pulls : pull[g].pc = "waiting" ~> pull[g].pc = "idle"

-----------------------------------------------------------------------------
(* What the source says and the program does not do.                       *)

\* service.rs:404: "400 = character doesn't exist", the reason to prune: so a
\* character that Raider.IO knows is not pruned.
PrunedCharactersDoNotExist ==
  [][\A b \in Batches : Prune(b) => NextJoin(b)[2] \notin upstream]_vars
=============================================================================
