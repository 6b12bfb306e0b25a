----------------------------- MODULE Migration -----------------------------
(***************************************************************************)
(* migrations/0002_normalise_character_casing.sql: the merge of character  *)
(* rows that differ in letter case only, made by databases from before     *)
(* upsert_character lowercased its arguments.  Each statement is a step;   *)
(* sqlx runs them in one transaction together with its note that the       *)
(* migration was applied, so a crash rolls all of them back and the next   *)
(* boot starts over, while a committed migration never runs again.  Then   *)
(* the server upserts characters as Database describes.                    *)
(*                                                                         *)
(* SQLite's LOWER folds the letters A to Z only; Lower is Rust's           *)
(* to_lowercase, which folds every letter.                                 *)
(***************************************************************************)
EXTENDS Database

CONSTANTS
  AsciiLower,    \* SQLite's LOWER on each spelling
  LowerRealm,    \* LOWER on the realm of each guild
  LegacyGuilds,  \* the guilds a legacy row may hold, their realms as typed
  LegacyRows,    \* the largest row id of the legacy table
  MaxRows        \* bound on the character rows ever made

ASSUME MigrationAssumption ==
  /\ AsciiLower \in [Names -> Names]
  /\ \A n \in Names : /\ AsciiLower[AsciiLower[n]] = AsciiLower[n]
                      /\ Lower[AsciiLower[n]] = Lower[n]
                      /\ AsciiLower[Lower[n]] = Lower[n]
  /\ LowerRealm \in [Guilds \cup {NoGuild} -> Guilds \cup {NoGuild}]
  /\ LegacyGuilds \subseteq Guilds \cup {NoGuild}
  /\ LegacyRows \in Nat /\ MaxRows \in Nat

VARIABLES
  pc,     \* the statement to run next, or "done"
  legacy  \* the tables as the migration found them

vars == <<tables, pc, legacy>>

LegacyCharacters ==
  {c \in UNION {[ids -> [name : Names, guild : LegacyGuilds]] : ids \in SUBSET (1 .. LegacyRows)} :
     \A i, j \in DOMAIN c : c[i].name = c[j].name => i = j}

\* The rows whose character, in whatever spelling, is the one of hash h.
OwnersIn(c, h) == {i \in DOMAIN c : Lower[c[i].name] = h[1]}

LegacyRuns(c) ==
  UNION {{r \in [hs -> [character_id : DOMAIN c, within_time : BOOLEAN]] :
            \A h \in hs : r[h].character_id \in OwnersIn(c, h)} :
         hs \in SUBSET {h \in Hashes : OwnersIn(c, h) # {}}}

Init ==
  /\ characters \in LegacyCharacters
  /\ lastId = LegacyRows
  /\ players = Players
  /\ links \in SUBSET (Players \X DOMAIN characters)
  /\ runs \in LegacyRuns(characters)
  /\ pc = "runs"
  /\ legacy = [characters |-> characters, links |-> links, runs |-> runs]

TypeOK ==
  /\ DOMAIN characters \subseteq 1 .. lastId
  /\ characters \in [DOMAIN characters -> [name : Names, guild : Guilds \cup {NoGuild}]]
  /\ lastId \in Nat
  /\ players \subseteq Players
  /\ links \subseteq Players \X DOMAIN characters
  /\ DOMAIN runs \subseteq Hashes
  /\ runs \in [DOMAIN runs -> [character_id : DOMAIN characters, within_time : BOOLEAN]]
  /\ pc \in {"runs", "links", "delete", "lower", "done"}

-----------------------------------------------------------------------------
(* The statements.                                                         *)

\* Mistake: rows are grouped by their names as they are.
ExactTwinsIn(c, id) == {i \in DOMAIN c : c[i].name = c[id].name}

\* GROUP BY LOWER(region), LOWER(realm), LOWER(name): the group of row id.
TwinsIn(c, id) == {i \in DOMAIN c : AsciiLower[c[i].name] = AsciiLower[c[id].name]}

\* Mistake: MAX(id), the newest row.
NewestIn(c, id) == CHOOSE i \in TwinsIn(c, id) : \A j \in TwinsIn(c, id) : j <= i

\* SELECT MIN(id) ... : the oldest row of that group.
SurvivorIn(c, id) == CHOOSE i \in TwinsIn(c, id) : \A j \in TwinsIn(c, id) : i <= j

Survivor(id) == SurvivorIn(characters, id)
Survivors    == {Survivor(id) : id \in DOMAIN characters}

\* Mistake: runs are left with the rows that are about to go.
KeepRunOwners ==
  /\ pc = "runs"
  /\ pc' = "links"
  /\ UNCHANGED <<tables, legacy>>

\* Step 1, lines 18-31.
RepointRuns ==
  /\ pc = "runs"
  /\ pc' = "links"
  /\ runs' = [h \in DOMAIN runs |->
                IF runs[h].character_id \in Survivors THEN runs[h]
                ELSE [runs[h] EXCEPT !.character_id = Survivor(@)]]
  /\ UNCHANGED <<characters, lastId, players, links, legacy>>

\* Mistake: only a survivor that has a link already gets another.
RelinkLinkedSurvivors ==
  /\ pc = "links"
  /\ pc' = "delete"
  /\ links' = links \cup {<<l[1], Survivor(l[2])>> :
                            l \in {k \in links : \E m \in links : m[2] = Survivor(k[2])}}
  /\ UNCHANGED <<characters, lastId, players, runs, legacy>>

\* Step 2, lines 35-50.
RelinkPlayers ==
  /\ pc = "links"
  /\ pc' = "delete"
  /\ links' = links \cup {<<l[1], Survivor(l[2])>> : l \in {k \in links : k[2] \notin Survivors}}
  /\ UNCHANGED <<characters, lastId, players, runs, legacy>>

\* Mistake: foreign keys are off while migrating, and the links dangle.
DeleteWithoutCascade ==
  /\ pc = "delete"
  /\ pc' = "lower"
  /\ characters' = [i \in Survivors |-> characters[i]]
  /\ UNCHANGED <<lastId, players, links, runs, legacy>>

\* Step 3, lines 53-58, and the cascade of the foreign keys.
DeleteDuplicates ==
  /\ pc = "delete"
  /\ pc' = "lower"
  /\ characters' = [i \in Survivors |-> characters[i]]
  /\ links' = {l \in links : l[2] \in Survivors}
  /\ runs' = [h \in {g \in DOMAIN runs : runs[g].character_id \in Survivors} |-> runs[h]]
  /\ UNCHANGED <<lastId, players, legacy>>

\* Step 4, lines 61-66, and the commit.
LowercaseRows ==
  /\ pc = "lower"
  /\ pc' = "done"
  /\ characters' = [i \in DOMAIN characters |->
                      [name  |-> AsciiLower[characters[i].name],
                       guild |-> LowerRealm[characters[i].guild]]]
  /\ UNCHANGED <<lastId, players, links, runs, legacy>>

\* The process dies inside the transaction.
Rollback ==
  /\ pc # "done"
  /\ pc' = "runs"
  /\ characters' = legacy.characters
  /\ links' = legacy.links
  /\ runs' = legacy.runs
  /\ UNCHANGED <<lastId, players, legacy>>

\* The server on the migrated tables: seeding, updates and pulls upsert.
Upserted(n) ==
  /\ pc = "done"
  /\ Known(n) \/ lastId < MaxRows
  /\ UpsertCharacter(n, NoGuild)
  /\ UNCHANGED <<pc, legacy>>

Next ==
  \/ RepointRuns \/ RelinkPlayers \/ DeleteDuplicates \/ LowercaseRows
  \/ Rollback
  \/ \E n \in Names : Upserted(n)

Spec == Init /\ [][Next]_vars

-----------------------------------------------------------------------------
(* Properties.                                                             *)

\* No statement of the migration, and no cascade it sets off, loses a run,
\* changes it, or leaves it with a row of another character.
RunsAreKept ==
  /\ DOMAIN runs = DOMAIN legacy.runs
  /\ \A h \in DOMAIN runs :
       LET owner == legacy.runs[h].character_id
       IN /\ runs[h].within_time = legacy.runs[h].within_time
          /\ runs[h].character_id \in DOMAIN characters
          /\ AsciiLower[characters[runs[h].character_id].name]
               = AsciiLower[legacy.characters[owner].name]

LinkedNames(ls, c) == {<<l[1], AsciiLower[c[l[2]].name]>> : l \in ls}

\* A player ends up linked to exactly the characters one of whose rows it was
\* linked to before.
LinksAreKept == LinkedNames(links, characters) = LinkedNames(legacy.links, legacy.characters)

\* Lowercasing never meets the UNIQUE constraint, which would stop every boot.
LoweringDoesNotCollide ==
  pc \in {"lower", "done"} =>
    \A i, j \in DOMAIN characters :
      AsciiLower[characters[i].name] = AsciiLower[characters[j].name] => i = j

\* Whoever was known under a name that LOWER and to_lowercase agree on is
\* found afterwards, in one row, whatever spelling it is upserted under: the
\* oldest of the rows that LOWER takes for it (lines 10-16).
OldNamesFindTheOldestRow ==
  pc = "done" =>
    \A i \in DOMAIN legacy.characters :
      LET n    == legacy.characters[i].name
          Rows == {j \in DOMAIN legacy.characters : AsciiLower[legacy.characters[j].name] = Lower[n]}
      IN AsciiLower[n] = Lower[n] => \E min \in Rows : /\ IdsOf(n) = {min}
                                                     /\ \A j \in Rows : min <= j

\* The claim of lines 14-16: the canonical row is always found afterwards.
CanonicalRowIsFound ==
  pc = "done" => \A i \in DOMAIN legacy.characters : Known(legacy.characters[i].name)
=============================================================================
