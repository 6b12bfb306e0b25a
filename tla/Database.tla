------------------------------ MODULE Database ------------------------------
(***************************************************************************)
(* The SQLite database of mplus-tracker: the tables of                     *)
(* migrations/0001_initial.sql and the statements of src/db.rs that change *)
(* them.  Each operator below is ONE statement, so one atomic step: the    *)
(* program never opens a transaction around several of them.               *)
(*                                                                         *)
(* A character is identified by its (region, realm, name) triple.  Names   *)
(* is the set of SPELLINGS of such triples; Lower maps each spelling to    *)
(* the lowercase one the tables hold.  A run is identified by the fields   *)
(* of Raider.IO's report that run_hash digests besides the character's     *)
(* name (dungeon, level, completion time, source id): a RunKey.  SHA-256   *)
(* is taken to be injective on those fields.                               *)
(***************************************************************************)
EXTENDS Naturals, FiniteSets

CONSTANTS
  Names,     \* spellings of (region, realm, name)
  Lower,     \* str::to_lowercase on each spelling
  Guilds,    \* (guild_name, guild_realm) pairs, the realm in lowercase
  NoGuild,   \* both guild columns NULL
  Players,   \* player ids of config.toml
  RunKeys    \* what run_hash digests of a report besides the name

ASSUME DatabaseAssumption ==
  /\ Names # {}
  /\ Lower \in [Names -> Names]
  /\ \A n \in Names : Lower[Lower[n]] = Lower[n]
  /\ NoGuild \notin Guilds

VARIABLES
  characters,  \* row id |-> [name, guild]
  lastId,      \* largest id ever given to a character row (AUTOINCREMENT)
  players,     \* ids in the players table
  links,       \* player_characters: pairs <<player id, character id>>
  runs         \* hash |-> [character_id, within_time]

tables == <<characters, lastId, players, links, runs>>

Canonical == {Lower[n] : n \in Names}
Hashes    == Canonical \X RunKeys

\* A run as Raider.IO reports it.
Reports == [key : RunKeys, timed : BOOLEAN]

run_hash(n, r) == <<Lower[n], r.key>>

DatabaseTypeOK ==
  /\ DOMAIN characters \subseteq 1 .. lastId
  /\ characters \in [DOMAIN characters ->
                       [name : Canonical, guild : Guilds \cup {NoGuild}]]
  /\ lastId \in Nat
  /\ players \subseteq Players
  /\ links \subseteq Players \X Nat
  /\ DOMAIN runs \subseteq Hashes
  /\ runs \in [DOMAIN runs -> [character_id : Nat, within_time : BOOLEAN]]

DatabaseInit ==
  /\ characters = [i \in {} |-> [name |-> CHOOSE n \in Canonical : TRUE, guild |-> NoGuild]]
  /\ lastId = 0
  /\ players = {}
  /\ links = {}
  /\ runs = [h \in {} |-> [character_id |-> 0, within_time |-> FALSE]]

-----------------------------------------------------------------------------
(* Reads.                                                                  *)

\* Mistake: the spelling is stored and compared as it comes (the program
\* before migration 0002).
AsSpelled(n) == n

\* Every statement on characters but the delete lowercases its arguments.
Normalised(n) == Lower[n]

\* find_character_id: the ids of the rows that n, in any case, names.
IdsOf(n) == {i \in DOMAIN characters : characters[i].name = Normalised(n)}

Known(n) == IdsOf(n) # {}

-----------------------------------------------------------------------------
(* Writes.                                                                 *)

\* Mistake: a primary key without AUTOINCREMENT takes the largest id in use
\* plus one, so the id of a deleted row comes back.
ReusedId(n) ==
  IF Known(n) THEN CHOOSE i \in IdsOf(n) : TRUE
  ELSE CHOOSE i \in 1 .. lastId + 1 :
         /\ \A j \in DOMAIN characters : j < i
         /\ i = 1 \/ i - 1 \in DOMAIN characters

\* The id upsert_character returns.  A new row gets an id above every id the
\* table ever had; that SQLite also leaves gaps between ids is abstracted.
UpsertedId(n) == IF Known(n) THEN CHOOSE i \in IdsOf(n) : TRUE ELSE lastId + 1

\* Mistake: the upsert writes the columns without COALESCE.
OverwrittenGuild(n, guild) == guild

\* COALESCE(excluded.guild_name, guild_name), and the same for guild_realm.
CoalescedGuild(n, guild) ==
  IF guild = NoGuild /\ Known(n) THEN characters[UpsertedId(n)].guild ELSE guild

UpsertCharacter(n, guild) ==
  LET id  == UpsertedId(n)
      row == [name |-> Normalised(n), guild |-> CoalescedGuild(n, guild)]
  IN /\ characters' = [i \in DOMAIN characters \cup {id} |->
                         IF i = id THEN row ELSE characters[i]]
     /\ lastId' = IF Known(n) THEN lastId ELSE id
     /\ UNCHANGED <<players, links, runs>>

UpsertPlayer(p) ==
  /\ players' = players \cup {p}
  /\ UNCHANGED <<characters, lastId, links, runs>>

\* INSERT OR IGNORE forgives a link that is already there, but not one that
\* names a missing player or character: that is a foreign-key error.
CanLink(p, id) == p \in players /\ id \in DOMAIN characters

LinkPlayerCharacter(p, id) ==
  /\ CanLink(p, id)
  /\ links' = links \cup {<<p, id>>}
  /\ UNCHANGED <<characters, lastId, players, runs>>

\* insert_run.  A known hash is left alone, whoever owns it and even when the
\* character is gone; a new hash for a missing character is an error.
CanInsertRun(id, n, r) == run_hash(n, r) \in DOMAIN runs \/ id \in DOMAIN characters

\* Mistake: ON CONFLICT (hash) DO UPDATE SET within_time.
OverwriteRun(id, n, r) ==
  /\ CanInsertRun(id, n, r)
  /\ runs' = [h \in DOMAIN runs \cup {run_hash(n, r)} |->
                IF h = run_hash(n, r) THEN [character_id |-> id, within_time |-> r.timed]
                ELSE runs[h]]
  /\ UNCHANGED <<characters, lastId, players, links>>

InsertRun(id, n, r) ==
  /\ CanInsertRun(id, n, r)
  /\ runs' = [h \in DOMAIN runs \cup {run_hash(n, r)} |->
                IF h \in DOMAIN runs THEN runs[h]
                ELSE [character_id |-> id, within_time |-> r.timed]]
  /\ UNCHANGED <<characters, lastId, players, links>>

\* Mistake: foreign keys are not enforced, so nothing cascades.
DeleteRowOnly(n) ==
  /\ characters' = [i \in {j \in DOMAIN characters : characters[j].name # n} |-> characters[i]]
  /\ UNCHANGED <<lastId, players, links, runs>>

\* delete_character compares the strings it is given as they are, and the
\* foreign keys of the two child tables cascade.
DeleteCharacter(n) ==
  LET Kept == {i \in DOMAIN characters : characters[i].name # n}
      KeptRuns == {h \in DOMAIN runs : runs[h].character_id \in Kept}
  IN /\ characters' = [i \in Kept |-> characters[i]]
     /\ links' = {l \in links : l[2] \in Kept}
     /\ runs' = [h \in KeptRuns |-> runs[h]]
     /\ UNCHANGED <<lastId, players>>

-----------------------------------------------------------------------------
(* What the tables must satisfy whoever issues the statements.             *)

\* Case differences between Raider.IO's endpoints, config.toml and the URL
\* never make two rows of one character (db.rs:64-67).
OneRowPerCharacter ==
  \A i, j \in DOMAIN characters :
    Lower[characters[i].name] = Lower[characters[j].name] => i = j

\* Every stored run hangs off a live row, and that row is the character whose
\* name was digested into the run's hash: a run is never booked on someone
\* else, however deletes and re-creations interleave with an update that
\* still carries an old row id.
RunsBelongToTheirCharacter ==
  \A h \in DOMAIN runs :
    /\ runs[h].character_id \in DOMAIN characters
    /\ characters[runs[h].character_id].name = h[1]

\* An id for n that was obtained from the table some steps ago.
Carries(id, n) ==
  /\ id \in 1 .. lastId
  /\ id \in DOMAIN characters => characters[id].name = Lower[n]
=============================================================================
