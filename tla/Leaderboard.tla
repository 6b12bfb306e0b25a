---------------------------- MODULE Leaderboard ----------------------------
(***************************************************************************)
(* GET /leaderboard: get_leaderboard_all (src/db.rs), which reads the      *)
(* tables in one query for the players, two queries per player and one for *)
(* the characters without a player, while other requests change them.      *)
(* Each query is one atomic step; nothing holds the tables still between   *)
(* them.  GET /player/{id}/keys is the same pair of queries for one        *)
(* player.                                                                 *)
(*                                                                         *)
(* The other requests appear as the statements of Database that they       *)
(* issue, in any order.  A boot links a character to every player that     *)
(* declares it, and the links of earlier config.tomls stay; while the      *)
(* server serves, links are made by guild pulls, to one player each.  The  *)
(* order of players and of entries and the labels are left out: an entry   *)
(* carries the set of runs it counted.                                     *)
(***************************************************************************)
EXTENDS Database

CONSTANTS
  Owners,    \* the players that this or an earlier config.toml declares a name under
  PlayerOf,  \* the player a guild pull links it to, whatever case it is in, or NoPlayer
  NoPlayer,
  InWindow,  \* run keys inside the time window and at or above min_level
  Writers,   \* the kinds of write a run explores: "link", "delete"
  MaxRows    \* bound on the character rows ever made

\* The players under which a character is declared, in whatever spelling.
Declaring(c) == UNION {Owners[n] : n \in {m \in Names : Lower[m] = c}}

ASSUME LeaderboardAssumption ==
  /\ NoPlayer \notin Players
  /\ Owners \in [Names -> SUBSET Players]
  /\ \A n \in Names : PlayerOf[n] \in Declaring(Lower[n]) \cup {NoPlayer}
  /\ InWindow \subseteq RunKeys
  /\ Writers \subseteq {"link", "delete"}
  /\ MaxRows \in Nat

VARIABLES
  pc,       \* "idle", "links", "count", "untracked", "done"
  todo,     \* the listed players still to visit
  player,   \* the one being visited
  ids,      \* its character ids, as read
  entries,  \* the entries so far: a player's, or an untracked character's
  present,  \* counted runs in the tables from the start of the read until now
  moved     \* characters linked to a player since the start of the read

reader == <<pc, todo, player, ids, entries>>
vars   == <<tables, reader, present, moved>>

Entries == [player : Players \cup {NoPlayer}, id : Nat, rows : SUBSET Hashes]

TypeOK ==
  /\ DatabaseTypeOK
  /\ pc \in {"idle", "links", "count", "untracked", "done"}
  /\ todo \subseteq Players
  /\ player \in Players \cup {NoPlayer}
  /\ ids \subseteq Nat
  /\ ids # {} <=> pc = "count"
  /\ entries \subseteq Entries
  /\ present \subseteq Hashes
  /\ moved \subseteq Nat

\* The tables as the seed leaves them when config.toml lists players only.
Init ==
  /\ characters = [i \in {} |-> [name |-> CHOOSE n \in Canonical : TRUE, guild |-> NoGuild]]
  /\ lastId = 0
  /\ players = Players
  /\ links = {}
  /\ runs = [h \in {} |-> [character_id |-> 0, within_time |-> FALSE]]
  /\ pc = "idle"
  /\ todo = {}
  /\ player = NoPlayer
  /\ ids = {}
  /\ entries = {}
  /\ present = {}
  /\ moved = {}

-----------------------------------------------------------------------------
(* The queries.                                                            *)

\* count_runs_for_characters: the runs it counts.  Also the LEFT JOIN of the
\* untracked characters, for one id.
Counted(cs) ==
  {h \in DOMAIN runs : runs[h].character_id \in cs /\ runs[h].within_time /\ h[2] \in InWindow}

\* get_player_character_ids.
CharacterIds(p) == {l[2] : l \in {k \in links : k[1] = p}}

Untracked == DOMAIN characters \ {l[2] : l \in links}

\* Entries without runs are left out.
Entered(es) == entries \cup {e \in es : e.rows # {}}

ListPlayers ==
  /\ pc = "idle"
  /\ pc' = "links"
  /\ todo' = players
  /\ present' = Counted(DOMAIN characters)
  /\ moved' = {}
  /\ UNCHANGED <<tables, player, ids, entries>>

\* Mistake: a player without characters is counted and entered like others.
ReadLinksOfAnyPlayer(p) ==
  /\ pc = "links"
  /\ p \in todo
  /\ todo' = todo \ {p}
  /\ pc' = "count" /\ player' = p /\ ids' = CharacterIds(p)
  /\ UNCHANGED <<tables, entries, present, moved>>

ReadLinks(p) ==
  /\ pc = "links"
  /\ p \in todo
  /\ todo' = todo \ {p}
  /\ IF CharacterIds(p) = {}
     THEN UNCHANGED <<pc, player, ids>>
     ELSE pc' = "count" /\ player' = p /\ ids' = CharacterIds(p)
  /\ UNCHANGED <<tables, entries, present, moved>>

CountRuns ==
  /\ pc = "count"
  /\ pc' = "links"
  /\ entries' = Entered({[player |-> player, id |-> 0, rows |-> Counted(ids)]})
  /\ player' = NoPlayer
  /\ ids' = {}
  /\ UNCHANGED <<tables, todo, present, moved>>

\* Mistake: linked characters are listed on their own as well.
ListAllCharacters ==
  /\ pc = "links"
  /\ todo = {}
  /\ pc' = "done"
  /\ entries' = Entered({[player |-> NoPlayer, id |-> i, rows |-> Counted({i})] : i \in DOMAIN characters})
  /\ UNCHANGED <<tables, todo, player, ids, present, moved>>

\* WHERE c.id NOT IN (SELECT character_id FROM player_characters), with the
\* links of this moment.
ListUntracked ==
  /\ pc = "links"
  /\ todo = {}
  /\ pc' = "done"
  /\ entries' = Entered({[player |-> NoPlayer, id |-> i, rows |-> Counted({i})] : i \in Untracked})
  /\ UNCHANGED <<tables, todo, player, ids, present, moved>>

-----------------------------------------------------------------------------
(* The other requests, a statement at a time.                              *)

Upserted(n) ==
  /\ Known(n) \/ lastId < MaxRows
  /\ UpsertCharacter(n, NoGuild)
  /\ UNCHANGED <<reader, present, moved>>

Inserted(n, r) ==
  /\ \E id \in IdsOf(n) : InsertRun(id, n, r)
  /\ UNCHANGED <<reader, present, moved>>

LinkTo(p, n) ==
  /\ "link" \in Writers
  /\ \E id \in IdsOf(n) :
       /\ LinkPlayerCharacter(p, id)
       /\ moved' = moved \cup {id}
  /\ UNCHANGED <<reader, present>>

\* A guild pull: player_map has the last player that declares the member.
Linked(n) == LinkTo(PlayerOf[n], n)

\* seed_from_config, at a boot before the read: all players that declare it.
Seeded(n) == pc = "idle" /\ \E p \in Owners[n] : LinkTo(p, n)

Deleted(n) ==
  /\ "delete" \in Writers
  /\ DeleteCharacter(n)
  /\ present' = present \cap DOMAIN runs'
  /\ UNCHANGED <<reader, moved>>

Next ==
  \/ ListPlayers \/ CountRuns \/ ListUntracked
  \/ \E p \in Players : ReadLinks(p)
  \/ \E n \in Names : Upserted(n) \/ Linked(n) \/ Seeded(n) \/ Deleted(n)
  \/ \E n \in Names, r \in Reports : Inserted(n, r)

Spec == Init /\ [][Next]_vars

-----------------------------------------------------------------------------
(* Properties.                                                             *)

Counting(h) == {e \in entries : h \in e.rows}

\* The players a run's character is linked to.
HoldersOf(h) == {p \in Players : <<p, runs[h].character_id>> \in links}

\* A run that was stored before the leaderboard was asked for, and whose
\* character is neither linked nor deleted while it is read, is counted under
\* every player its character is linked to, or else on its own, whatever is
\* done to other characters (db.rs:637-711).
SteadyRunsCountForTheirPlayers ==
  pc = "done" =>
    \A h \in present :
      runs[h].character_id \notin moved =>
        {e.player : e \in Counting(h)} = IF HoldersOf(h) = {} THEN {NoPlayer} ELSE HoldersOf(h)

\* A run that is there throughout the read is never counted twice for one
\* player, nor both for a player and on its own, not even if its character is
\* linked meanwhile: links are read player by player, and once more for the
\* untracked characters (db.rs:652-690).
NoRunCountsTwice ==
  pc = "done" =>
    \A h \in present : \A e, f \in Counting(h) :
      e # f => {e.player, f.player} \subseteq Players /\ e.player # f.player

\* A player's total has runs of that player's characters only: the ids read by
\* the first query still mean the same characters in the second, whatever was
\* deleted and created in between (db.rs:653-658).
PlayersGetTheirOwnRuns ==
  \A e \in entries :
    e.player \in Players => \A h \in e.rows : e.player \in Declaring(h[1])

\* The claim of db.rs:634-636: alts count under their player, and characters
\* without one on their own; so every run that is there throughout counts.
EveryRunIsCounted ==
  pc = "done" => \A h \in present : Counting(h) # {}
=============================================================================
