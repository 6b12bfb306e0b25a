------------------------------ MODULE Queries ------------------------------
(***************************************************************************)
(* The reading endpoints of src/handlers.rs over the SELECTs of src/db.rs, *)
(* one query a step, while other requests write: the totals of a character *)
(* and of a player, the debug statistics (seven queries), the roster of a  *)
(* guild, the pages of runs and of depletions, besides the leaderboard.    *)
(*                                                                         *)
(* A behaviour holds one read, of the endpoint chosen at the start, and    *)
(* the writes before its end that this endpoint can see.  As in            *)
(* Leaderboard, a count is represented by the set of runs it counted.      *)
(***************************************************************************)
EXTENDS Leaderboard, Integers, FiniteSetsExt

CONSTANTS
  Endpoints,   \* the reads a run explores
  Ran,         \* the keys each character is reported with
  Today, Week, \* the keys since midnight UTC, and in the last seven days
  TopLimit,    \* LIMIT of the top characters (20)
  NoLimit,     \* the limit parameter left out
  Limits,      \* the limits asked for
  PageDefault, \* the limit of each page if it is left out (200, 500, 50)
  PageCap,     \* the largest limit of each page (1000, 2000, 200)
  LowerRealm   \* str::to_lowercase on the realm of each guild

Pages == {"runs", "guild_runs", "depletions"}

ASSUME QueriesAssumption ==
  /\ Endpoints \subseteq {"leaderboard", "character", "player", "stats", "roster"} \cup Pages
  /\ Ran \in [Names -> SUBSET RunKeys]
  /\ Today \subseteq Week /\ Week \subseteq RunKeys
  /\ TopLimit \in Nat /\ PageDefault \in [Pages -> Nat] /\ PageCap \in [Pages -> Nat]
  /\ NoLimit \notin Int /\ Limits \subseteq Int \cup {NoLimit}
  /\ LowerRealm \in [Guilds -> Guilds]

VARIABLES
  endpoint, \* what is read in this behaviour
  at,       \* the query to make next, "idle" before and "done" after the read
  asked,    \* whose total, which roster, or how many runs were asked for
  owners,   \* the character ids read so far
  figures,  \* the figures read so far
  steady,   \* timed runs in the tables since the read began
  ever,     \* timed runs in the tables at some time since it began
  standing, \* ids of the character rows there since the dashboard was asked for
  filed,    \* ids of those there at some time since
  pulled    \* row id |-> the guild, as typed, of the latest pull it was in

read      == <<endpoint, at, asked, owners, figures>>
seen      == <<steady, ever, standing, filed, pulled>>
queryVars == <<vars, read, seen>>

\* The queries of the dashboard: the first counts rows, the others runs.
RunStats  == {"total", "today", "week", "dungeons", "levels", "top"}
Stats     == {"characters"} \cup RunStats
Following == [characters |-> "total", total |-> "today", today |-> "week", week |-> "dungeons",
              dungeons |-> "levels", levels |-> "top", top |-> "done"]

QueryTypeOK ==
  /\ TypeOK
  /\ endpoint \in Endpoints
  /\ at \in {"idle", "links", "count", "done"} \cup Stats
  /\ asked = NoLimit \/ IF endpoint \in Pages THEN asked \in Limits
                        ELSE asked \in Names \cup Players \cup Guilds
  /\ owners \subseteq 1 .. lastId
  /\ figures["characters"] \subseteq 1 .. lastId
  /\ \A f \in RunStats : figures[f] \subseteq Hashes
  /\ endpoint = "roster" \/ figures["answer"] \subseteq Hashes
  /\ steady \subseteq ever /\ ever \subseteq Hashes
  /\ standing \subseteq filed /\ filed \subseteq 1 .. lastId
  /\ pulled \in [DOMAIN pulled -> Guilds] /\ DOMAIN pulled \subseteq DOMAIN characters

QueryInit ==
  /\ Init
  /\ endpoint \in Endpoints
  /\ at = "idle"
  /\ asked = NoLimit
  /\ owners = {}
  /\ figures = [f \in Stats \cup {"answer"} |-> {}]
  /\ steady = {}
  /\ ever = {}
  /\ standing = {}
  /\ filed = {}
  /\ pulled = [i \in {} |-> NoGuild]

-----------------------------------------------------------------------------
(* The reads.                                                              *)

Timed == {h \in DOMAIN runs : runs[h].within_time}

\* A read of endpoint e begins; its figures are of the runs rs.
Begin(e, x, rs) ==
  /\ endpoint = e
  /\ at = "idle"
  /\ asked' = x
  /\ steady' = rs
  /\ ever' = Timed
  /\ standing' = IF e = "stats" THEN DOMAIN characters ELSE {}
  /\ filed' = standing'
  /\ UNCHANGED <<vars, endpoint, pulled>>

Answer(rows) ==
  /\ at' = "done"
  /\ figures' = [figures EXCEPT !["answer"] = rows]

\* get_character_keys looks the row up ...
GetCharacter(n) ==
  /\ Begin("character", n, Timed)
  /\ owners' = IdsOf(n)
  /\ at' = IF Known(n) THEN "count" ELSE "done"
  /\ UNCHANGED figures

\* get_player_keys looks the player up, then its links.
GetPlayer(p) ==
  /\ p \in players
  /\ Begin("player", p, {h \in Timed : runs[h].character_id \in CharacterIds(p)})
  /\ at' = "links"
  /\ UNCHANGED <<owners, figures>>

GetPlayerCharacterIds ==
  /\ at = "links"
  /\ owners' = CharacterIds(asked)
  /\ at' = "count"
  /\ UNCHANGED <<vars, endpoint, asked, figures, seen>>

\* ... and both count afterwards, under the ids they have read.
CountRead ==
  /\ at = "count"
  /\ Answer(Counted(owners))
  /\ UNCHANGED <<vars, endpoint, asked, owners, seen>>

\* get_debug_stats is called.
GetStats ==
  /\ Begin("stats", NoLimit, Timed)
  /\ at' = "characters"
  /\ UNCHANGED <<owners, figures>>

\* Mistake: today's runs are counted from week_start.
StatOfOneStart(f) ==
  CASE f = "characters"        -> DOMAIN characters
    [] f \in {"today", "week"} -> {h \in Timed : h[2] \in Week}
    [] OTHER                   -> Timed

StatOf(f) ==
  CASE f = "characters" -> DOMAIN characters
    [] f = "today"      -> {h \in Timed : h[2] \in Today}
    [] f = "week"       -> {h \in Timed : h[2] \in Week}
    [] OTHER            -> Timed

ReadStat(f) ==
  /\ at = f
  /\ at' = Following[f]
  /\ figures' = [figures EXCEPT ![f] = StatOf(f)]
  /\ UNCHANGED <<vars, endpoint, asked, owners, seen>>

RunsOf(rows, c) == {h \in rows : h[1] = c}

\* LIMIT n; a negative one is none.  Which rows it leaves is up to the ORDER BY.
Limited(rows, n) == kSubset(IF n < 0 THEN Cardinality(rows) ELSE Min({n, Cardinality(rows)}), rows)

\* GROUP BY c.id ORDER BY COUNT(r.id) DESC LIMIT n: the runs of the characters
\* with the most of `rows`, ties being broken somehow.
TopOf(rows, n) ==
  LET listed == {h[1] : h \in rows}
      Ranked(top) == \A c \in top, d \in listed \ top :
                       Cardinality(RunsOf(rows, c)) >= Cardinality(RunsOf(rows, d))
  IN {{h \in rows : h[1] \in top} : top \in {cs \in Limited(listed, n) : Ranked(cs)}}

ReadTop ==
  /\ at = "top"
  /\ at' = "done"
  /\ \E top \in TopOf(Timed, TopLimit) : figures' = [figures EXCEPT !["top"] = top]
  /\ UNCHANGED <<vars, endpoint, asked, owners, seen>>

\* get_guild_members compares both columns with the path as it was typed.
Roster(g) == {i \in DOMAIN characters : characters[i].guild = g}

GetRoster(g) ==
  /\ Begin("roster", g, Timed)
  /\ Answer(Roster(g))
  /\ UNCHANGED owners

\* Mistake: the cap is the least a page holds.
AtLeastTheCap(l) ==
  LET wanted == IF l = NoLimit THEN PageDefault[endpoint] ELSE l
  IN IF wanted < PageCap[endpoint] THEN PageCap[endpoint] ELSE wanted

\* query.limit.unwrap_or(..).min(..)
Limit(l) ==
  LET wanted == IF l = NoLimit THEN PageDefault[endpoint] ELSE l
  IN IF wanted < PageCap[endpoint] THEN wanted ELSE PageCap[endpoint]

\* list_runs; that a full page has the newest runs is left open.
GetRuns(l) ==
  /\ Begin("runs", l, Timed)
  /\ \E page \in Limited(Counted(DOMAIN characters), Limit(l)) : Answer(page)
  /\ UNCHANGED owners

\* list_runs_for_guild, of the guild as typed.
GetGuildRuns(g, l) ==
  /\ Begin("guild_runs", l, Timed)
  /\ \E page \in Limited(Counted(Roster(g)), Limit(l)) : Answer(page)
  /\ UNCHANGED owners

\* get_depletions; its limit is one of characters.
GetDepletions(l) ==
  /\ Begin("depletions", l, Timed)
  /\ LET depleted == {h \in DOMAIN runs : ~runs[h].within_time /\ h[2] \in InWindow}
     IN \E top \in TopOf(depleted, Limit(l)) : Answer(top)
  /\ UNCHANGED owners

Read ==
  \/ \E n \in Names : GetCharacter(n)
  \/ \E p \in Players : GetPlayer(p)
  \/ GetPlayerCharacterIds \/ CountRead
  \/ GetStats \/ ReadTop
  \/ \E f \in Stats \ {"top"} : ReadStat(f)
  \/ \E g \in Guilds : GetRoster(g)
  \/ \E l \in Limits : GetRuns(l) \/ GetDepletions(l) \/ \E g \in Guilds : GetGuildRuns(g, l)

ReadLeaderboard ==
  /\ endpoint = "leaderboard"
  /\ ListPlayers \/ CountRuns \/ ListUntracked \/ (\E p \in Players : ReadLinks(p))
  /\ UNCHANGED <<read, seen>>

-----------------------------------------------------------------------------
(* The writes, with what they do to the runs the read may count.           *)

Pulled(n, g) ==
  /\ endpoint \in {"roster", "guild_runs"}
  /\ Known(n) \/ lastId < MaxRows
  /\ UpsertCharacter(n, LowerRealm[g])
  /\ pulled' = [i \in DOMAIN pulled \cup {UpsertedId(n)} |->
                  IF i = UpsertedId(n) THEN g ELSE pulled[i]]
  /\ UNCHANGED <<reader, present, moved>>

Write ==
  /\ at # "done" /\ pc # "done"
  /\ \/ \E n \in Names, g \in Guilds : Pulled(n, g)
     \/ /\ \/ \E n \in Names : Upserted(n) \/ Deleted(n)
           \/ endpoint \in {"leaderboard", "player"} /\ \E n \in Names : Linked(n)
           \/ endpoint \in {"leaderboard", "player"} /\ at = "idle" /\ \E n \in Names : Seeded(n)
           \/ endpoint # "roster" /\ \E n \in Names, r \in Reports : r.key \in Ran[n] /\ Inserted(n, r)
        /\ pulled' = [i \in DOMAIN pulled \cap DOMAIN characters' |-> pulled[i]]
  /\ steady' = steady \cap DOMAIN runs'
  /\ ever' = IF at = "idle" THEN ever ELSE ever \cup Timed'
  /\ standing' = standing \cap DOMAIN characters'
  /\ filed' = IF at \in Stats THEN filed \cup DOMAIN characters' ELSE filed
  /\ UNCHANGED read

QueryNext == ReadLeaderboard \/ Read \/ Write

QuerySpec == QueryInit /\ [][QueryNext]_queryVars

-----------------------------------------------------------------------------
(* Properties.                                                             *)

\* What a total may count: runs of the character or the player asked for.
Own(h) ==
  CASE endpoint = "character" -> h[1] = Lower[asked]
    [] endpoint = "player"    -> asked \in Declaring(h[1])
    [] OTHER                  -> FALSE

\* A total has only runs of the character or player it was asked for, each of
\* which was on file at some time during the read; and it has every such run
\* that was on file, and linked, throughout.  The row id the first query found
\* is not another character's by the time the second counts under it
\* (handlers.rs:249-280, 306-338).
TotalsAreExact ==
  endpoint \in {"character", "player"} /\ at = "done" /\ owners # {} =>
    LET total == figures["answer"]
    IN /\ \A h \in total : Own(h) /\ h \in ever
       /\ \A h \in steady : Own(h) /\ h[2] \in InWindow => h \in total

\* The seven queries of the dashboard see different tables, but each figure
\* has all that it counts and that was there throughout, and nothing that it
\* does not count or that never was there: the rows of characters, all timed
\* runs, those of today, those of the week (db.rs:475-531).  The list of the top
\* characters is no longer than its limit and has all the steady runs of those
\* on it; a character misses it only if it is full of characters with no fewer
\* runs than that one had all along (db.rs:533-565).
FiguresBracketTheTables ==
  endpoint = "stats" /\ at = "done" =>
    LET Since(rs, keys) == {h \in rs : h[2] \in keys}
        Between(f, keys) == /\ Since(steady, keys) \subseteq figures[f]
                            /\ figures[f] \subseteq Since(ever, keys)
        top == figures["top"]
    IN /\ standing \subseteq figures["characters"] /\ figures["characters"] \subseteq filed
       /\ Between("total", RunKeys) /\ Between("dungeons", RunKeys) /\ Between("levels", RunKeys)
       /\ Between("today", Today) /\ Between("week", Week)
       /\ top \subseteq ever /\ Cardinality({h[1] : h \in top}) <= TopLimit
       /\ \A c \in {h[1] : h \in steady \ top} :
            /\ Cardinality({h[1] : h \in top}) = TopLimit
            /\ \A h \in top : /\ h[1] # c
                              /\ Cardinality(RunsOf(top, h[1])) >= Cardinality(RunsOf(steady, c))

\* The roster of a guild lists the members whose latest pull was of that
\* guild, whatever case its realm was typed in then, and no one else: neither
\* updates, which know no guild, nor deletes and re-creations disturb it.  It
\* must be asked for with the realm in lowercase (db.rs:79, 331).  The runs on a
\* page of a guild are of such members, all of one guild.
RosterIsTheLatestPull ==
  at = "done" =>
    /\ endpoint = "roster" /\ LowerRealm[asked] = asked =>
         figures["answer"] = {i \in DOMAIN pulled : LowerRealm[pulled[i]] = asked}
    /\ endpoint = "guild_runs" =>
         \E g \in Guilds : \A h \in figures["answer"] :
           LET i == runs[h].character_id IN i \in DOMAIN pulled /\ LowerRealm[pulled[i]] = g

\* No limit, however large, gets more runs than the cap; a negative one does
\* (handlers.rs:444, 538, 679).
PagesAreCapped ==
  endpoint \in Pages /\ at = "done" =>
    LET page == figures["answer"]
    IN \/ Cardinality(IF endpoint = "depletions" THEN {h[1] : h \in page} ELSE page)
            <= PageCap[endpoint]
       \/ asked < 0
=============================================================================
