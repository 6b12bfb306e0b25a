----------------------------- MODULE QueryProofs -----------------------------
(***************************************************************************)
(* Proofs about Leaderboard and Queries: what a read of several queries    *)
(* returns while other requests write, for tables of any size.             *)
(***************************************************************************)
EXTENDS Queries, DatabaseProofs, FiniteSetTheorems

-----------------------------------------------------------------------------
(* The leaderboard: its inductive invariant.                               *)

\* A link is to a player that declares the character, and goes with its row.
LinksAreOwned ==
  \A l \in links : l[2] \in DOMAIN characters /\ l[1] \in Declaring(characters[l[2]].name)

\* The ids that were read and are still in use are linked to the player.
IdsAreLinked ==
  pc = "count" =>
    /\ player \in Players \ todo
    /\ ids \subseteq 1 .. lastId
    /\ \A i \in ids : i \in DOMAIN characters => <<player, i>> \in links

\* Each player has one entry at most, made after it was taken from `todo`, of
\* its own runs; those that are there throughout are still linked to it.
EntriesAreOwned ==
  /\ pc \in {"links", "count"} => \A e \in entries : e.player \in Players
  /\ \A e \in entries :
       e.player \in Players =>
         /\ e.player \notin todo
         /\ pc = "count" => e.player # player
         /\ \A h \in e.rows : e.player \in Declaring(h[1])
         /\ \A h \in e.rows : h \in present => <<e.player, runs[h].character_id>> \in links
  /\ \A e, f \in entries : e.player \in Players /\ e.player = f.player => e = f

\* A run of a character whose links are as they were is counted under its
\* player, or is still to come.
NoneIsPassedOver ==
  pc \in {"links", "count"} =>
    \A h \in present, p \in Players :
      runs[h].character_id \notin moved /\ <<p, runs[h].character_id>> \in links =>
        \/ p \in todo
        \/ pc = "count" /\ player = p /\ runs[h].character_id \in ids
        \/ \E e \in entries : e.player = p /\ h \in e.rows

BoardInv ==
  /\ TypeOK /\ DbInv
  /\ players = Players
  /\ LinksAreOwned
  /\ pc = "idle" => entries = {} /\ present = {}
  /\ present \subseteq Counted(DOMAIN characters)
  /\ IdsAreLinked /\ EntriesAreOwned /\ NoneIsPassedOver
  /\ NoRunCountsTwice /\ SteadyRunsCountForTheirPlayers

-----------------------------------------------------------------------------
(* What the other requests may do under a read.                            *)

BoardWrite ==
  \/ \E n \in Names, guild \in Guilds \cup {NoGuild} :
       UpsertCharacter(n, guild) /\ UNCHANGED <<reader, present, moved>>
  \/ \E n \in Names : Linked(n) \/ Seeded(n) \/ Deleted(n)
  \/ \E n \in Names, r \in Reports : Inserted(n, r)

\* A run that is there throughout keeps its row, and a link that is new is of
\* a character that counts as moved; one that is gone went with its character.
Undisturbed ==
  /\ UNCHANGED <<reader, players>>
  /\ lastId \in Nat /\ lastId' \in Nat /\ lastId <= lastId'
  /\ present' \subseteq present /\ moved \subseteq moved' /\ moved' \subseteq Nat
  /\ \A h \in present' : h \in DOMAIN runs' /\ runs'[h] = runs[h]
  /\ \A h \in DOMAIN runs : h \in DOMAIN runs' => runs'[h] = runs[h]
  /\ \E h : DOMAIN runs' \subseteq DOMAIN runs \cup {h}
  /\ \A l \in links' : l \in links \/ l[2] \in moved'
  /\ \A l \in links : l \in links' \/ l[2] \notin DOMAIN characters'
  /\ \A i \in DOMAIN characters' :
       \/ i \in DOMAIN characters /\ characters'[i].name = characters[i].name
       \/ i > lastId

LEMMA OwnerType ==
  /\ NoPlayer \notin Players
  /\ \A n \in Names : PlayerOf[n] \in Declaring(Lower[n]) \cup {NoPlayer}
  /\ \A n \in Names : Owners[n] \subseteq Declaring(Lower[n])
BY LeaderboardAssumption DEF Declaring

LEMMA UpsertUnderRead ==
  ASSUME BoardInv, NEW n \in Names, NEW guild \in Guilds \cup {NoGuild},
         UpsertCharacter(n, guild), UNCHANGED <<reader, present, moved>>
  PROVE  DbInv' /\ LinksAreOwned' /\ Undisturbed
<1>1. DbInv' /\ IdsAreStable
  BY UpsertCharacterLemma DEF BoardInv
<1>2. UNCHANGED <<players, links, runs>> /\ DOMAIN characters \subseteq DOMAIN characters'
  BY DEF UpsertCharacter
<1>3. DOMAIN characters \subseteq 1 .. lastId /\ lastId \in Nat
  BY DEF BoardInv, DbInv, DatabaseTypeOK
<1>4. \A i \in DOMAIN characters : i \in DOMAIN characters' /\ characters'[i].name = characters[i].name
  BY <1>1, <1>2, <1>3 DEF IdsAreStable
<1>5. LinksAreOwned'
  BY <1>2, <1>4 DEF BoardInv, LinksAreOwned
<1>6. present \subseteq DOMAIN runs /\ moved \subseteq Nat
  BY DEF BoardInv, TypeOK, Counted
<1> QED
  BY <1>1, <1>2, <1>3, <1>5, <1>6 DEF Undisturbed, IdsAreStable

LEMMA InsertUnderRead ==
  ASSUME BoardInv, NEW n \in Names, NEW r \in Reports, Inserted(n, r)
  PROVE  DbInv' /\ LinksAreOwned' /\ Undisturbed
<1>1. PICK id \in IdsOf(n) : InsertRun(id, n, r)
  BY DEF Inserted
<1>2. Carries(id, n) /\ lastId \in Nat
  BY DEF IdsOf, Normalised, Carries, BoardInv, DbInv, DatabaseTypeOK
<1>3. DbInv' /\ IdsAreStable
  BY <1>1, <1>2, InsertRunLemma DEF BoardInv
<1>4. UNCHANGED <<characters, lastId, players, links, reader, present, moved>>
  BY <1>1 DEF InsertRun, Inserted
<1>5. /\ \A h \in DOMAIN runs : h \in DOMAIN runs' /\ runs'[h] = runs[h]
      /\ DOMAIN runs' = DOMAIN runs \cup {run_hash(n, r)}
  BY <1>1 DEF InsertRun
<1>6. present \subseteq DOMAIN runs /\ moved \subseteq Nat
  BY DEF BoardInv, TypeOK, Counted
<1>7. \E h : DOMAIN runs' \subseteq DOMAIN runs \cup {h}
  BY <1>5
<1> QED
  BY <1>2, <1>3, <1>4, <1>5, <1>6, <1>7 DEF Undisturbed, IdsAreStable, LinksAreOwned, BoardInv

LEMMA LinkUnderRead ==
  ASSUME BoardInv, NEW n \in Names, NEW p, p \in Declaring(Lower[n]) \cup {NoPlayer}, LinkTo(p, n)
  PROVE  DbInv' /\ LinksAreOwned' /\ Undisturbed
<1>1. PICK id \in IdsOf(n) : LinkPlayerCharacter(p, id) /\ moved' = moved \cup {id}
  BY DEF LinkTo
<1>2. lastId \in Nat /\ id \in DOMAIN characters /\ id \in Nat /\ characters[id].name = Lower[n]
  BY DEF IdsOf, Normalised, BoardInv, DbInv, DatabaseTypeOK
<1>3. p \in Players /\ p \in Declaring(Lower[n])
  BY <1>1, OwnerType DEF LinkPlayerCharacter, CanLink, BoardInv
<1>4. DbInv' /\ IdsAreStable
  BY <1>1, <1>2, <1>3, LinkLemma DEF BoardInv
<1>5. UNCHANGED <<characters, lastId, players, runs, reader, present>>
      /\ links' = links \cup {<<p, id>>}
  BY <1>1 DEF LinkTo, LinkPlayerCharacter
<1>6. LinksAreOwned'
  <2>1. <<p, id>>[1] = p /\ <<p, id>>[2] = id
    OBVIOUS
  <2> QED
    BY <1>2, <1>3, <1>5, <2>1 DEF LinksAreOwned, BoardInv
<1>7. present \subseteq DOMAIN runs /\ moved \subseteq Nat
  BY DEF BoardInv, TypeOK, Counted
<1>8. \A l \in links' : l \in links \/ l[2] \in moved'
  <2>1. <<p, id>>[2] = id
    OBVIOUS
  <2> QED
    BY <1>1, <1>5, <2>1
<1>9. \A l \in links : l \in links'
  BY <1>5
<1>10. \A h \in present' : h \in DOMAIN runs' /\ runs'[h] = runs[h]
  BY <1>5, <1>7
<1>11. moved \subseteq moved' /\ moved' \subseteq Nat
  BY <1>1, <1>2, <1>7
<1> QED
  BY <1>2, <1>4, <1>5, <1>6, <1>8, <1>9, <1>10, <1>11 DEF Undisturbed

LEMMA DeleteUnderRead ==
  ASSUME BoardInv, NEW n, Deleted(n)
  PROVE  DbInv' /\ LinksAreOwned' /\ Undisturbed
<1>1. DbInv' /\ IdsAreStable
  BY DeleteCharacterLemma DEF BoardInv, Deleted
<1>2. UNCHANGED <<lastId, players, reader, moved>> /\ lastId \in Nat
  BY DEF Deleted, DeleteCharacter, BoardInv, DbInv, DatabaseTypeOK
<1>3. /\ DOMAIN characters' \subseteq DOMAIN characters
      /\ \A i \in DOMAIN characters' : characters'[i] = characters[i]
      /\ links' = {l \in links : l[2] \in DOMAIN characters'}
      /\ DOMAIN runs' \subseteq DOMAIN runs
      /\ \A h \in DOMAIN runs' : runs'[h] = runs[h]
  BY DEF Deleted, DeleteCharacter
<1>4. present' = present \cap DOMAIN runs' /\ moved \subseteq Nat
  BY DEF Deleted, BoardInv, TypeOK
<1>5. LinksAreOwned'
  BY <1>3 DEF LinksAreOwned, BoardInv
<1> QED
  BY <1>1, <1>2, <1>3, <1>4, <1>5 DEF Undisturbed

LEMMA WriteUnderRead ==
  ASSUME BoardInv, BoardWrite
  PROVE  DbInv' /\ LinksAreOwned' /\ Undisturbed
<1>1. \A n \in Names : \A p \in Owners[n] : p \in Declaring(Lower[n]) \cup {NoPlayer}
  BY OwnerType
<1>2. ASSUME NEW n \in Names, Linked(n) \/ Seeded(n)
      PROVE  DbInv' /\ LinksAreOwned' /\ Undisturbed
  BY <1>1, <1>2, LinkUnderRead, OwnerType DEF Linked, Seeded
<1> QED
  BY <1>2, UpsertUnderRead, InsertUnderRead, DeleteUnderRead DEF BoardWrite

\* A write keeps the invariant, whatever query comes next.
LEMMA BoardWriteKeeps ==
  ASSUME BoardInv, DbInv', LinksAreOwned', Undisturbed
  PROVE  BoardInv'
<1>1. UNCHANGED <<pc, todo, player, ids, entries, players>>
  BY DEF Undisturbed, reader
<1>2. present' \subseteq present /\ \A h \in present' : h \in DOMAIN runs' /\ runs'[h] = runs[h]
  BY DEF Undisturbed
<1>3. TypeOK'
  BY <1>1, <1>2 DEF BoardInv, TypeOK, DbInv, Undisturbed
<1>4. \A h \in present' : runs'[h].character_id \in DOMAIN characters'
  BY <1>2 DEF DbInv, RunsBelongToTheirCharacter
<1>5. present' \subseteq Counted(DOMAIN characters)'
  BY <1>2, <1>4 DEF BoardInv, Counted
<1>6. IdsAreLinked'
  <2> SUFFICES ASSUME pc' = "count"
               PROVE  /\ player' \in Players \ todo'
                      /\ ids' \subseteq 1 .. lastId'
                      /\ \A i \in ids' : i \in DOMAIN characters' => <<player', i>> \in links'
    BY DEF IdsAreLinked
  <2>1. /\ player \in Players \ todo /\ ids \subseteq 1 .. lastId
        /\ \A i \in ids : i \in DOMAIN characters => <<player, i>> \in links
    BY <1>1 DEF BoardInv, IdsAreLinked
  <2>2. ASSUME NEW i \in ids, i \in DOMAIN characters'
        PROVE  <<player, i>> \in links'
    <3>1. i \in DOMAIN characters
      BY <2>1, <2>2 DEF Undisturbed
    <3>2. <<player, i>> \in links /\ <<player, i>>[2] = i
      BY <2>1, <3>1
    <3> QED
      BY <2>2, <3>2 DEF Undisturbed
  <2>3. ids \subseteq 1 .. lastId'
    BY <2>1 DEF Undisturbed
  <2> QED
    BY <1>1, <2>1, <2>2, <2>3
<1>7. \A p, h : h \in present' /\ <<p, runs[h].character_id>> \in links
                  => <<p, runs[h].character_id>> \in links'
  <2> SUFFICES ASSUME NEW p, NEW h \in present', <<p, runs[h].character_id>> \in links
               PROVE  <<p, runs[h].character_id>> \in links'
    OBVIOUS
  <2>1. PICK i : i = runs[h].character_id
    OBVIOUS
  <2>2. i \in DOMAIN characters' /\ <<p, i>>[2] = i
    BY <1>2, <1>4, <2>1
  <2> QED
    BY <2>1, <2>2 DEF Undisturbed
<1>8. EntriesAreOwned'
  BY <1>1, <1>2, <1>7 DEF BoardInv, EntriesAreOwned
<1>9. NoneIsPassedOver'
  <2> SUFFICES ASSUME pc' \in {"links", "count"}, NEW h \in present', NEW p \in Players,
                      runs'[h].character_id \notin moved', <<p, runs'[h].character_id>> \in links'
               PROVE  \/ p \in todo'
                      \/ pc' = "count" /\ player' = p /\ runs'[h].character_id \in ids'
                      \/ \E e \in entries' : e.player = p /\ h \in e.rows
    BY DEF NoneIsPassedOver
  <2>1. h \in present /\ runs'[h] = runs[h]
    BY <1>2
  <2>2. PICK i : i = runs[h].character_id
    OBVIOUS
  <2>3. i \notin moved' /\ i \notin moved /\ <<p, i>>[2] = i
    BY <2>1, <2>2 DEF Undisturbed
  <2>4. <<p, i>> \in links
    BY <2>1, <2>2, <2>3 DEF Undisturbed
  <2> QED
    BY <1>1, <2>1, <2>2, <2>3, <2>4 DEF BoardInv, NoneIsPassedOver
<1>10. NoRunCountsTwice'
  BY <1>1, <1>2 DEF BoardInv, NoRunCountsTwice, Counting
<1>11. SteadyRunsCountForTheirPlayers'
  <2> SUFFICES ASSUME pc' = "done", NEW h \in present', runs'[h].character_id \notin moved'
               PROVE  {e.player : e \in Counting(h)'} =
                        IF HoldersOf(h)' = {} THEN {NoPlayer} ELSE HoldersOf(h)'
    BY DEF SteadyRunsCountForTheirPlayers
  <2>1. h \in present /\ runs'[h] = runs[h]
    BY <1>2
  <2>2. PICK i : i = runs[h].character_id
    OBVIOUS
  <2>3. i \notin moved' /\ i \notin moved
    BY <2>1, <2>2 DEF Undisturbed
  <2>4. ASSUME NEW p \in Players, <<p, i>> \in links'
        PROVE  <<p, i>> \in links
    <3>1. <<p, i>>[2] = i
      OBVIOUS
    <3> QED
      BY <2>3, <2>4, <3>1 DEF Undisturbed
  <2>5. \A p \in Players : <<p, i>> \in links <=> <<p, i>> \in links'
    BY <1>7, <2>2, <2>4
  <2>6. HoldersOf(h)' = HoldersOf(h)
    BY <2>1, <2>2, <2>5 DEF HoldersOf
  <2>7. Counting(h)' = Counting(h)
    BY <1>1 DEF Counting
  <2> QED
    BY <1>1, <2>1, <2>2, <2>3, <2>6, <2>7 DEF BoardInv, SteadyRunsCountForTheirPlayers
<1> QED
  BY <1>1, <1>2, <1>3, <1>5, <1>6, <1>8, <1>9, <1>10, <1>11 DEF BoardInv

-----------------------------------------------------------------------------
(* The queries of the leaderboard.                                         *)

LEMMA ReadsKeepTables ==
  ASSUME BoardInv, UNCHANGED tables
  PROVE  /\ UNCHANGED <<characters, lastId, players, links, runs>>
         /\ DbInv' /\ LinksAreOwned' /\ players' = Players
BY NoStatementLemma DEF BoardInv, tables, LinksAreOwned

LEMMA CountedType ==
  ASSUME DbInv, NEW cs
  PROVE  /\ Counted(cs) \subseteq Hashes
         /\ Counted(cs) \subseteq Counted(DOMAIN characters)
         /\ \A h \in Counted(cs) : h \in DOMAIN runs /\ runs[h].character_id \in cs
BY DEF Counted, DbInv, DatabaseTypeOK, RunsBelongToTheirCharacter

LEMMA ListPlayersKeeps ==
  ASSUME BoardInv, ListPlayers
  PROVE  BoardInv'
<1>1. /\ UNCHANGED <<characters, lastId, players, links, runs>>
      /\ DbInv' /\ LinksAreOwned' /\ players' = Players
  BY ReadsKeepTables DEF ListPlayers
<1>2. /\ entries = {} /\ pc = "idle" /\ pc' = "links" /\ todo' = players /\ moved' = {}
      /\ present' = Counted(DOMAIN characters) /\ UNCHANGED <<player, ids, entries>>
  BY DEF ListPlayers, BoardInv
<1>3. present' \subseteq Hashes /\ present' \subseteq Counted(DOMAIN characters)'
  BY <1>1, <1>2, CountedType DEF BoardInv, Counted
<1>4. TypeOK'
  BY <1>1, <1>2, <1>3 DEF BoardInv, TypeOK, DbInv
<1>5. IdsAreLinked' /\ EntriesAreOwned' /\ NoRunCountsTwice' /\ SteadyRunsCountForTheirPlayers'
  BY <1>2 DEF IdsAreLinked, EntriesAreOwned, NoRunCountsTwice, SteadyRunsCountForTheirPlayers
<1>6. NoneIsPassedOver'
  BY <1>1, <1>2 DEF NoneIsPassedOver
<1> QED
  BY <1>1, <1>2, <1>3, <1>4, <1>5, <1>6 DEF BoardInv

LEMMA LinkOf ==
  ASSUME DbInv, NEW p
  PROVE  \A i : i \in CharacterIds(p) <=> <<p, i>> \in links
<1>1. \A l \in links : l = <<l[1], l[2]>>
  BY DEF DbInv, DatabaseTypeOK
<1>2. \A i : <<p, i>>[1] = p /\ <<p, i>>[2] = i
  OBVIOUS
<1> QED
  BY <1>1, <1>2 DEF CharacterIds

LEMMA ReadLinksKeeps ==
  ASSUME BoardInv, NEW p \in Players, ReadLinks(p)
  PROVE  BoardInv'
<1>1. /\ UNCHANGED <<characters, lastId, players, links, runs>>
      /\ DbInv' /\ LinksAreOwned' /\ players' = Players
  BY ReadsKeepTables DEF ReadLinks
<1>2. /\ pc = "links" /\ p \in todo /\ todo' = todo \ {p} /\ UNCHANGED <<entries, present, moved>>
      /\ \/ CharacterIds(p) = {} /\ UNCHANGED <<pc, player, ids>>
         \/ CharacterIds(p) # {} /\ pc' = "count" /\ player' = p /\ ids' = CharacterIds(p)
  BY DEF ReadLinks
<1>3. \A i : i \in CharacterIds(p) <=> <<p, i>> \in links
  BY LinkOf DEF BoardInv
<1>4. \A i \in CharacterIds(p) : i \in DOMAIN characters /\ i \in 1 .. lastId /\ i \in Nat
  <2>1. DOMAIN characters \subseteq 1 .. lastId /\ lastId \in Nat
    BY DEF BoardInv, DbInv, DatabaseTypeOK
  <2>2. ASSUME NEW i \in CharacterIds(p)
        PROVE  i \in DOMAIN characters
    <3>1. <<p, i>> \in links /\ <<p, i>>[2] = i
      BY <1>3, <2>2
    <3> QED
      BY <3>1 DEF BoardInv, LinksAreOwned
  <2> QED
    BY <2>1, <2>2
<1>5. TypeOK'
  BY <1>1, <1>2, <1>4 DEF BoardInv, TypeOK, DbInv
<1>6. IdsAreLinked'
  BY <1>1, <1>2, <1>3, <1>4 DEF IdsAreLinked
<1>7. EntriesAreOwned'
  BY <1>1, <1>2 DEF BoardInv, EntriesAreOwned
<1>8. NoneIsPassedOver'
  BY <1>1, <1>2, <1>3 DEF BoardInv, NoneIsPassedOver
<1>9. NoRunCountsTwice' /\ SteadyRunsCountForTheirPlayers' /\ pc' \in {"links", "count"}
  BY <1>2 DEF NoRunCountsTwice, SteadyRunsCountForTheirPlayers
<1>10. present' \subseteq Counted(DOMAIN characters)'
  BY <1>1, <1>2 DEF BoardInv, Counted
<1> QED
  BY <1>1, <1>5, <1>6, <1>7, <1>8, <1>9, <1>10 DEF BoardInv

LEMMA CountRunsKeeps ==
  ASSUME BoardInv, CountRuns
  PROVE  BoardInv'
<1>1. /\ UNCHANGED <<characters, lastId, players, links, runs>>
      /\ DbInv' /\ LinksAreOwned' /\ players' = Players
  BY ReadsKeepTables DEF CountRuns
<1> DEFINE new == [player |-> player, id |-> 0, rows |-> Counted(ids)]
<1>2. /\ pc = "count" /\ pc' = "links" /\ player' = NoPlayer /\ ids' = {}
      /\ UNCHANGED <<todo, present, moved>>
      /\ entries' = entries \cup {e \in {new} : e.rows # {}}
  BY DEF CountRuns, Entered
<1>3. /\ player \in Players \ todo
      /\ \A i \in ids : i \in DOMAIN characters => <<player, i>> \in links
  BY <1>2 DEF BoardInv, IdsAreLinked
<1>4. new.player = player /\ new.rows = Counted(ids) /\ new \in Entries
  BY <1>3, CountedType DEF BoardInv, Entries
<1>5. \A h \in Counted(ids) :
        player \in Declaring(h[1]) /\ <<player, runs[h].character_id>> \in links
  <2> SUFFICES ASSUME NEW h \in Counted(ids)
               PROVE  player \in Declaring(h[1]) /\ <<player, runs[h].character_id>> \in links
    OBVIOUS
  <2>1. PICK i : i = runs[h].character_id
    OBVIOUS
  <2>2. i \in ids /\ i \in DOMAIN characters /\ characters[i].name = h[1]
    BY <2>1 DEF Counted, BoardInv, DbInv, RunsBelongToTheirCharacter
  <2>3. <<player, i>> \in links /\ <<player, i>>[1] = player /\ <<player, i>>[2] = i
    BY <1>3, <2>2
  <2> QED
    BY <2>1, <2>2, <2>3 DEF BoardInv, LinksAreOwned
<1> HIDE DEF new
<1>6. TypeOK'
  BY <1>1, <1>2, <1>4 DEF BoardInv, TypeOK, DbInv
<1>7. EntriesAreOwned'
  <2>1. \A e \in entries : e.player \in Players /\ e.player # player
    BY <1>2 DEF BoardInv, EntriesAreOwned
  <2>2. \A e \in entries' : e \in entries \/ e = new
    BY <1>2
  <2> QED
    BY <1>1, <1>2, <1>3, <1>4, <1>5, <2>1, <2>2 DEF BoardInv, EntriesAreOwned
<1>8. NoneIsPassedOver'
  <2> SUFFICES ASSUME NEW h \in present, NEW p \in Players, NEW i, i = runs[h].character_id,
                      i \notin moved, <<p, i>> \in links
               PROVE  p \in todo \/ \E e \in entries' : e.player = p /\ h \in e.rows
    BY <1>1, <1>2 DEF NoneIsPassedOver
  <2>1. CASE player = p /\ i \in ids
    <3>1. h \in Counted(ids)
      BY <2>1 DEF BoardInv, Counted
    <3>2. new \in entries'
      BY <1>2, <1>4, <3>1
    <3> QED
      BY <1>4, <2>1, <3>1, <3>2
  <2>2. CASE ~ (player = p /\ i \in ids)
    BY <1>2, <2>2 DEF BoardInv, NoneIsPassedOver
  <2> QED
    BY <2>1, <2>2
<1>9. IdsAreLinked' /\ NoRunCountsTwice' /\ SteadyRunsCountForTheirPlayers'
  BY <1>2 DEF IdsAreLinked, NoRunCountsTwice, SteadyRunsCountForTheirPlayers
<1>10. present' \subseteq Counted(DOMAIN characters)'
  BY <1>1, <1>2 DEF BoardInv, Counted
<1> QED
  BY <1>1, <1>2, <1>6, <1>7, <1>8, <1>9, <1>10 DEF BoardInv

LEMMA ListUntrackedKeeps ==
  ASSUME BoardInv, ListUntracked
  PROVE  BoardInv'
<1>1. /\ UNCHANGED <<characters, lastId, players, links, runs>>
      /\ DbInv' /\ LinksAreOwned' /\ players' = Players
  BY ReadsKeepTables DEF ListUntracked
<1> DEFINE single(i) == [player |-> NoPlayer, id |-> i, rows |-> Counted({i})]
<1>2. /\ pc = "links" /\ todo = {} /\ pc' = "done" /\ UNCHANGED <<todo, player, ids, present, moved>>
      /\ entries' = entries \cup {e \in {single(i) : i \in Untracked} : e.rows # {}}
  BY DEF ListUntracked, Entered
<1>3. \A i \in Untracked : /\ i \in DOMAIN characters /\ i \in Nat
                          /\ \A p : <<p, i>> \notin links
  <2>1. \A p, i : <<p, i>>[2] = i
    OBVIOUS
  <2> QED
    BY <2>1 DEF Untracked, BoardInv, DbInv, DatabaseTypeOK
<1>4. \A i \in Untracked : /\ single(i) \in Entries /\ single(i).player = NoPlayer
                          /\ single(i).rows = Counted({i})
  BY <1>3, CountedType DEF BoardInv, Entries
<1> HIDE DEF single
<1>5. \A e \in entries' : \/ e \in entries /\ e.player \in Players
                         \/ \E i \in Untracked : e = single(i)
  BY <1>2 DEF BoardInv, EntriesAreOwned
<1>6. TypeOK'
  BY <1>1, <1>2, <1>4, <1>5 DEF BoardInv, TypeOK, DbInv
<1>7. EntriesAreOwned'
  <2>1. \A e \in entries' : e.player \in Players => e \in entries
    BY <1>4, <1>5, OwnerType
  <2> QED
    BY <1>1, <1>2, <2>1 DEF BoardInv, EntriesAreOwned
<1>8. ASSUME NEW h \in present, NEW i, i = runs[h].character_id
      PROVE  /\ i \in DOMAIN characters /\ h \in Counted({i})
             /\ \A e \in entries' : h \in e.rows =>
                  \/ e \in entries /\ e.player \in Players /\ <<e.player, i>> \in links
                  \/ i \in Untracked /\ e = single(i) /\ e.player = NoPlayer
  <2>1. i \in DOMAIN characters /\ h \in Counted({i})
    BY <1>8 DEF BoardInv, Counted
  <2>2. \A k \in Untracked : h \in single(k).rows => k = i
    BY <1>4, <1>8 DEF Counted
  <2>3. \A e \in entries : e.player \in Players /\ h \in e.rows => <<e.player, i>> \in links
    BY <1>8 DEF BoardInv, EntriesAreOwned
  <2> QED
    BY <1>4, <1>5, <2>1, <2>2, <2>3
<1>9. NoRunCountsTwice'
  <2> SUFFICES ASSUME NEW h \in present, NEW e \in entries', NEW f \in entries',
                      h \in e.rows, h \in f.rows, e # f
               PROVE  {e.player, f.player} \subseteq Players /\ e.player # f.player
    BY <1>2 DEF NoRunCountsTwice, Counting
  <2>1. PICK i : i = runs[h].character_id
    OBVIOUS
  <2>2. CASE i \in Untracked
    <3>1. \A q : <<q, i>> \notin links
      BY <1>3, <2>2
    <3>2. e = single(i)
      BY <1>8, <2>1, <3>1
    <3>3. f = single(i)
      BY <1>8, <2>1, <3>1
    <3> QED
      BY <3>2, <3>3
  <2>3. CASE i \notin Untracked
    <3>1. e \in entries /\ f \in entries /\ e.player \in Players /\ f.player \in Players
      BY <1>8, <2>1, <2>3
    <3> QED
      BY <3>1 DEF BoardInv, EntriesAreOwned
  <2> QED
    BY <2>2, <2>3
<1>10. SteadyRunsCountForTheirPlayers'
  <2> SUFFICES ASSUME NEW h \in present, runs[h].character_id \notin moved
               PROVE  {e.player : e \in Counting(h)'} =
                        IF HoldersOf(h) = {} THEN {NoPlayer} ELSE HoldersOf(h)
    BY <1>1, <1>2 DEF SteadyRunsCountForTheirPlayers, HoldersOf
  <2>1. PICK i : i = runs[h].character_id
    OBVIOUS
  <2>2. HoldersOf(h) = {p \in Players : <<p, i>> \in links}
    BY <2>1 DEF HoldersOf
  <2>3. \A e : e \in Counting(h)' <=> e \in entries' /\ h \in e.rows
    BY DEF Counting
  <2>4. CASE i \in Untracked
    <3>1. HoldersOf(h) = {}
      BY <1>3, <2>2, <2>4
    <3>2. single(i) \in Counting(h)' /\ single(i).player = NoPlayer
      <4>1. h \in single(i).rows /\ single(i).player = NoPlayer
        BY <1>4, <1>8, <2>1, <2>4
      <4>2. single(i) \in entries'
        BY <1>2, <2>4, <4>1
      <4> QED
        BY <2>3, <4>1, <4>2
    <3>3. \A e \in Counting(h)' : e.player = NoPlayer
      BY <1>3, <1>8, <2>1, <2>3, <2>4
    <3> QED
      BY <3>1, <3>2, <3>3
  <2>5. CASE i \notin Untracked
    <3>1. \A e \in Counting(h)' : e.player \in HoldersOf(h)
      BY <1>8, <2>1, <2>2, <2>3, <2>5
    <3>2. ASSUME NEW p \in HoldersOf(h)
          PROVE  \E e \in Counting(h)' : e.player = p
      <4>1. p \in Players /\ <<p, i>> \in links
        BY <2>2
      <4>2. PICK e \in entries : e.player = p /\ h \in e.rows
        BY <1>2, <2>1, <4>1 DEF BoardInv, NoneIsPassedOver
      <4> QED
        BY <1>2, <2>3, <4>2
    <3>3. HoldersOf(h) # {}
      <4>1. PICK l \in links : l[2] = i
        BY <1>8, <2>1, <2>5 DEF Untracked
      <4>2. l[1] \in Players /\ <<l[1], i>> \in links
        BY <4>1 DEF BoardInv, DbInv, DatabaseTypeOK
      <4> QED
        BY <2>2, <4>2
    <3> QED
      BY <3>1, <3>2, <3>3
  <2> QED
    BY <2>4, <2>5
<1>11. IdsAreLinked' /\ NoneIsPassedOver'
  BY <1>2 DEF IdsAreLinked, NoneIsPassedOver
<1>12. present' \subseteq Counted(DOMAIN characters)'
  BY <1>1, <1>2 DEF BoardInv, Counted
<1> QED
  BY <1>1, <1>2, <1>6, <1>7, <1>9, <1>10, <1>11, <1>12 DEF BoardInv

LEMMA BoardStutterKeeps ==
  ASSUME BoardInv, UNCHANGED vars
  PROVE  BoardInv'
<1>1. /\ UNCHANGED <<characters, lastId, players, links, runs>>
      /\ DbInv' /\ LinksAreOwned' /\ players' = Players
  BY ReadsKeepTables DEF vars
<1>2. UNCHANGED <<pc, todo, player, ids, entries, present, moved>>
  BY DEF vars, reader
<1> QED
  BY <1>1, <1>2
  DEF BoardInv, TypeOK, DbInv, Counted, Counting, IdsAreLinked, EntriesAreOwned,
      NoneIsPassedOver, NoRunCountsTwice, SteadyRunsCountForTheirPlayers, HoldersOf

BoardRead == ListPlayers \/ CountRuns \/ ListUntracked \/ \E p \in Players : ReadLinks(p)

LEMMA BoardInvStep == BoardInv /\ (BoardRead \/ BoardWrite \/ UNCHANGED vars) => BoardInv'
BY ListPlayersKeeps, CountRunsKeeps, ListUntrackedKeeps, ReadLinksKeeps, WriteUnderRead,
   BoardWriteKeeps, BoardStutterKeeps DEF BoardRead

LEMMA BoardInvInit == Init => BoardInv
<1> SUFFICES ASSUME Init PROVE BoardInv
  OBVIOUS
<1>1. DOMAIN characters = {} /\ DOMAIN runs = {}
  BY DEF Init
<1>2. DbInv
  BY <1>1 DEF Init, DbInv, DatabaseTypeOK, OneRowPerCharacter, RunsBelongToTheirCharacter
<1> QED
  BY <1>1, <1>2
  DEF Init, BoardInv, TypeOK, DbInv, Counted, LinksAreOwned, IdsAreLinked, EntriesAreOwned,
      NoneIsPassedOver, NoRunCountsTwice, SteadyRunsCountForTheirPlayers

LEMMA BoardInvNext == BoardInv /\ [Next]_vars => BoardInv'
<1>1. Next => BoardRead \/ BoardWrite
  BY DEF Next, BoardRead, BoardWrite, Upserted
<1> QED
  BY <1>1, BoardInvStep

\* Each property follows from the invariant.
LEMMA OwnRuns == BoardInv => PlayersGetTheirOwnRuns
BY DEF BoardInv, EntriesAreOwned, PlayersGetTheirOwnRuns

\* The entries of a player have runs of its characters only, whatever is linked,
\* deleted, created and inserted between the queries.
THEOREM BoardOwnRuns == Spec => []PlayersGetTheirOwnRuns
BY BoardInvInit, BoardInvNext, OwnRuns, PTL DEF Spec

\* No run that is there throughout is in two entries of one player, or in one
\* of a player and one of its own, whoever declares or shares a character.
THEOREM BoardCountsNoneTwice == Spec => []NoRunCountsTwice
<1>1. BoardInv => NoRunCountsTwice
  BY DEF BoardInv
<1> QED
  BY BoardInvInit, BoardInvNext, <1>1, PTL DEF Spec

\* One whose character's links stay as they are is counted for exactly the
\* players it is linked to, a shared alt's for each, or else on its own.
THEOREM BoardCountsForPlayers == Spec => []SteadyRunsCountForTheirPlayers
<1>1. BoardInv => SteadyRunsCountForTheirPlayers
  BY DEF BoardInv
<1> QED
  BY BoardInvInit, BoardInvNext, <1>1, PTL DEF Spec

-----------------------------------------------------------------------------
(* The other endpoints: the inductive invariant.                           *)

\* Which queries an endpoint makes.
Protocol ==
  /\ at = "links" => endpoint = "player"
  /\ at = "count" => endpoint \in {"character", "player"}
  /\ at \in Stats => endpoint = "stats"
  /\ figures = [f \in Stats \cup {"answer"} |-> figures[f]]

\* The two bounds of a figure enclose what a query would count now.
Enclosed == at # "idle" => steady \subseteq Timed /\ Timed \subseteq ever

\* The ids that were read are of the character or player asked for, and none
\* is missing that has a run which is there throughout.
OwnersAreRight ==
  /\ at = "links" =>
       asked \in Players /\ \A h \in steady : <<asked, runs[h].character_id>> \in links
  /\ at = "count" =>
       /\ \A i \in owners :
            i \in DOMAIN characters =>
              /\ endpoint = "character" => characters[i].name = Lower[asked]
              /\ endpoint = "player" => asked \in Declaring(characters[i].name)
       /\ \A h \in steady :
            endpoint = "player" \/ h[1] = Lower[asked] => runs[h].character_id \in owners

\* The figures of the dashboard that have been read before `at`, the list of
\* the top characters aside.
Answered(q) ==
  CASE q = "total"    -> {"characters"}
    [] q = "today"    -> {"characters", "total"}
    [] q = "week"     -> {"characters", "total", "today"}
    [] q = "dungeons" -> {"characters", "total", "today", "week"}
    [] q = "levels"   -> {"characters", "total", "today", "week", "dungeons"}
    [] q = "top"      -> Stats \ {"top"}
    [] q = "done"     -> Stats \ {"top"}
    [] OTHER          -> {}

Selected(f, h) == (f = "today" => h[2] \in Today) /\ (f = "week" => h[2] \in Week)

FigureHolds(f) ==
  IF f = "characters" THEN standing \subseteq figures[f] /\ figures[f] \subseteq filed
  ELSE /\ \A h \in steady : Selected(f, h) => h \in figures[f]
       /\ \A h \in figures[f] : h \in ever /\ Selected(f, h)

StatsHold ==
  endpoint = "stats" =>
    /\ at \in Stats => standing \subseteq DOMAIN characters /\ DOMAIN characters \subseteq filed
    /\ \A f \in Answered(at) : FigureHolds(f)

\* A row has the guild of its latest pull, in lowercase, or none.
GuildsArePulled ==
  \A i \in DOMAIN characters :
    characters[i].guild = IF i \in DOMAIN pulled THEN LowerRealm[pulled[i]] ELSE NoGuild

QueryInv ==
  /\ BoardInv /\ QueryTypeOK /\ IsFiniteSet(DOMAIN runs)
  /\ Protocol /\ Enclosed /\ OwnersAreRight /\ StatsHold /\ GuildsArePulled
  /\ TotalsAreExact /\ FiguresBracketTheTables /\ RosterIsTheLatestPull /\ PagesAreCapped

-----------------------------------------------------------------------------
(* Pages and top lists.                                                    *)

LEMMA QueryConstants ==
  /\ Endpoints \subseteq {"leaderboard", "character", "player", "stats", "roster"} \cup Pages
  /\ Today \subseteq Week /\ TopLimit \in Nat
  /\ PageDefault \in [Pages -> Nat] /\ PageCap \in [Pages -> Nat]
  /\ NoLimit \notin Int /\ Limits \subseteq Int \cup {NoLimit}
  /\ \A g \in Guilds : LowerRealm[g] \in Guilds
  /\ NoGuild \notin Guilds
BY QueriesAssumption, DatabaseAssumption

LEMMA MinOfTwo ==
  ASSUME NEW n \in Int, NEW m \in Int
  PROVE  Min({n, m}) = IF n <= m THEN n ELSE m
BY DEF Min

\* A page has as many rows as it may have, or all there are.
LEMMA LimitedPage ==
  ASSUME NEW rows, IsFiniteSet(rows), NEW n \in Int, NEW page \in Limited(rows, n)
  PROVE  /\ page \subseteq rows /\ Cardinality(page) \in Nat
         /\ n >= 0 => Cardinality(page) <= n
         /\ n >= 0 /\ page # rows => Cardinality(page) = n
<1>1. PICK m \in Nat : m = Cardinality(rows)
  BY FS_CardinalityType
<1>2. page \subseteq rows /\ Cardinality(page) = IF n < 0 THEN m ELSE Min({n, m})
  BY <1>1 DEF Limited, kSubset
<1>3. Cardinality(page) = IF n < 0 \/ m < n THEN m ELSE n
  BY <1>1, <1>2, MinOfTwo
<1>4. page # rows => Cardinality(page) # m
  BY <1>1, <1>2, FS_Subset
<1> QED
  BY <1>1, <1>2, <1>3, <1>4

\* The characters of a top list: they have no fewer rows than those left out,
\* which there are only if the list is full.
LEMMA TopOfPage ==
  ASSUME NEW rows, IsFiniteSet(rows), NEW n \in Int, NEW top \in TopOf(rows, n)
  PROVE  LET listed == {h[1] : h \in rows}
             cs     == {h[1] : h \in top}
         IN /\ top \subseteq rows /\ Cardinality(cs) \in Nat
            /\ n >= 0 => Cardinality(cs) <= n
            /\ n >= 0 /\ cs # listed => Cardinality(cs) = n
            /\ \A h \in rows : h[1] \in cs => h \in top
            /\ \A c \in cs, d \in listed \ cs :
                 Cardinality(RunsOf(rows, c)) >= Cardinality(RunsOf(rows, d))
<1> DEFINE listed == {h[1] : h \in rows}
<1>1. PICK cs \in Limited(listed, n) :
        /\ top = {h \in rows : h[1] \in cs}
        /\ \A c \in cs, d \in listed \ cs :
             Cardinality(RunsOf(rows, c)) >= Cardinality(RunsOf(rows, d))
  BY DEF TopOf
<1>2. IsFiniteSet(listed)
  <2> DEFINE name == [h \in rows |-> h[1]]
  <2>1. name \in Surjection(rows, listed)
    BY DEF Surjection
  <2> QED
    BY <2>1, FS_Surjection
<1> HIDE DEF listed
<1>3. /\ cs \subseteq listed /\ Cardinality(cs) \in Nat
      /\ n >= 0 => Cardinality(cs) <= n
      /\ n >= 0 /\ cs # listed => Cardinality(cs) = n
  BY <1>2, LimitedPage
<1>4. {h[1] : h \in top} = cs
  BY <1>1, <1>3 DEF listed
<1> USE DEF listed
<1> QED
  BY <1>1, <1>3, <1>4

LEMMA LimitRange ==
  ASSUME endpoint \in Pages, NEW l \in Limits
  PROVE  /\ Limit(l) \in Int /\ PageCap[endpoint] \in Nat
         /\ Limit(l) <= PageCap[endpoint]
         /\ Limit(l) < 0 => l \in Int /\ l < 0
<1>1. PageDefault[endpoint] \in Nat /\ PageCap[endpoint] \in Nat
  BY QueryConstants
<1>2. l \in Int \/ l = NoLimit
  BY QueryConstants
<1> QED
  BY <1>1, <1>2, QueryConstants DEF Limit

-----------------------------------------------------------------------------
(* The steps of a read leave the tables alone.                             *)

LEMMA QueryTables ==
  ASSUME QueryInv
  PROVE  /\ Timed \subseteq Hashes /\ Timed \subseteq DOMAIN runs /\ DOMAIN runs \subseteq Hashes
         /\ IsFiniteSet(Timed)
         /\ \A cs : Counted(cs) \subseteq Timed /\ Counted(cs) \subseteq Hashes /\ IsFiniteSet(Counted(cs))
         /\ \A h \in Timed : /\ runs[h].character_id \in DOMAIN characters
                             /\ characters[runs[h].character_id].name = h[1]
         /\ DOMAIN characters \subseteq 1 .. lastId /\ lastId \in Nat
<1>1. DOMAIN runs \subseteq Hashes /\ IsFiniteSet(DOMAIN runs)
  BY DEF QueryInv, BoardInv, DbInv, DatabaseTypeOK
<1>2. Timed \subseteq DOMAIN runs /\ \A cs : Counted(cs) \subseteq Timed
  BY DEF Timed, Counted
<1>3. IsFiniteSet(Timed) /\ \A cs : IsFiniteSet(Counted(cs))
  BY <1>1, <1>2, FS_Subset
<1>4. \A h \in Timed : /\ runs[h].character_id \in DOMAIN characters
                      /\ characters[runs[h].character_id].name = h[1]
  BY <1>2 DEF QueryInv, BoardInv, DbInv, RunsBelongToTheirCharacter
<1>5. DOMAIN characters \subseteq 1 .. lastId /\ lastId \in Nat
  BY DEF QueryInv, BoardInv, DbInv, DatabaseTypeOK
<1> QED
  BY <1>1, <1>2, <1>3, <1>4, <1>5

SameTables == UNCHANGED <<characters, lastId, players, links, runs>>

LEMMA QueryFrame ==
  ASSUME QueryInv, BoardInv', SameTables
  PROVE  /\ TypeOK' /\ IsFiniteSet(DOMAIN runs)' /\ Timed' = Timed
         /\ UNCHANGED pulled => GuildsArePulled'
BY DEF QueryInv, BoardInv, SameTables, Timed, GuildsArePulled

LEMMA ReadFrame ==
  ASSUME QueryInv, UNCHANGED vars
  PROVE  BoardInv' /\ SameTables
<1>1. BoardInv'
  BY BoardInvStep DEF QueryInv
<1>2. SameTables
  BY DEF SameTables, vars, tables
<1> QED
  BY <1>1, <1>2

\* A read that is not of the leaderboard, or a step that changes nothing of it.
LEMMA ReadLeaderboardKeeps ==
  ASSUME QueryInv, BoardInv', SameTables, UNCHANGED <<read, seen>>
  PROVE  QueryInv'
<1>1. UNCHANGED <<endpoint, at, asked, owners, figures, steady, ever, standing, filed, pulled>>
  BY DEF read, seen
<1>2. UNCHANGED <<characters, lastId, players, links, runs>>
  BY DEF SameTables
<1>3. TypeOK' /\ IsFiniteSet(DOMAIN runs)' /\ Timed' = Timed /\ GuildsArePulled'
  BY <1>1, QueryFrame
<1>4. QueryTypeOK'
  BY <1>1, <1>2, <1>3 DEF QueryInv, QueryTypeOK
<1>5. Protocol' /\ Enclosed' /\ OwnersAreRight'
  BY <1>1, <1>2, <1>3 DEF QueryInv, Protocol, Enclosed, OwnersAreRight
<1>6. StatsHold'
  BY <1>1, <1>2 DEF QueryInv, StatsHold, FigureHolds, Answered, Selected
<1>7. TotalsAreExact' /\ FiguresBracketTheTables'
  BY <1>1 DEF QueryInv, TotalsAreExact, Own, FiguresBracketTheTables, RunsOf
<1>8. RosterIsTheLatestPull' /\ PagesAreCapped'
  BY <1>1, <1>2 DEF QueryInv, RosterIsTheLatestPull, PagesAreCapped
<1> QED
  BY <1>3, <1>4, <1>5, <1>6, <1>7, <1>8 DEF QueryInv

\* What the first query of a read has in common, whatever it is for.
LEMMA BeginFrame ==
  ASSUME QueryInv, NEW e, NEW x, NEW rs, rs \subseteq Timed, Begin(e, x, rs)
  PROVE  /\ BoardInv' /\ SameTables /\ TypeOK' /\ IsFiniteSet(DOMAIN runs)' /\ GuildsArePulled'
         /\ endpoint = e /\ endpoint' = e /\ asked' = x
         /\ steady' = rs /\ ever' = Timed /\ Timed' = Timed
         /\ Enclosed'
         /\ steady' \subseteq ever' /\ ever' \subseteq Hashes
         /\ standing' \subseteq filed' /\ filed' \subseteq 1 .. lastId'
         /\ e = "stats" => standing' = DOMAIN characters' /\ filed' = DOMAIN characters'
         /\ pulled' \in [DOMAIN pulled' -> Guilds] /\ DOMAIN pulled' \subseteq DOMAIN characters'
         /\ pulled' = pulled
<1>1. UNCHANGED vars /\ pulled' = pulled /\ endpoint = e /\ endpoint' = e /\ asked' = x
      /\ steady' = rs /\ ever' = Timed
      /\ standing' = (IF e = "stats" THEN DOMAIN characters ELSE {}) /\ filed' = standing'
  BY DEF Begin
<1>2. BoardInv' /\ SameTables
  BY <1>1, ReadFrame
<1>3. TypeOK' /\ IsFiniteSet(DOMAIN runs)' /\ GuildsArePulled' /\ Timed' = Timed
  BY <1>1, <1>2, QueryFrame
<1>4. Timed \subseteq Hashes /\ DOMAIN characters \subseteq 1 .. lastId
  BY QueryTables
<1>5. pulled \in [DOMAIN pulled -> Guilds] /\ DOMAIN pulled \subseteq DOMAIN characters
  BY DEF QueryInv, QueryTypeOK
<1> QED
  BY <1>1, <1>2, <1>3, <1>4, <1>5 DEF Enclosed, SameTables

\* The types of what a read keeps.
LEMMA FiguresType ==
  ASSUME QueryInv
  PROVE  /\ endpoint \in Endpoints
         /\ figures["characters"] \subseteq 1 .. lastId
         /\ \A f \in RunStats : figures[f] \subseteq Hashes
         /\ RunStats \subseteq Stats /\ "characters" \in Stats \ RunStats
         /\ endpoint = "roster" \/ figures["answer"] \subseteq Hashes
         /\ owners \subseteq 1 .. lastId
         /\ figures = [f \in Stats \cup {"answer"} |-> figures[f]]
         /\ "answer" \notin Stats
BY DEF QueryInv, QueryTypeOK, Protocol, Stats, RunStats

LEMMA GetCharacterKeeps ==
  ASSUME QueryInv, NEW n \in Names, GetCharacter(n)
  PROVE  QueryInv'
<1>1. Begin("character", n, Timed) /\ owners' = IdsOf(n) /\ figures' = figures
      /\ at' = (IF Known(n) THEN "count" ELSE "done")
  BY DEF GetCharacter
<1>2. /\ BoardInv' /\ SameTables /\ TypeOK' /\ IsFiniteSet(DOMAIN runs)' /\ GuildsArePulled'
      /\ endpoint = "character" /\ endpoint' = "character" /\ asked' = n
      /\ steady' = Timed /\ ever' = Timed /\ Timed' = Timed
      /\ Enclosed'
      /\ steady' \subseteq ever' /\ ever' \subseteq Hashes
      /\ standing' \subseteq filed' /\ filed' \subseteq 1 .. lastId'
      /\ pulled' \in [DOMAIN pulled' -> Guilds] /\ DOMAIN pulled' \subseteq DOMAIN characters'
  BY <1>1, BeginFrame
<1>3. \A i : i \in IdsOf(n) <=> i \in DOMAIN characters /\ characters[i].name = Lower[n]
  BY DEF IdsOf, Normalised
<1>4. "character" \notin Pages /\ at' \notin Stats /\ at' \in {"done", "count"}
  BY <1>1 DEF Pages, Stats, RunStats
<1>5. QueryTypeOK'
  <2>1. owners' \subseteq 1 .. lastId
    BY <1>1, <1>3, QueryTables
  <2> QED
    BY <1>1, <1>2, <1>4, <2>1, FiguresType DEF QueryTypeOK, SameTables
<1>6. Protocol'
  BY <1>1, <1>2, <1>4, FiguresType DEF Protocol
<1>7. OwnersAreRight'
  BY <1>1, <1>2, <1>3, <1>4, QueryTables DEF OwnersAreRight, SameTables
<1>8. TotalsAreExact'
  BY <1>1, <1>2 DEF TotalsAreExact, Known
<1>9. StatsHold' /\ FiguresBracketTheTables' /\ RosterIsTheLatestPull' /\ PagesAreCapped'
  BY <1>2, <1>4 DEF StatsHold, FiguresBracketTheTables, RosterIsTheLatestPull, PagesAreCapped
<1> QED
  BY <1>2, <1>5, <1>6, <1>7, <1>8, <1>9 DEF QueryInv

LEMMA GetPlayerKeeps ==
  ASSUME QueryInv, NEW p \in Players, GetPlayer(p)
  PROVE  QueryInv'
<1> DEFINE rs == {h \in Timed : runs[h].character_id \in CharacterIds(p)}
<1>1. Begin("player", p, rs) /\ UNCHANGED <<owners, figures>> /\ at' = "links"
  BY DEF GetPlayer
<1>2. /\ BoardInv' /\ SameTables /\ TypeOK' /\ IsFiniteSet(DOMAIN runs)' /\ GuildsArePulled'
      /\ endpoint = "player" /\ endpoint' = "player" /\ asked' = p
      /\ steady' = rs /\ ever' = Timed /\ Timed' = Timed
      /\ Enclosed'
      /\ steady' \subseteq ever' /\ ever' \subseteq Hashes
      /\ standing' \subseteq filed' /\ filed' \subseteq 1 .. lastId'
      /\ pulled' \in [DOMAIN pulled' -> Guilds] /\ DOMAIN pulled' \subseteq DOMAIN characters'
  BY <1>1, BeginFrame
<1>3. \A h \in rs : <<p, runs[h].character_id>> \in links
  BY LinkOf DEF QueryInv, BoardInv
<1>4. "player" \notin Pages /\ "links" \notin Stats
  BY DEF Pages, Stats, RunStats
<1> HIDE DEF rs
<1>5. QueryTypeOK'
  BY <1>1, <1>2, <1>4, FiguresType DEF QueryTypeOK, SameTables
<1>6. Protocol'
  BY <1>1, <1>2, <1>4, FiguresType DEF Protocol
<1>7. OwnersAreRight'
  BY <1>1, <1>2, <1>3 DEF OwnersAreRight, SameTables
<1>8. TotalsAreExact' /\ StatsHold' /\ FiguresBracketTheTables' /\ RosterIsTheLatestPull' /\ PagesAreCapped'
  BY <1>1, <1>2, <1>4
  DEF TotalsAreExact, StatsHold, FiguresBracketTheTables, RosterIsTheLatestPull, PagesAreCapped
<1> QED
  BY <1>2, <1>5, <1>6, <1>7, <1>8 DEF QueryInv

LEMMA GetStatsKeeps ==
  ASSUME QueryInv, GetStats
  PROVE  QueryInv'
<1>1. Begin("stats", NoLimit, Timed) /\ UNCHANGED <<owners, figures>> /\ at' = "characters"
  BY DEF GetStats
<1>2. /\ BoardInv' /\ SameTables /\ TypeOK' /\ IsFiniteSet(DOMAIN runs)' /\ GuildsArePulled'
      /\ endpoint = "stats" /\ endpoint' = "stats" /\ asked' = NoLimit
      /\ steady' = Timed /\ ever' = Timed /\ Timed' = Timed
      /\ Enclosed'
      /\ steady' \subseteq ever' /\ ever' \subseteq Hashes
      /\ standing' \subseteq filed' /\ filed' \subseteq 1 .. lastId'
      /\ standing' = DOMAIN characters' /\ filed' = DOMAIN characters'
      /\ pulled' \in [DOMAIN pulled' -> Guilds] /\ DOMAIN pulled' \subseteq DOMAIN characters'
  BY <1>1, BeginFrame
<1>3. "stats" \notin Pages /\ "characters" \in Stats /\ Answered("characters") = {}
  BY DEF Pages, Stats, RunStats, Answered
<1>4. QueryTypeOK'
  BY <1>1, <1>2, <1>3, FiguresType DEF QueryTypeOK, SameTables
<1>5. Protocol' /\ OwnersAreRight' /\ StatsHold'
  BY <1>1, <1>2, <1>3, FiguresType DEF Protocol, OwnersAreRight, StatsHold
<1>6. TotalsAreExact' /\ FiguresBracketTheTables' /\ RosterIsTheLatestPull' /\ PagesAreCapped'
  BY <1>1, <1>2, <1>3
  DEF TotalsAreExact, FiguresBracketTheTables, RosterIsTheLatestPull, PagesAreCapped
<1> QED
  BY <1>2, <1>4, <1>5, <1>6 DEF QueryInv

LEMMA GetPlayerCharacterIdsKeeps ==
  ASSUME QueryInv, GetPlayerCharacterIds
  PROVE  QueryInv'
<1>1. /\ at = "links" /\ at' = "count" /\ owners' = CharacterIds(asked)
      /\ UNCHANGED <<endpoint, asked, figures, steady, ever, standing, filed, pulled>> /\ UNCHANGED vars
  BY DEF GetPlayerCharacterIds, seen
<1>2. BoardInv' /\ SameTables
  BY <1>1, ReadFrame
<1>3. TypeOK' /\ IsFiniteSet(DOMAIN runs)' /\ Timed' = Timed /\ GuildsArePulled'
  BY <1>1, <1>2, QueryFrame
<1>4. /\ endpoint = "player" /\ asked \in Players
      /\ \A h \in steady : <<asked, runs[h].character_id>> \in links
  BY <1>1 DEF QueryInv, Protocol, OwnersAreRight
<1>5. \A i : i \in CharacterIds(asked) <=> <<asked, i>> \in links
  BY LinkOf DEF QueryInv, BoardInv
<1>6. \A i \in CharacterIds(asked) :
        i \in DOMAIN characters /\ asked \in Declaring(characters[i].name)
  <2> TAKE i \in CharacterIds(asked)
  <2>1. <<asked, i>> \in links /\ <<asked, i>>[1] = asked /\ <<asked, i>>[2] = i
    BY <1>5
  <2> QED
    BY <2>1 DEF QueryInv, BoardInv, LinksAreOwned
<1>7. "player" \notin Pages /\ "count" \notin Stats
  BY DEF Pages, Stats, RunStats
<1>8. QueryTypeOK'
  <2>1. owners' \subseteq 1 .. lastId'
    BY <1>1, <1>2, <1>6, QueryTables DEF SameTables
  <2> QED
    BY <1>1, <1>2, <1>3, <2>1 DEF QueryInv, QueryTypeOK, SameTables
<1>9. Protocol' /\ Enclosed'
  BY <1>1, <1>3, <1>4, <1>7 DEF QueryInv, Protocol, Enclosed
<1>10. OwnersAreRight'
  BY <1>1, <1>2, <1>4, <1>5, <1>6 DEF OwnersAreRight, SameTables
<1>11. TotalsAreExact' /\ StatsHold' /\ FiguresBracketTheTables' /\ RosterIsTheLatestPull' /\ PagesAreCapped'
  BY <1>1, <1>4, <1>7
  DEF TotalsAreExact, StatsHold, FiguresBracketTheTables, RosterIsTheLatestPull, PagesAreCapped
<1> QED
  BY <1>2, <1>3, <1>8, <1>9, <1>10, <1>11 DEF QueryInv

LEMMA CountReadKeeps ==
  ASSUME QueryInv, CountRead
  PROVE  QueryInv'
<1>1. /\ at = "count" /\ at' = "done"
      /\ figures' = [figures EXCEPT !["answer"] = Counted(owners)]
      /\ UNCHANGED <<endpoint, asked, owners, steady, ever, standing, filed, pulled>> /\ UNCHANGED vars
  BY DEF CountRead, Answer, seen
<1>2. BoardInv' /\ SameTables
  BY <1>1, ReadFrame
<1>3. TypeOK' /\ IsFiniteSet(DOMAIN runs)' /\ Timed' = Timed /\ GuildsArePulled'
  BY <1>1, <1>2, QueryFrame
<1>4. endpoint \in {"character", "player"} /\ endpoint \notin Pages
  BY <1>1 DEF QueryInv, Protocol, Pages
<1>5. /\ figures'["answer"] = Counted(owners)
      /\ \A f \in Stats : figures'[f] = figures[f]
      /\ figures' = [f \in Stats \cup {"answer"} |-> figures'[f]]
  BY <1>1, FiguresType
<1>6. QueryTypeOK'
  BY <1>1, <1>2, <1>3, <1>4, <1>5, QueryTables, FiguresType DEF QueryInv, QueryTypeOK, SameTables
<1>7. Protocol' /\ Enclosed' /\ OwnersAreRight'
  BY <1>1, <1>3, <1>5 DEF QueryInv, Protocol, Enclosed, OwnersAreRight, Stats, RunStats
<1>8. TotalsAreExact'
  <2>1. ASSUME NEW h \in Counted(owners)
        PROVE  /\ h \in ever
               /\ endpoint = "character" => h[1] = Lower[asked]
               /\ endpoint = "player" => asked \in Declaring(h[1])
    <3>1. PICK i : i = runs[h].character_id
      OBVIOUS
    <3>2. h \in Timed /\ i \in owners
      BY <3>1 DEF Counted, Timed
    <3>3. i \in DOMAIN characters /\ characters[i].name = h[1]
      BY <3>1, <3>2, QueryTables
    <3>4. h \in ever
      BY <1>1, <3>2 DEF QueryInv, Enclosed
    <3> QED
      BY <1>1, <3>2, <3>3, <3>4 DEF QueryInv, OwnersAreRight
  <2>2. ASSUME NEW h \in steady, h[2] \in InWindow, endpoint = "player" \/ h[1] = Lower[asked]
        PROVE  h \in Counted(owners)
    <3>1. h \in Timed
      BY <1>1 DEF QueryInv, Enclosed
    <3>2. runs[h].character_id \in owners
      BY <1>1, <2>2 DEF QueryInv, OwnersAreRight
    <3> QED
      BY <2>2, <3>1, <3>2 DEF Counted, Timed
  <2> QED
    BY <1>1, <1>4, <1>5, <2>1, <2>2 DEF TotalsAreExact, Own
<1>9. StatsHold' /\ FiguresBracketTheTables' /\ RosterIsTheLatestPull' /\ PagesAreCapped'
  BY <1>1, <1>4 DEF StatsHold, FiguresBracketTheTables, RosterIsTheLatestPull, PagesAreCapped
<1> QED
  BY <1>2, <1>3, <1>6, <1>7, <1>8, <1>9 DEF QueryInv

LEMMA ReadStatKeeps ==
  ASSUME QueryInv, NEW f \in Stats \ {"top"}, ReadStat(f)
  PROVE  QueryInv'
<1>1. /\ at = f /\ at' = Following[f]
      /\ figures' = [figures EXCEPT ![f] = StatOf(f)]
      /\ UNCHANGED <<endpoint, asked, owners, steady, ever, standing, filed, pulled>> /\ UNCHANGED vars
  BY DEF ReadStat, seen
<1>2. BoardInv' /\ SameTables
  BY <1>1, ReadFrame
<1>3. TypeOK' /\ IsFiniteSet(DOMAIN runs)' /\ Timed' = Timed /\ GuildsArePulled'
  BY <1>1, <1>2, QueryFrame
<1>4. endpoint = "stats" /\ endpoint \notin Pages /\ f # "answer"
  BY <1>1 DEF QueryInv, Protocol, Pages, Stats, RunStats
<1>5. /\ figures'[f] = StatOf(f)
      /\ \A x \in Stats \cup {"answer"} : x # f => figures'[x] = figures[x]
      /\ figures' = [x \in Stats \cup {"answer"} |-> figures'[x]]
  BY <1>1, FiguresType
<1>6. /\ at' \in Stats /\ at' # "done"
      /\ Answered(at') = Answered(at) \cup {f}
  BY <1>1 DEF Stats, RunStats, Following, Answered
<1>7. /\ f = "characters" => StatOf(f) = DOMAIN characters
      /\ f # "characters" => /\ StatOf(f) \subseteq Timed
                             /\ \A h \in Timed : h \in StatOf(f) <=> Selected(f, h)
  BY DEF StatOf, Selected, Stats, RunStats
<1>8. QueryTypeOK'
  <2>1. figures'["characters"] \subseteq 1 .. lastId
    BY <1>5, <1>7, FiguresType, QueryTables
  <2>2. \A x \in RunStats : figures'[x] \subseteq Hashes
    BY <1>5, <1>7, FiguresType, QueryTables
  <2> QED
    BY <1>1, <1>2, <1>3, <1>4, <1>5, <1>6, <2>1, <2>2 DEF QueryInv, QueryTypeOK, SameTables
<1>9. Protocol' /\ Enclosed' /\ OwnersAreRight'
  BY <1>1, <1>3, <1>4, <1>5, <1>6 DEF QueryInv, Protocol, Enclosed, OwnersAreRight, Stats, RunStats
<1>10. StatsHold'
  <2>1. steady \subseteq Timed /\ Timed \subseteq ever
    BY <1>1 DEF QueryInv, Enclosed, Stats, RunStats
  <2>0. standing \subseteq DOMAIN characters /\ DOMAIN characters \subseteq filed
    BY <1>1, <1>4 DEF QueryInv, StatsHold
  <2>2. FigureHolds(f)'
    BY <1>1, <1>5, <1>7, <2>0, <2>1 DEF FigureHolds, Selected
  <2>3. \A x \in Answered(at) : x \in Stats /\ x # f
    BY <1>1 DEF Answered, Stats, RunStats
  <2>4. \A x \in Answered(at) : FigureHolds(x)
    BY <1>4 DEF QueryInv, StatsHold
  <2>5. \A x \in Answered(at) : FigureHolds(x)'
    BY <1>1, <1>5, <2>3, <2>4 DEF FigureHolds, Selected
  <2>6. \A x \in Answered(at') : FigureHolds(x)'
    BY <1>6, <2>2, <2>5
  <2> QED
    BY <1>1, <1>2, <2>0, <2>6 DEF StatsHold, Answered, SameTables
<1>11. TotalsAreExact' /\ FiguresBracketTheTables' /\ RosterIsTheLatestPull' /\ PagesAreCapped'
  BY <1>1, <1>4, <1>6
  DEF TotalsAreExact, FiguresBracketTheTables, RosterIsTheLatestPull, PagesAreCapped
<1> QED
  BY <1>2, <1>3, <1>8, <1>9, <1>10, <1>11 DEF QueryInv

\* The top characters have no fewer runs than any other had all along.
LEMMA ReadTopKeeps ==
  ASSUME QueryInv, ReadTop
  PROVE  QueryInv'
<1>1. PICK top \in TopOf(Timed, TopLimit) : figures' = [figures EXCEPT !["top"] = top]
  BY DEF ReadTop
<1>2. /\ at = "top" /\ at' = "done"
      /\ UNCHANGED <<endpoint, asked, owners, steady, ever, standing, filed, pulled>> /\ UNCHANGED vars
  BY DEF ReadTop, seen
<1>3. BoardInv' /\ SameTables
  BY <1>2, ReadFrame
<1>4. TypeOK' /\ IsFiniteSet(DOMAIN runs)' /\ Timed' = Timed /\ GuildsArePulled'
  BY <1>2, <1>3, QueryFrame
<1>5. endpoint = "stats" /\ endpoint \notin Pages
  BY <1>2 DEF QueryInv, Protocol, Pages, Stats, RunStats
<1>6. /\ figures'["top"] = top
      /\ \A x \in Stats \cup {"answer"} : x # "top" => figures'[x] = figures[x]
      /\ figures' = [x \in Stats \cup {"answer"} |-> figures'[x]]
  BY <1>1, FiguresType DEF Stats, RunStats
<1> DEFINE listed == {h[1] : h \in Timed}
           cs     == {h[1] : h \in top}
<1>7. /\ top \subseteq Timed /\ Cardinality(cs) \in Nat
      /\ Cardinality(cs) <= TopLimit
      /\ cs # listed => Cardinality(cs) = TopLimit
      /\ \A h \in Timed : h[1] \in cs => h \in top
      /\ \A c \in cs, d \in listed \ cs :
           Cardinality(RunsOf(Timed, c)) >= Cardinality(RunsOf(Timed, d))
  <2>1. IsFiniteSet(Timed) /\ TopLimit \in Int /\ TopLimit >= 0
    BY QueryTables, QueryConstants
  <2> QED
    BY <1>1, <2>1, TopOfPage
<1>8. steady \subseteq Timed /\ Timed \subseteq ever
  BY <1>2 DEF QueryInv, Enclosed
<1>9. QueryTypeOK'
  BY <1>2, <1>3, <1>4, <1>5, <1>6, <1>7, QueryTables, FiguresType
  DEF QueryInv, QueryTypeOK, SameTables, Stats, RunStats
<1>10. Protocol' /\ Enclosed' /\ OwnersAreRight'
  BY <1>2, <1>4, <1>5, <1>6 DEF QueryInv, Protocol, Enclosed, OwnersAreRight, Stats, RunStats
<1>11. \A x \in Stats \ {"top"} : FigureHolds(x) /\ FigureHolds(x)'
  <2>1. \A x \in Stats \ {"top"} : FigureHolds(x)
    BY <1>2, <1>5 DEF QueryInv, StatsHold, Answered
  <2>2. ASSUME NEW x \in Stats \ {"top"}
        PROVE  FigureHolds(x)'
    <3>1. figures'[x] = figures[x] /\ UNCHANGED <<steady, ever, standing, filed>>
      BY <1>2, <1>6
    <3>2. FigureHolds(x)
      BY <2>1
    <3> QED
      BY <3>1, <3>2 DEF FigureHolds, Selected
  <2> QED
    BY <2>1, <2>2
<1>12. StatsHold'
  BY <1>2, <1>11 DEF StatsHold, Answered, Stats, RunStats
<1>13. \A c \in {h[1] : h \in steady \ top} :
          /\ Cardinality(cs) = TopLimit
          /\ \A h \in top : /\ h[1] # c
                            /\ Cardinality(RunsOf(top, h[1])) >= Cardinality(RunsOf(steady, c))
  <2> SUFFICES ASSUME NEW g \in steady \ top
               PROVE  /\ Cardinality(cs) = TopLimit
                      /\ \A h \in top :
                           /\ h[1] # g[1]
                           /\ Cardinality(RunsOf(top, h[1])) >= Cardinality(RunsOf(steady, g[1]))
    OBVIOUS
  <2>1. g[1] \in listed \ cs
    BY <1>7, <1>8
  <2>2. Cardinality(cs) = TopLimit
    BY <1>7, <2>1
  <2>3. ASSUME NEW h \in top
        PROVE  /\ h[1] # g[1]
               /\ Cardinality(RunsOf(top, h[1])) >= Cardinality(RunsOf(steady, g[1]))
    <3>1. h[1] \in cs /\ h[1] # g[1]
      BY <2>1
    <3> HIDE DEF cs, listed
    <3>2. RunsOf(top, h[1]) = RunsOf(Timed, h[1])
      BY <1>7, <3>1 DEF RunsOf
    <3>3. RunsOf(steady, g[1]) \subseteq RunsOf(Timed, g[1]) /\ RunsOf(Timed, g[1]) \subseteq Timed
          /\ RunsOf(Timed, h[1]) \subseteq Timed
      BY <1>8 DEF RunsOf
    <3>4. IsFiniteSet(RunsOf(Timed, g[1])) /\ IsFiniteSet(RunsOf(Timed, h[1]))
      BY <3>3, QueryTables, FS_Subset
    <3>5. /\ IsFiniteSet(RunsOf(steady, g[1]))
          /\ Cardinality(RunsOf(steady, g[1])) <= Cardinality(RunsOf(Timed, g[1]))
      BY <3>3, <3>4, FS_Subset
    <3>6. PICK a \in Nat, b \in Nat, c \in Nat :
            /\ a = Cardinality(RunsOf(steady, g[1]))
            /\ b = Cardinality(RunsOf(Timed, g[1]))
            /\ c = Cardinality(RunsOf(Timed, h[1]))
      BY <3>4, <3>5, FS_CardinalityType
    <3>7. b <= c /\ a <= b
      BY <1>7, <2>1, <3>1, <3>5, <3>6
    <3> QED
      BY <3>1, <3>2, <3>6, <3>7
  <2> QED
    BY <2>2, <2>3
<1>14. FiguresBracketTheTables'
  <2> HIDE DEF listed
  <2>1. standing \subseteq figures'["characters"] /\ figures'["characters"] \subseteq filed
    BY <1>2, <1>11 DEF FigureHolds, Stats
  <2>2. \A x \in {"total", "dungeons", "levels"} : steady \subseteq figures'[x] /\ figures'[x] \subseteq ever
    BY <1>2, <1>11 DEF FigureHolds, Selected, Stats, RunStats
  <2>3. \A h \in ever : h[2] \in RunKeys
    BY DEF QueryInv, QueryTypeOK, Hashes
  <2>4. /\ \A h \in steady : /\ h[2] \in Today => h \in figures'["today"]
                             /\ h[2] \in Week  => h \in figures'["week"]
        /\ \A h \in figures'["today"] : h \in ever /\ h[2] \in Today
        /\ \A h \in figures'["week"] : h \in ever /\ h[2] \in Week
    BY <1>2, <1>11 DEF FigureHolds, Selected, Stats, RunStats
  <2>5. top \subseteq ever
    BY <1>7, <1>8
  <2> DEFINE Since(rs, keys) == {h \in rs : h[2] \in keys}
             Between(f, keys) == /\ Since(steady, keys) \subseteq figures'[f]
                                 /\ figures'[f] \subseteq Since(ever, keys)
  <2>6. Between("total", RunKeys) /\ Between("dungeons", RunKeys) /\ Between("levels", RunKeys)
    BY <2>2, <2>3
  <2>7. Between("today", Today) /\ Between("week", Week)
    BY <2>4
  <2> HIDE DEF cs
  <2>8. /\ figures'["top"] \subseteq ever
        /\ Cardinality({h[1] : h \in figures'["top"]}) <= TopLimit
        /\ \A c \in {h[1] : h \in steady \ figures'["top"]} :
             /\ Cardinality({h[1] : h \in figures'["top"]}) = TopLimit
             /\ \A h \in figures'["top"] :
                  /\ h[1] # c
                  /\ Cardinality(RunsOf(figures'["top"], h[1])) >= Cardinality(RunsOf(steady, c))
    <3> USE DEF cs
    <3> QED
      BY <1>6, <1>7, <1>13, <2>5
  <2> QED
    BY <1>2, <2>1, <2>6, <2>7, <2>8 DEF FiguresBracketTheTables, RunsOf
<1>15. TotalsAreExact' /\ RosterIsTheLatestPull' /\ PagesAreCapped'
  BY <1>2, <1>5 DEF TotalsAreExact, RosterIsTheLatestPull, PagesAreCapped
<1> QED
  BY <1>3, <1>4, <1>9, <1>10, <1>12, <1>14, <1>15 DEF QueryInv

GetRosterAndPages ==
  \/ \E g \in Guilds : GetRoster(g)
  \/ \E l \in Limits : GetRuns(l) \/ GetDepletions(l) \/ \E g \in Guilds : GetGuildRuns(g, l)

LEMMA GetRosterKeeps ==
  ASSUME QueryInv, NEW g \in Guilds, GetRoster(g)
  PROVE  QueryInv'
<1>1. /\ Begin("roster", g, Timed) /\ owners' = owners /\ at' = "done"
      /\ figures' = [figures EXCEPT !["answer"] = Roster(g)]
  BY DEF GetRoster, Answer
<1>2. /\ BoardInv' /\ SameTables /\ TypeOK' /\ IsFiniteSet(DOMAIN runs)' /\ GuildsArePulled'
      /\ endpoint = "roster" /\ endpoint' = "roster" /\ asked' = g
      /\ steady' = Timed /\ ever' = Timed /\ Timed' = Timed
      /\ Enclosed'
      /\ steady' \subseteq ever' /\ ever' \subseteq Hashes
      /\ standing' \subseteq filed' /\ filed' \subseteq 1 .. lastId'
      /\ pulled' \in [DOMAIN pulled' -> Guilds] /\ DOMAIN pulled' \subseteq DOMAIN characters'
      /\ pulled' = pulled
  BY <1>1, BeginFrame
<1>3. /\ figures'["answer"] = Roster(g)
      /\ \A f \in Stats : figures'[f] = figures[f]
      /\ figures' = [f \in Stats \cup {"answer"} |-> figures'[f]]
  BY <1>1, FiguresType
<1>4. "roster" \notin Pages /\ "done" \notin Stats
  BY DEF Pages, Stats, RunStats
<1>5. QueryTypeOK'
  BY <1>1, <1>2, <1>3, <1>4, FiguresType DEF QueryTypeOK, SameTables
<1>6. Protocol' /\ OwnersAreRight'
  BY <1>1, <1>3, <1>4 DEF Protocol, OwnersAreRight
<1>7. Roster(g) = {i \in DOMAIN pulled : LowerRealm[pulled[i]] = g}
  <2>1. DOMAIN pulled \subseteq DOMAIN characters
    BY DEF QueryInv, QueryTypeOK
  <2> QED
    BY <2>1, QueryConstants DEF QueryInv, GuildsArePulled, Roster
<1>8. RosterIsTheLatestPull'
  BY <1>2, <1>3, <1>7 DEF RosterIsTheLatestPull
<1>9. TotalsAreExact' /\ StatsHold' /\ FiguresBracketTheTables' /\ PagesAreCapped'
  BY <1>2, <1>4 DEF TotalsAreExact, StatsHold, FiguresBracketTheTables, PagesAreCapped
<1> QED
  BY <1>2, <1>5, <1>6, <1>8, <1>9 DEF QueryInv

LEMMA PageKeeps ==
  ASSUME QueryInv, NEW e \in Pages, NEW l \in Limits, Begin(e, l, Timed),
         NEW page \in SUBSET DOMAIN runs, Answer(page), owners' = owners,
         l < 0 \/ Cardinality(IF e = "depletions" THEN {h[1] : h \in page} ELSE page) <= PageCap[e],
         e = "guild_runs" => \E g \in Guilds : page \subseteq Counted(Roster(g))
  PROVE  QueryInv'
<1>1. at' = "done" /\ figures' = [figures EXCEPT !["answer"] = page]
  BY DEF Answer
<1>2. /\ BoardInv' /\ SameTables /\ TypeOK' /\ IsFiniteSet(DOMAIN runs)' /\ GuildsArePulled'
      /\ endpoint = e /\ endpoint' = e /\ asked' = l
      /\ steady' = Timed /\ ever' = Timed /\ Timed' = Timed
      /\ Enclosed'
      /\ steady' \subseteq ever' /\ ever' \subseteq Hashes
      /\ standing' \subseteq filed' /\ filed' \subseteq 1 .. lastId'
      /\ pulled' \in [DOMAIN pulled' -> Guilds] /\ DOMAIN pulled' \subseteq DOMAIN characters'
      /\ pulled' = pulled
  BY BeginFrame
<1>3. /\ figures'["answer"] = page
      /\ \A f \in Stats : figures'[f] = figures[f]
      /\ figures' = [f \in Stats \cup {"answer"} |-> figures'[f]]
  BY <1>1, FiguresType
<1>4. e \in {"runs", "guild_runs", "depletions"} /\ "done" \notin Stats
  BY DEF Pages, Stats, RunStats
<1>5. QueryTypeOK'
  BY <1>1, <1>2, <1>3, <1>4, FiguresType, QueryTables DEF QueryTypeOK, SameTables
<1>6. Protocol' /\ OwnersAreRight'
  BY <1>1, <1>3, <1>4 DEF Protocol, OwnersAreRight
<1>7. RosterIsTheLatestPull'
  <2>1. CASE e # "guild_runs"
    BY <1>2, <1>4, <2>1 DEF RosterIsTheLatestPull
  <2>2. CASE e = "guild_runs"
    <3>1. PICK g \in Guilds : page \subseteq Counted(Roster(g))
      BY <2>2
    <3>2. \A h \in page : /\ runs[h].character_id \in DOMAIN pulled
                         /\ LowerRealm[pulled[runs[h].character_id]] = g
      <4> TAKE h \in page
      <4>1. PICK i : i = runs[h].character_id
        OBVIOUS
      <4>2. i \in DOMAIN characters /\ characters[i].guild = g
        BY <3>1, <4>1 DEF Counted, Roster
      <4> QED
        BY <4>1, <4>2, QueryConstants DEF QueryInv, GuildsArePulled
    <3> QED
      BY <1>2, <1>3, <2>2, <3>2 DEF RosterIsTheLatestPull, SameTables
  <2> QED
    BY <2>1, <2>2
<1>8. PagesAreCapped'
  BY <1>2, <1>3 DEF PagesAreCapped
<1>9. TotalsAreExact' /\ StatsHold' /\ FiguresBracketTheTables'
  BY <1>2, <1>4 DEF TotalsAreExact, StatsHold, FiguresBracketTheTables
<1> QED
  BY <1>2, <1>5, <1>6, <1>7, <1>8, <1>9 DEF QueryInv

LEMMA GetPagesKeeps ==
  ASSUME QueryInv, GetRosterAndPages
  PROVE  QueryInv'
<1>1. ASSUME NEW l \in Limits, NEW e \in Pages, endpoint = e, NEW rows, IsFiniteSet(rows),
             NEW page \in Limited(rows, Limit(l))
      PROVE  page \subseteq rows /\ (l < 0 \/ Cardinality(page) <= PageCap[e])
  <2>1. /\ Limit(l) \in Int /\ PageCap[e] \in Nat /\ Limit(l) <= PageCap[e]
        /\ Limit(l) < 0 => l < 0
    BY <1>1, LimitRange
  <2>2. page \subseteq rows /\ Cardinality(page) \in Nat /\ (Limit(l) >= 0 => Cardinality(page) <= Limit(l))
    BY <1>1, <2>1, LimitedPage
  <2> QED
    BY <2>1, <2>2
<1>2. /\ "runs" \in Pages /\ "guild_runs" \in Pages /\ "depletions" \in Pages
      /\ \A e, l : Begin(e, l, Timed) => endpoint = e
      /\ \A cs : IsFiniteSet(Counted(cs)) /\ Counted(cs) \subseteq DOMAIN runs
  BY QueryTables DEF Pages, Begin
<1>3. ASSUME NEW l \in Limits, GetRuns(l)
      PROVE  QueryInv'
  <2>1. PICK page \in Limited(Counted(DOMAIN characters), Limit(l)) :
          Begin("runs", l, Timed) /\ Answer(page) /\ owners' = owners
    BY <1>3 DEF GetRuns
  <2>2. page \subseteq Counted(DOMAIN characters) /\ (l < 0 \/ Cardinality(page) <= PageCap["runs"])
    BY <1>1, <1>2, <2>1
  <2> QED
    BY <1>2, <2>1, <2>2, PageKeeps
<1>4. ASSUME NEW l \in Limits, NEW g \in Guilds, GetGuildRuns(g, l)
      PROVE  QueryInv'
  <2>1. PICK page \in Limited(Counted(Roster(g)), Limit(l)) :
          Begin("guild_runs", l, Timed) /\ Answer(page) /\ owners' = owners
    BY <1>4 DEF GetGuildRuns
  <2>2. page \subseteq Counted(Roster(g)) /\ (l < 0 \/ Cardinality(page) <= PageCap["guild_runs"])
    BY <1>1, <1>2, <2>1
  <2>3. page \in SUBSET DOMAIN runs
    BY <1>2, <2>2
  <2> QED
    BY <1>2, <2>1, <2>2, <2>3, PageKeeps
<1>5. ASSUME NEW l \in Limits, GetDepletions(l)
      PROVE  QueryInv'
  <2> DEFINE depleted == {h \in DOMAIN runs : ~runs[h].within_time /\ h[2] \in InWindow}
  <2>1. PICK top \in TopOf(depleted, Limit(l)) :
          Begin("depletions", l, Timed) /\ Answer(top) /\ owners' = owners
    BY <1>5 DEF GetDepletions
  <2>2. IsFiniteSet(depleted) /\ depleted \subseteq DOMAIN runs
    BY FS_Subset DEF QueryInv
  <2> HIDE DEF depleted
  <2>3. /\ Limit(l) \in Int /\ PageCap["depletions"] \in Nat /\ Limit(l) <= PageCap["depletions"]
        /\ Limit(l) < 0 => l < 0
    BY <1>2, <2>1, LimitRange
  <2>4. /\ top \subseteq depleted /\ Cardinality({h[1] : h \in top}) \in Nat
        /\ Limit(l) >= 0 => Cardinality({h[1] : h \in top}) <= Limit(l)
    BY <2>1, <2>2, <2>3, TopOfPage
  <2>5. l < 0 \/ Cardinality({h[1] : h \in top}) <= PageCap["depletions"]
    BY <2>3, <2>4
  <2> QED
    BY <1>2, <2>1, <2>2, <2>4, <2>5, PageKeeps
<1> QED
  BY <1>3, <1>4, <1>5, GetRosterKeeps DEF GetRosterAndPages

-----------------------------------------------------------------------------
(* The writes under a read.                                                *)

LEMMA WriteIsBoardWrite ==
  ASSUME QueryInv, Write
  PROVE  /\ BoardInv' /\ DbInv' /\ LinksAreOwned' /\ Undisturbed
         /\ IsFiniteSet(DOMAIN runs)'
<1>1. BoardWrite
  <2>1. ASSUME NEW n \in Names, NEW g \in Guilds, Pulled(n, g)
        PROVE  BoardWrite
    BY <2>1, QueryConstants DEF BoardWrite, Pulled
  <2>2. ASSUME NEW n \in Names, Upserted(n) \/ Deleted(n) \/ Linked(n) \/ Seeded(n)
        PROVE  BoardWrite
    BY <2>2 DEF BoardWrite, Upserted
  <2> QED
    BY <2>1, <2>2 DEF Write, BoardWrite
<1>2. DbInv' /\ LinksAreOwned' /\ Undisturbed
  BY <1>1, WriteUnderRead DEF QueryInv
<1>3. BoardInv'
  BY <1>2, BoardWriteKeeps DEF QueryInv
<1>4. PICK h : DOMAIN runs' \subseteq DOMAIN runs \cup {h}
  BY <1>2 DEF Undisturbed
<1>5. IsFiniteSet(DOMAIN runs \cup {h})
  BY FS_AddElement DEF QueryInv
<1>6. IsFiniteSet(DOMAIN runs')
  BY <1>4, <1>5, FS_Subset
<1> QED
  BY <1>2, <1>3, <1>6

\* What an upsert leaves in the rows: COALESCE keeps the guild of a row when
\* none is given, and a new row has an id no pull was ever of.
LEMMA UpsertedRow ==
  ASSUME QueryInv, NEW n \in Names, NEW guild \in Guilds \cup {NoGuild},
         UpsertCharacter(n, guild)
  PROVE  LET id == UpsertedId(n)
         IN /\ DOMAIN characters' = DOMAIN characters \cup {id}
            /\ \A i \in DOMAIN characters : i # id => characters'[i] = characters[i]
            /\ guild # NoGuild => characters'[id].guild = guild
            /\ guild = NoGuild =>
                 characters'[id].guild = IF id \in DOMAIN characters THEN characters[id].guild ELSE NoGuild
<1> DEFINE id == UpsertedId(n)
<1>1. /\ DOMAIN characters' = DOMAIN characters \cup {id}
      /\ \A i \in DOMAIN characters : i # id => characters'[i] = characters[i]
      /\ characters'[id].guild = CoalescedGuild(n, guild)
  BY DEF UpsertCharacter
<1>2. Known(n) <=> id \in DOMAIN characters
  <2>1. DOMAIN characters \subseteq 1 .. lastId /\ lastId \in Nat
    BY QueryTables
  <2> QED
    BY <2>1 DEF Known, UpsertedId, IdsOf
<1>3. CoalescedGuild(n, guild) =
        IF guild = NoGuild /\ id \in DOMAIN characters THEN characters[id].guild ELSE guild
  BY <1>2 DEF CoalescedGuild
<1> HIDE DEF id
<1>4. /\ guild # NoGuild => characters'[id].guild = guild
      /\ guild = NoGuild =>
           characters'[id].guild = IF id \in DOMAIN characters THEN characters[id].guild ELSE NoGuild
  BY <1>1, <1>3
<1> USE DEF id
<1> QED
  BY <1>1, <1>4

LEMMA WriteKeepsPulls ==
  ASSUME QueryInv, Write
  PROVE  /\ pulled' \in [DOMAIN pulled' -> Guilds] /\ DOMAIN pulled' \subseteq DOMAIN characters'
         /\ GuildsArePulled'
<1>1. /\ pulled \in [DOMAIN pulled -> Guilds] /\ DOMAIN pulled \subseteq DOMAIN characters
      /\ \A i \in DOMAIN characters :
           characters[i].guild = IF i \in DOMAIN pulled THEN LowerRealm[pulled[i]] ELSE NoGuild
  BY DEF QueryInv, QueryTypeOK, GuildsArePulled
<1>2. ASSUME NEW n \in Names, NEW g \in Guilds, Pulled(n, g)
      PROVE  /\ pulled' \in [DOMAIN pulled' -> Guilds] /\ DOMAIN pulled' \subseteq DOMAIN characters'
             /\ GuildsArePulled'
  <2>1. PICK id : id = UpsertedId(n)
    OBVIOUS
  <2>2. /\ UpsertCharacter(n, LowerRealm[g]) /\ LowerRealm[g] \in Guilds /\ LowerRealm[g] # NoGuild
        /\ pulled' = [i \in DOMAIN pulled \cup {id} |-> IF i = id THEN g ELSE pulled[i]]
    BY <1>2, <2>1, QueryConstants DEF Pulled
  <2>3. /\ DOMAIN characters' = DOMAIN characters \cup {id}
        /\ \A i \in DOMAIN characters : i # id => characters'[i] = characters[i]
        /\ characters'[id].guild = LowerRealm[g]
    BY <2>1, <2>2, UpsertedRow
  <2> QED
    BY <1>1, <2>2, <2>3 DEF GuildsArePulled
<1>3. ASSUME pulled' = [i \in DOMAIN pulled \cap DOMAIN characters' |-> pulled[i]],
             \A i \in DOMAIN characters' :
               characters'[i].guild = IF i \in DOMAIN characters THEN characters[i].guild ELSE NoGuild
      PROVE  /\ pulled' \in [DOMAIN pulled' -> Guilds] /\ DOMAIN pulled' \subseteq DOMAIN characters'
             /\ GuildsArePulled'
  BY <1>1, <1>3 DEF GuildsArePulled
<1>4. ASSUME NEW n \in Names, Upserted(n)
      PROVE  \A i \in DOMAIN characters' :
               characters'[i].guild = IF i \in DOMAIN characters THEN characters[i].guild ELSE NoGuild
  <2>1. PICK id : id = UpsertedId(n)
    OBVIOUS
  <2>2. /\ DOMAIN characters' = DOMAIN characters \cup {id}
        /\ \A i \in DOMAIN characters : i # id => characters'[i] = characters[i]
        /\ characters'[id].guild = IF id \in DOMAIN characters THEN characters[id].guild ELSE NoGuild
    BY <1>4, <2>1, UpsertedRow DEF Upserted
  <2> QED
    BY <2>2
<1>5. ASSUME NEW n, Deleted(n)
      PROVE  \A i \in DOMAIN characters' :
               characters'[i].guild = IF i \in DOMAIN characters THEN characters[i].guild ELSE NoGuild
  BY <1>5 DEF Deleted, DeleteCharacter
<1>6. ASSUME NEW n, NEW r, Linked(n) \/ Seeded(n) \/ Inserted(n, r)
      PROVE  \A i \in DOMAIN characters' :
               characters'[i].guild = IF i \in DOMAIN characters THEN characters[i].guild ELSE NoGuild
  BY <1>6 DEF Linked, Seeded, LinkTo, LinkPlayerCharacter, Inserted, InsertRun
<1> QED
  BY <1>2, <1>3, <1>4, <1>5, <1>6 DEF Write

LEMMA WriteKeeps ==
  ASSUME QueryInv, Write
  PROVE  QueryInv'
<1>1. /\ BoardInv' /\ DbInv' /\ Undisturbed
      /\ IsFiniteSet(DOMAIN runs)' /\ TypeOK'
  BY WriteIsBoardWrite DEF BoardInv
<1>2. /\ pulled' \in [DOMAIN pulled' -> Guilds] /\ DOMAIN pulled' \subseteq DOMAIN characters'
      /\ GuildsArePulled'
  BY WriteKeepsPulls
<1>3. /\ at # "done" /\ UNCHANGED <<endpoint, at, asked, owners, figures>>
      /\ steady' = steady \cap DOMAIN runs'
      /\ ever' = (IF at = "idle" THEN ever ELSE ever \cup Timed')
      /\ standing' = standing \cap DOMAIN characters'
      /\ filed' = (IF at \in Stats THEN filed \cup DOMAIN characters' ELSE filed)
  BY DEF Write, read
<1>4. /\ steady' \subseteq steady /\ ever \subseteq ever'
      /\ standing' \subseteq standing /\ filed \subseteq filed'
      /\ lastId \in Nat /\ lastId' \in Nat /\ lastId <= lastId'
  BY <1>1, <1>3 DEF Undisturbed
<1>5. \A h \in steady' : h \in DOMAIN runs => h \in DOMAIN runs' /\ runs'[h] = runs[h]
  BY <1>1, <1>3 DEF Undisturbed
<1>6. Timed' \subseteq Hashes
  BY <1>1 DEF Timed, DbInv, DatabaseTypeOK
<1>7. QueryTypeOK'
  <2>1. owners \subseteq 1 .. lastId' /\ figures["characters"] \subseteq 1 .. lastId'
    BY <1>4, FiguresType
  <2>2. steady \subseteq ever /\ ever \subseteq Hashes
    BY DEF QueryInv, QueryTypeOK
  <2>3. steady' \subseteq ever' /\ ever' \subseteq Hashes
    BY <1>3, <1>4, <1>6, <2>2
  <2>4. standing \subseteq filed /\ filed \subseteq 1 .. lastId
    BY DEF QueryInv, QueryTypeOK
  <2>5. DOMAIN characters' \subseteq 1 .. lastId'
    BY <1>1 DEF DbInv, DatabaseTypeOK
  <2>6. standing' \subseteq filed' /\ filed' \subseteq 1 .. lastId'
    <3>1. 1 .. lastId \subseteq 1 .. lastId'
      BY <1>4
    <3>2. filed' \subseteq filed \cup DOMAIN characters'
      BY <1>3
    <3> QED
      BY <1>4, <2>4, <2>5, <3>1, <3>2
  <2>7. \A f \in RunStats : figures[f] \subseteq Hashes
    BY FiguresType
  <2>8. /\ endpoint \in Endpoints /\ at \in {"idle", "links", "count", "done"} \cup Stats
        /\ asked = NoLimit \/ IF endpoint \in Pages THEN asked \in Limits
                              ELSE asked \in Names \cup Players \cup Guilds
        /\ endpoint = "roster" \/ figures["answer"] \subseteq Hashes
    BY DEF QueryInv, QueryTypeOK
  <2> QED
    BY <1>1, <1>2, <1>3, <2>1, <2>3, <2>6, <2>7, <2>8 DEF QueryTypeOK
<1>8. Protocol'
  BY <1>3 DEF QueryInv, Protocol
<1>9. at # "idle" => steady \subseteq Timed /\ Timed \subseteq ever /\ steady \subseteq DOMAIN runs
  BY DEF QueryInv, Enclosed, Timed
<1>10. Enclosed'
  BY <1>3, <1>4, <1>5, <1>9 DEF Enclosed, Timed
<1>11. OwnersAreRight'
  <2>1. ASSUME at = "links", NEW h \in steady'
        PROVE  asked \in Players /\ <<asked, runs'[h].character_id>> \in links'
    <3>1. PICK i : i = runs[h].character_id
      OBVIOUS
    <3>2. h \in DOMAIN runs' /\ runs'[h] = runs[h] /\ h \in steady
      BY <1>4, <1>5, <1>9, <2>1
    <3>3. asked \in Players /\ <<asked, i>> \in links /\ <<asked, i>>[2] = i
      BY <2>1, <3>1, <3>2 DEF QueryInv, OwnersAreRight
    <3>4. i \in DOMAIN characters'
      BY <1>1, <3>1, <3>2 DEF DbInv, RunsBelongToTheirCharacter
    <3> QED
      BY <1>1, <3>1, <3>2, <3>3, <3>4 DEF Undisturbed
  <2>2. ASSUME at = "links"
        PROVE  asked \in Players
    BY <2>2 DEF QueryInv, OwnersAreRight
  <2>3. ASSUME at = "count", NEW i \in owners, i \in DOMAIN characters'
        PROVE  i \in DOMAIN characters /\ characters'[i].name = characters[i].name
    <3>1. i \in 1 .. lastId
      BY <2>3, FiguresType
    <3> QED
      BY <1>1, <2>3, <3>1 DEF Undisturbed
  <2>4. ASSUME at = "count", NEW h \in steady'
        PROVE  h \in steady /\ runs'[h] = runs[h]
    BY <1>4, <1>5, <1>9, <2>4
  <2> QED
    BY <1>3, <2>1, <2>2, <2>3, <2>4 DEF QueryInv, OwnersAreRight
<1>12. StatsHold'
  <2>1. \A f : FigureHolds(f) => FigureHolds(f)'
    BY <1>3, <1>4 DEF FigureHolds, Selected
  <2> QED
    BY <1>3, <2>1 DEF QueryInv, StatsHold, Answered
<1>13. TotalsAreExact' /\ FiguresBracketTheTables' /\ RosterIsTheLatestPull' /\ PagesAreCapped'
  BY <1>3 DEF TotalsAreExact, FiguresBracketTheTables, RosterIsTheLatestPull, PagesAreCapped
<1> QED
  BY <1>1, <1>2, <1>7, <1>8, <1>10, <1>11, <1>12, <1>13 DEF QueryInv

-----------------------------------------------------------------------------
(* The invariant holds, and so does each property.                         *)

LEMMA QueryInvInit == QueryInit => QueryInv
<1> SUFFICES ASSUME QueryInit PROVE QueryInv
  OBVIOUS
<1>1. BoardInv /\ TypeOK
  BY BoardInvInit DEF QueryInit, BoardInv
<1>2. /\ DOMAIN characters = {} /\ DOMAIN runs = {} /\ lastId = 0
      /\ endpoint \in Endpoints /\ at = "idle" /\ asked = NoLimit /\ owners = {}
      /\ figures = [f \in Stats \cup {"answer"} |-> {}]
      /\ steady = {} /\ ever = {} /\ standing = {} /\ filed = {}
      /\ pulled = [i \in {} |-> NoGuild]
  BY DEF QueryInit, Init
<1>3. IsFiniteSet(DOMAIN runs)
  BY <1>2, FS_EmptySet
<1>4. at \notin Stats /\ Answered(at) = {}
  BY <1>2 DEF Stats, RunStats, Answered
<1>5. QueryTypeOK /\ Protocol
  <2>1. \A f \in Stats \cup {"answer"} : figures[f] = {}
    BY <1>2
  <2>2. pulled \in [DOMAIN pulled -> Guilds] /\ DOMAIN pulled = {}
    BY <1>2
  <2>3. QueryTypeOK
    BY <1>1, <1>2, <2>1, <2>2 DEF QueryTypeOK, Stats, RunStats
  <2> QED
    BY <1>2, <1>4, <2>1, <2>3 DEF Protocol
<1>6. Enclosed /\ OwnersAreRight /\ StatsHold /\ GuildsArePulled
  BY <1>2, <1>4 DEF Enclosed, OwnersAreRight, StatsHold, GuildsArePulled
<1>7. TotalsAreExact /\ FiguresBracketTheTables /\ RosterIsTheLatestPull /\ PagesAreCapped
  BY <1>2 DEF TotalsAreExact, FiguresBracketTheTables, RosterIsTheLatestPull, PagesAreCapped
<1> QED
  BY <1>1, <1>3, <1>5, <1>6, <1>7 DEF QueryInv

LEMMA QueryInvNext == QueryInv /\ [QueryNext]_queryVars => QueryInv'
<1> SUFFICES ASSUME QueryInv, [QueryNext]_queryVars PROVE QueryInv'
  OBVIOUS
<1>1. CASE ReadLeaderboard
  <2>1. BoardInv'
    BY <1>1, BoardInvStep DEF ReadLeaderboard, BoardRead, QueryInv
  <2>2. SameTables /\ UNCHANGED <<read, seen>>
    BY <1>1
    DEF ReadLeaderboard, ListPlayers, CountRuns, ListUntracked, ReadLinks, SameTables, tables
  <2> QED
    BY <2>1, <2>2, ReadLeaderboardKeeps
<1>2. CASE Read
  BY <1>2, GetCharacterKeeps, GetPlayerKeeps, GetPlayerCharacterIdsKeeps, CountReadKeeps,
     GetStatsKeeps, ReadTopKeeps, ReadStatKeeps, GetPagesKeeps DEF Read, GetRosterAndPages
<1>3. CASE Write
  BY <1>3, WriteKeeps
<1>4. CASE UNCHANGED queryVars
  BY <1>4, ReadFrame, ReadLeaderboardKeeps DEF queryVars
<1> QED
  BY <1>1, <1>2, <1>3, <1>4 DEF QueryNext

LEMMA QueryInvariance == QuerySpec => []QueryInv
BY QueryInvInit, QueryInvNext, PTL DEF QuerySpec

\* Every read has its variables in range, whatever requests write under it.
THEOREM QueryTypes == QuerySpec => []QueryTypeOK
<1>1. QueryInv => QueryTypeOK
  BY DEF QueryInv
<1> QED
  BY QueryInvariance, <1>1, PTL

\* A total of two queries has runs of the right character or player only, and
\* every one of them that was there throughout.
THEOREM ExactTotals == QuerySpec => []TotalsAreExact
<1>1. QueryInv => TotalsAreExact
  BY DEF QueryInv
<1> QED
  BY QueryInvariance, <1>1, PTL

\* Each of the seven figures of the dashboard is between what it counts that was
\* there throughout and what it counts that was there at some time: the rows of
\* characters, all timed runs (three times), those of today and of the week.
\* The list of top characters has runs that were there at some time only.
THEOREM BracketedFigures == QuerySpec => []FiguresBracketTheTables
<1>1. QueryInv => FiguresBracketTheTables
  BY DEF QueryInv
<1> QED
  BY QueryInvariance, <1>1, PTL

\* A roster is who was last pulled with that guild.
THEOREM LatestRosters == QuerySpec => []RosterIsTheLatestPull
<1>1. QueryInv => RosterIsTheLatestPull
  BY DEF QueryInv
<1> QED
  BY QueryInvariance, <1>1, PTL

\* No page is longer than its cap unless a negative limit was asked for.
THEOREM CappedPages == QuerySpec => []PagesAreCapped
<1>1. QueryInv => PagesAreCapped
  BY DEF QueryInv
<1> QED
  BY QueryInvariance, <1>1, PTL

\* The leaderboard holds its promises under pulls as well: they are among the
\* writes of QuerySpec and not of Spec.
THEOREM BoardUnderPulls ==
  QuerySpec => [](PlayersGetTheirOwnRuns /\ NoRunCountsTwice /\ SteadyRunsCountForTheirPlayers)
<1>1. QueryInv => PlayersGetTheirOwnRuns /\ NoRunCountsTwice /\ SteadyRunsCountForTheirPlayers
  BY OwnRuns DEF QueryInv, BoardInv
<1> QED
  BY QueryInvariance, <1>1, PTL
=============================================================================
