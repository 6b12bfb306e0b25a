-------------------------- MODULE MigrationProofs --------------------------
(***************************************************************************)
(* Proofs about Migration, for every value of its constants: tables of any *)
(* size, with any spellings in them.                                       *)
(***************************************************************************)
EXTENDS Migration, WellFoundedInduction, TLAPS

-----------------------------------------------------------------------------
(* The groups of rows that LOWER takes for one character.                  *)

Smaller == {ss \in Nat \X Nat : ss[1] < ss[2]}

LEMMA LeastElement ==
  ASSUME NEW T, T \subseteq Nat, T # {}
  PROVE  \E x \in T : \A y \in T : x <= y
<1>1. IsWellFoundedOn(Smaller, Nat)
  BY NatLessThanWellFounded DEF OpToRel, Smaller
<1>2. PICK x \in T : \A y \in T : <<y, x>> \notin Smaller
  BY <1>1, WFMin
<1>3. ASSUME NEW y \in T, y < x
      PROVE  FALSE
  <2>1. <<y, x>> \in Nat \X Nat /\ <<y, x>>[1] < <<y, x>>[2]
    BY <1>3
  <2>. QED BY <1>2, <2>1 DEF Smaller
<1>. QED BY <1>3

\* Each row has a survivor, of its own group, and the group has only one.
LEMMA SurvivorLemma ==
  ASSUME NEW c, DOMAIN c \subseteq Nat, NEW i \in DOMAIN c
  PROVE  /\ SurvivorIn(c, i) \in DOMAIN c
         /\ AsciiLower[c[SurvivorIn(c, i)].name] = AsciiLower[c[i].name]
         /\ \A j \in DOMAIN c : AsciiLower[c[j].name] = AsciiLower[c[i].name] =>
              SurvivorIn(c, j) = SurvivorIn(c, i) /\ SurvivorIn(c, i) <= j
<1>1. TwinsIn(c, i) \subseteq Nat /\ i \in TwinsIn(c, i)
  BY DEF TwinsIn
<1>2. \E x \in TwinsIn(c, i) : \A y \in TwinsIn(c, i) : x <= y
  BY <1>1, LeastElement
<1>3. SurvivorIn(c, i) \in TwinsIn(c, i) /\ \A y \in TwinsIn(c, i) : SurvivorIn(c, i) <= y
  BY <1>2 DEF SurvivorIn
<1>4. ASSUME NEW j \in DOMAIN c, AsciiLower[c[j].name] = AsciiLower[c[i].name]
      PROVE  SurvivorIn(c, j) = SurvivorIn(c, i) /\ SurvivorIn(c, i) <= j
  <2>1. TwinsIn(c, j) = TwinsIn(c, i) /\ j \in TwinsIn(c, i)
    BY <1>4 DEF TwinsIn
  <2>2. SurvivorIn(c, j) = SurvivorIn(c, i)
    BY <2>1 DEF SurvivorIn
  <2>. QED BY <1>3, <2>1, <2>2
<1>. QED BY <1>3, <1>4 DEF TwinsIn

\* Two survivors are of different groups.
LEMMA SurvivorsDiffer ==
  ASSUME DOMAIN characters \subseteq Nat, NEW i \in Survivors, NEW j \in Survivors,
         AsciiLower[characters[i].name] = AsciiLower[characters[j].name]
  PROVE  i = j
<1>1. PICK k \in DOMAIN characters : i = SurvivorIn(characters, k)
  BY DEF Survivors, Survivor
<1>2. PICK l \in DOMAIN characters : j = SurvivorIn(characters, l)
  BY DEF Survivors, Survivor
<1>3. AsciiLower[characters[k].name] = AsciiLower[characters[l].name]
  BY <1>1, <1>2, SurvivorLemma
<1>. QED BY <1>1, <1>2, <1>3, SurvivorLemma

LEMMA SurvivorsType ==
  ASSUME DOMAIN characters \subseteq Nat
  PROVE  /\ Survivors \subseteq DOMAIN characters
         /\ \A i \in DOMAIN characters :
              /\ Survivor(i) \in Survivors
              /\ AsciiLower[characters[Survivor(i)].name] = AsciiLower[characters[i].name]
BY SurvivorLemma DEF Survivors, Survivor

-----------------------------------------------------------------------------
(* The invariant.                                                          *)

Rows == [name : Names, guild : Guilds \cup {NoGuild}]

LegacyOK ==
  /\ DOMAIN legacy.characters \subseteq 1 .. lastId
  /\ legacy.characters \in [DOMAIN legacy.characters -> Rows]
  /\ legacy.links \subseteq Players \X DOMAIN legacy.characters
  /\ DOMAIN legacy.runs \subseteq Hashes
  /\ legacy.runs \in [DOMAIN legacy.runs ->
                        [character_id : DOMAIN legacy.characters, within_time : BOOLEAN]]

\* What the statements so far have done for the one that follows: it is what
\* keeps the cascade of the delete from taking a run or the last link.
Progress ==
  /\ pc \in {"links", "delete"} => \A h \in DOMAIN runs : runs[h].character_id \in Survivors
  /\ pc = "delete" => \A l \in links : <<l[1], Survivor(l[2])>> \in links
  /\ pc = "done" => \A i \in DOMAIN characters : AsciiLower[characters[i].name] = characters[i].name

Inv ==
  /\ TypeOK
  /\ LegacyOK
  /\ Progress
  /\ RunsAreKept
  /\ LinksAreKept
  /\ LoweringDoesNotCollide

LEMMA LowerType ==
  /\ \A n \in Names : /\ Lower[n] \in Names /\ AsciiLower[n] \in Names
                      /\ AsciiLower[AsciiLower[n]] = AsciiLower[n]
                      /\ AsciiLower[Lower[n]] = Lower[n]
  /\ \A g \in Guilds \cup {NoGuild} : LowerRealm[g] \in Guilds \cup {NoGuild}
BY DatabaseAssumption, MigrationAssumption DEF DatabaseAssumption, MigrationAssumption

LEMMA IdsAreNumbers ==
  ASSUME TypeOK
  PROVE  DOMAIN characters \subseteq Nat
BY DEF TypeOK

LEMMA InitInv == Init => Inv
<1>. SUFFICES ASSUME Init PROVE Inv
  OBVIOUS
<1>1. /\ DOMAIN characters \subseteq 1 .. lastId
      /\ characters \in [DOMAIN characters -> Rows]
      /\ lastId \in Nat
  BY MigrationAssumption DEF Init, LegacyCharacters, Rows, MigrationAssumption
<1>2. /\ DOMAIN runs \subseteq Hashes
      /\ runs \in [DOMAIN runs -> [character_id : DOMAIN characters, within_time : BOOLEAN]]
  BY DEF Init, LegacyRuns
<1>3. links \subseteq Players \X DOMAIN characters
  BY DEF Init
<1>4. TypeOK /\ LegacyOK
  BY <1>1, <1>2, <1>3 DEF Init, TypeOK, LegacyOK, Rows
<1>5. RunsAreKept
  BY <1>2 DEF Init, RunsAreKept
<1>. QED
  BY <1>4, <1>5 DEF Inv, Init, Progress, LinksAreKept, LoweringDoesNotCollide

-----------------------------------------------------------------------------
(* One lemma per statement.                                                *)

LEMMA RepointPreserves ==
  ASSUME Inv, RepointRuns
  PROVE  Inv'
<1>. USE DEF Inv
<1>1. DOMAIN characters \subseteq Nat
  BY IdsAreNumbers
<1>2. /\ DOMAIN runs' = DOMAIN runs
      /\ \A h \in DOMAIN runs :
           /\ runs'[h].within_time = runs[h].within_time
           /\ runs'[h].character_id \in Survivors
           /\ AsciiLower[characters[runs'[h].character_id].name]
                = AsciiLower[characters[runs[h].character_id].name]
           /\ runs'[h] \in [character_id : DOMAIN characters, within_time : BOOLEAN]
  BY <1>1, SurvivorsType DEF RepointRuns, TypeOK
<1>3. runs' = [h \in DOMAIN runs' |-> runs'[h]]
  BY DEF RepointRuns
<1>4. UNCHANGED <<characters, lastId, players, links, legacy>> /\ pc = "runs" /\ pc' = "links"
  BY DEF RepointRuns
<1>5. TypeOK'
  BY <1>2, <1>3, <1>4 DEF TypeOK
<1>6. LegacyOK' /\ LinksAreKept' /\ LoweringDoesNotCollide'
  BY <1>4 DEF LegacyOK, LinksAreKept, LinkedNames, LoweringDoesNotCollide
<1>7. Progress'
  BY <1>2, <1>4 DEF Progress, Survivors, Survivor
<1>8. RunsAreKept'
  BY <1>2, <1>4, SurvivorsType, <1>1 DEF RunsAreKept
<1>. QED BY <1>5, <1>6, <1>7, <1>8

LEMMA RelinkPreserves ==
  ASSUME Inv, RelinkPlayers
  PROVE  Inv'
<1>. USE DEF Inv
<1>1. DOMAIN characters \subseteq Nat
  BY IdsAreNumbers
<1>2. /\ UNCHANGED <<characters, lastId, players, runs, legacy>> /\ pc = "links" /\ pc' = "delete"
      /\ links' = links \cup {<<l[1], Survivor(l[2])>> : l \in {k \in links : k[2] \notin Survivors}}
  BY DEF RelinkPlayers
<1>3. \A l \in links : /\ l = <<l[1], l[2]>> /\ l[1] \in Players /\ l[2] \in DOMAIN characters
  BY DEF TypeOK
<1>4. links' \subseteq Players \X DOMAIN characters
  BY <1>1, <1>2, <1>3, SurvivorsType
<1>5. \A i \in Survivors : Survivor(i) = i
  <2>1. ASSUME NEW i \in Survivors PROVE Survivor(i) = i
    <3>1. Survivor(i) \in Survivors /\ i \in DOMAIN characters
      BY <1>1, SurvivorsType
    <3>. QED BY <1>1, <3>1, SurvivorsType, SurvivorsDiffer
  <2>. QED BY <2>1
<1>6. \A l \in links' : <<l[1], Survivor(l[2])>> \in links'
  <2>1. ASSUME NEW l \in links PROVE <<l[1], Survivor(l[2])>> \in links'
    BY <1>2, <1>3, <1>5
  <2>2. ASSUME NEW l \in links PROVE Survivor(Survivor(l[2])) = Survivor(l[2])
    BY <1>1, <1>3, <1>5, SurvivorsType
  <2>. QED BY <1>2, <2>1, <2>2
<1>7. LinkedNames(links', characters) = LinkedNames(links, characters)
  <2>1. \A l \in links : AsciiLower[characters[Survivor(l[2])].name] = AsciiLower[characters[l[2]].name]
    BY <1>1, <1>3, SurvivorsType
  <2>2. ASSUME NEW x \in LinkedNames(links', characters) PROVE x \in LinkedNames(links, characters)
    <3>1. PICK l \in links' : x = <<l[1], AsciiLower[characters[l[2]].name]>>
      BY DEF LinkedNames
    <3>2. CASE l \in links
      BY <3>1, <3>2 DEF LinkedNames
    <3>3. CASE l \notin links
      <4>1. PICK k \in links : l = <<k[1], Survivor(k[2])>>
        BY <1>2, <3>3
      <4>2. x = <<k[1], AsciiLower[characters[k[2]].name]>>
        BY <2>1, <3>1, <4>1
      <4>. QED BY <4>2 DEF LinkedNames
    <3>. QED BY <3>2, <3>3
  <2>3. LinkedNames(links, characters) \subseteq LinkedNames(links', characters)
    BY <1>2 DEF LinkedNames
  <2>. QED BY <2>2, <2>3
<1>8. TypeOK'
  BY <1>2, <1>4 DEF TypeOK
<1>9. LegacyOK' /\ RunsAreKept' /\ LoweringDoesNotCollide'
  BY <1>2 DEF LegacyOK, RunsAreKept, LoweringDoesNotCollide
<1>10. Progress'
  BY <1>2, <1>6 DEF Progress, Survivors, Survivor
<1>11. LinksAreKept'
  BY <1>2, <1>7 DEF LinksAreKept
<1>. QED BY <1>8, <1>9, <1>10, <1>11

LEMMA DeletePreserves ==
  ASSUME Inv, DeleteDuplicates
  PROVE  Inv'
<1>. USE DEF Inv
<1>1. DOMAIN characters \subseteq Nat
  BY IdsAreNumbers
<1>2. /\ UNCHANGED <<lastId, players, legacy>> /\ pc = "delete" /\ pc' = "lower"
      /\ characters' = [i \in Survivors |-> characters[i]]
      /\ links' = {l \in links : l[2] \in Survivors}
  BY DEF DeleteDuplicates
<1>3. \A h \in DOMAIN runs : runs[h].character_id \in Survivors
  BY <1>2 DEF Progress
<1>4. runs' = runs
  BY <1>3 DEF DeleteDuplicates, TypeOK
<1>5. Survivors \subseteq DOMAIN characters
  BY <1>1, SurvivorsType
<1>6. TypeOK'
  <2>1. DOMAIN characters' = Survivors /\ \A i \in Survivors : characters'[i] = characters[i]
    BY <1>2
  <2>2. /\ DOMAIN characters' \subseteq 1 .. lastId'
        /\ characters' \in [DOMAIN characters' -> Rows]
    BY <1>2, <1>5, <2>1 DEF TypeOK, Rows
  <2>3. links' \subseteq Players \X DOMAIN characters'
    BY <1>2, <2>1 DEF TypeOK
  <2>4. runs' \in [DOMAIN runs' -> [character_id : DOMAIN characters', within_time : BOOLEAN]]
    <3>1. runs \in [DOMAIN runs -> [character_id : Survivors, within_time : BOOLEAN]]
      BY <1>3 DEF TypeOK
    <3>. QED BY <3>1, <1>4, <2>1
  <2>. QED BY <1>2, <1>4, <2>2, <2>3, <2>4 DEF TypeOK, Rows
<1>7. LegacyOK' /\ Progress'
  BY <1>2 DEF LegacyOK, Progress
<1>8. RunsAreKept'
  BY <1>2, <1>3, <1>4 DEF RunsAreKept
<1>9. LinkedNames(links', characters') = LinkedNames(links, characters)
  <2>1. \A l \in links : l = <<l[1], l[2]>> /\ l[2] \in DOMAIN characters
    BY DEF TypeOK
  <2>2. LinkedNames(links', characters') \subseteq LinkedNames(links, characters)
    BY <1>2 DEF LinkedNames
  <2>3. ASSUME NEW l \in links
        PROVE  <<l[1], AsciiLower[characters[l[2]].name]>> \in LinkedNames(links', characters')
    <3>1. <<l[1], Survivor(l[2])>> \in links /\ Survivor(l[2]) \in Survivors
      BY <1>1, <1>2, <2>1, SurvivorsType DEF Progress
    <3>2. AsciiLower[characters'[Survivor(l[2])].name] = AsciiLower[characters[l[2]].name]
      BY <1>1, <1>2, <2>1, <3>1, SurvivorsType
    <3>3. <<l[1], Survivor(l[2])>> \in links'
      BY <1>2, <3>1
    <3>4. \E k \in links' : <<k[1], AsciiLower[characters'[k[2]].name]>>
                               = <<l[1], AsciiLower[characters[l[2]].name]>>
      BY <3>2, <3>3
    <3>. QED BY <3>4 DEF LinkedNames
  <2>. QED BY <2>2, <2>3 DEF LinkedNames
<1>10. LinksAreKept'
  BY <1>2, <1>9 DEF LinksAreKept
<1>11. LoweringDoesNotCollide'
  BY <1>1, <1>2, SurvivorsDiffer DEF LoweringDoesNotCollide
<1>. QED BY <1>6, <1>7, <1>8, <1>10, <1>11

LEMMA LowercasePreserves ==
  ASSUME Inv, LowercaseRows
  PROVE  Inv'
<1>. USE DEF Inv
<1>1. /\ UNCHANGED <<lastId, players, links, runs, legacy>> /\ pc = "lower" /\ pc' = "done"
      /\ characters' = [i \in DOMAIN characters |->
                          [name  |-> AsciiLower[characters[i].name],
                           guild |-> LowerRealm[characters[i].guild]]]
  BY DEF LowercaseRows
<1>2. \A i \in DOMAIN characters : characters[i] \in Rows
  BY DEF TypeOK, Rows
<1>3. /\ DOMAIN characters' = DOMAIN characters
      /\ \A i \in DOMAIN characters :
           /\ characters'[i] \in Rows
           /\ characters'[i].name = AsciiLower[characters[i].name]
           /\ AsciiLower[characters'[i].name] = AsciiLower[characters[i].name]
  BY <1>1, <1>2, LowerType DEF Rows
<1>4. TypeOK'
  <2>1. characters' \in [DOMAIN characters' -> Rows]
    BY <1>1, <1>3
  <2>. QED BY <1>1, <1>3, <2>1 DEF TypeOK, Rows
<1>5. LegacyOK' /\ Progress'
  BY <1>1, <1>3 DEF LegacyOK, Progress
<1>6. RunsAreKept'
  BY <1>1, <1>3 DEF RunsAreKept, TypeOK
<1>7. LinkedNames(links', characters') = LinkedNames(links, characters)
  <2>1. \A l \in links : AsciiLower[characters'[l[2]].name] = AsciiLower[characters[l[2]].name]
    BY <1>3 DEF TypeOK
  <2>. QED BY <1>1, <2>1 DEF LinkedNames
<1>8. LinksAreKept'
  BY <1>1, <1>7 DEF LinksAreKept
<1>9. LoweringDoesNotCollide'
  BY <1>1, <1>3 DEF LoweringDoesNotCollide
<1>. QED BY <1>4, <1>5, <1>6, <1>8, <1>9

LEMMA RollbackPreserves ==
  ASSUME Inv, Rollback
  PROVE  Inv'
<1>. USE DEF Inv
<1>1. TypeOK'
  BY DEF Rollback, TypeOK, LegacyOK, Rows
<1>2. LegacyOK' /\ Progress' /\ LinksAreKept' /\ LoweringDoesNotCollide'
  BY DEF Rollback, LegacyOK, Progress, LinksAreKept, LoweringDoesNotCollide
<1>3. RunsAreKept'
  BY DEF Rollback, LegacyOK, RunsAreKept
<1>. QED BY <1>1, <1>2, <1>3

\* What an upsert does to the rows.
LEMMA UpsertedRows ==
  ASSUME Inv, NEW n \in Names, Upserted(n), NEW id, id = UpsertedId(n)
  PROVE  /\ DOMAIN characters' = DOMAIN characters \cup {id}
         /\ \A i \in DOMAIN characters : characters'[i].name = characters[i].name
         /\ \A i \in DOMAIN characters' : characters'[i] \in Rows
         /\ characters'[id].name = Lower[n]
         /\ id \notin DOMAIN characters => ~Known(n)
         /\ id \in 1 .. lastId' /\ lastId' \in Nat /\ lastId <= lastId'
<1>. USE DEF Inv, Normalised
<1>1. CASE Known(n)
  <2>1. id \in DOMAIN characters /\ characters[id].name = Lower[n]
    BY <1>1 DEF Known, UpsertedId, IdsOf
  <2>2. CoalescedGuild(n, NoGuild) = characters[id].guild
    BY <1>1 DEF CoalescedGuild
  <2>. QED
    BY <1>1, <2>1, <2>2, LowerType DEF Upserted, UpsertCharacter, TypeOK, Rows
<1>2. CASE ~Known(n)
  <2>1. id = lastId + 1 /\ id \notin DOMAIN characters
    BY <1>2 DEF UpsertedId, TypeOK
  <2>2. CoalescedGuild(n, NoGuild) = NoGuild
    BY <1>2 DEF CoalescedGuild
  <2>. QED
    BY <1>2, <2>1, <2>2, LowerType DEF Upserted, UpsertCharacter, TypeOK, Rows
<1>. QED BY <1>1, <1>2

LEMMA UpsertedPreserves ==
  ASSUME Inv, NEW n \in Names, Upserted(n)
  PROVE  Inv'
<1>. USE DEF Inv, Normalised
<1>1. UNCHANGED <<players, links, runs, pc, legacy>> /\ pc = "done"
  BY DEF Upserted, UpsertCharacter
<1>2. PICK id : id = UpsertedId(n)
  OBVIOUS
<1>3. /\ DOMAIN characters' = DOMAIN characters \cup {id}
      /\ \A i \in DOMAIN characters : characters'[i].name = characters[i].name
      /\ \A i \in DOMAIN characters' : characters'[i] \in Rows
      /\ characters'[id].name = Lower[n]
      /\ id \notin DOMAIN characters => ~Known(n)
      /\ id \in 1 .. lastId' /\ lastId' \in Nat /\ lastId <= lastId'
  BY <1>2, UpsertedRows
<1>4. TypeOK'
  <2>1. characters' \in [DOMAIN characters' -> Rows]
    BY <1>3 DEF Upserted, UpsertCharacter
  <2>2. DOMAIN characters' \subseteq 1 .. lastId'
    BY <1>3 DEF TypeOK
  <2>3. runs' \in [DOMAIN runs' -> [character_id : DOMAIN characters', within_time : BOOLEAN]]
    <3>1. [character_id : DOMAIN characters, within_time : BOOLEAN]
            \subseteq [character_id : DOMAIN characters', within_time : BOOLEAN]
      BY <1>3
    <3>. QED BY <1>1, <3>1 DEF TypeOK
  <2>. QED BY <1>1, <1>3, <2>1, <2>2, <2>3 DEF TypeOK, Rows
<1>5. LegacyOK'
  BY <1>1, <1>3 DEF LegacyOK, TypeOK
<1>6. \A i \in DOMAIN characters' : AsciiLower[characters'[i].name] = characters'[i].name
  BY <1>1, <1>3, LowerType DEF Progress
<1>7. Progress'
  BY <1>1, <1>6 DEF Progress
<1>8. RunsAreKept'
  BY <1>1, <1>3 DEF RunsAreKept, TypeOK
<1>9. LinkedNames(links', characters') = LinkedNames(links, characters)
  <2>1. \A l \in links : AsciiLower[characters'[l[2]].name] = AsciiLower[characters[l[2]].name]
    BY <1>3 DEF TypeOK
  <2>. QED BY <1>1, <2>1 DEF LinkedNames
<1>10. LinksAreKept'
  BY <1>1, <1>9 DEF LinksAreKept
<1>11. LoweringDoesNotCollide'
  <2>1. ASSUME id \notin DOMAIN characters
        PROVE  \A i \in DOMAIN characters : characters[i].name # Lower[n]
    BY <1>3, <2>1 DEF Known, IdsOf
  <2>. QED BY <1>1, <1>3, <1>6, <2>1 DEF LoweringDoesNotCollide
<1>. QED BY <1>4, <1>5, <1>7, <1>8, <1>10, <1>11

-----------------------------------------------------------------------------
(* The invariant is inductive.                                             *)

LEMMA NextInv == Inv /\ [Next]_vars => Inv'
<1>. SUFFICES ASSUME Inv, [Next]_vars PROVE Inv'
  OBVIOUS
<1>1. CASE RepointRuns
  BY <1>1, RepointPreserves
<1>2. CASE RelinkPlayers
  BY <1>2, RelinkPreserves
<1>3. CASE DeleteDuplicates
  BY <1>3, DeletePreserves
<1>4. CASE LowercaseRows
  BY <1>4, LowercasePreserves
<1>5. CASE Rollback
  BY <1>5, RollbackPreserves
<1>6. CASE \E n \in Names : Upserted(n)
  BY <1>6, UpsertedPreserves
<1>7. CASE UNCHANGED vars
  BY <1>7 DEF vars, tables, Inv, TypeOK, LegacyOK, Progress, RunsAreKept, LinksAreKept,
              LinkedNames, LoweringDoesNotCollide, Survivors, Survivor
<1>. QED BY <1>1, <1>2, <1>3, <1>4, <1>5, <1>6, <1>7 DEF Next

LEMMA Invariance == Spec => []Inv
BY InitInv, NextInv, PTL DEF Spec

-----------------------------------------------------------------------------
(* Which row a name finds afterwards.                                      *)

\* The oldest row of each legacy group is there at every statement, and holds
\* the group's name once the last one has run.
OldestRowsStay ==
  LET old == legacy.characters
  IN /\ pc \in {"runs", "links", "delete"} => characters = old
     /\ pc = "lower" => \A i \in DOMAIN old :
          SurvivorIn(old, i) \in DOMAIN characters
            /\ characters[SurvivorIn(old, i)] = old[SurvivorIn(old, i)]
     /\ pc = "done" => \A i \in DOMAIN old :
          SurvivorIn(old, i) \in DOMAIN characters
            /\ characters[SurvivorIn(old, i)].name = AsciiLower[old[i].name]

LEMMA OldestInit == Init => OldestRowsStay
  BY DEF Init, OldestRowsStay

LEMMA OldestNext == Inv /\ OldestRowsStay /\ [Next]_vars => OldestRowsStay'
<1>. SUFFICES ASSUME Inv, OldestRowsStay, [Next]_vars
              PROVE  OldestRowsStay'
  OBVIOUS
<1>1. PICK old : old = legacy.characters /\ old = legacy'.characters
  BY DEF Next, RepointRuns, RelinkPlayers, DeleteDuplicates, LowercaseRows, Rollback, Upserted, vars
<1>. DEFINE oldest(i) == SurvivorIn(old, i)
<1>2. /\ DOMAIN old \subseteq Nat
      /\ \A i \in DOMAIN old : /\ oldest(i) \in DOMAIN old
                              /\ AsciiLower[old[oldest(i)].name] = AsciiLower[old[i].name]
  <2>1. DOMAIN old \subseteq Nat
    BY <1>1 DEF Inv, LegacyOK, TypeOK
  <2>. QED BY <2>1, SurvivorLemma
<1>3. /\ pc \in {"runs", "links", "delete"} => characters = old
      /\ pc = "lower" => \A i \in DOMAIN old :
           oldest(i) \in DOMAIN characters /\ characters[oldest(i)] = old[oldest(i)]
      /\ pc = "done" => \A i \in DOMAIN old :
           oldest(i) \in DOMAIN characters /\ characters[oldest(i)].name = AsciiLower[old[i].name]
  BY <1>1 DEF OldestRowsStay
<1>. SUFFICES /\ pc' \in {"runs", "links", "delete"} => characters' = old
              /\ pc' = "lower" => \A i \in DOMAIN old :
                   oldest(i) \in DOMAIN characters' /\ characters'[oldest(i)] = old[oldest(i)]
              /\ pc' = "done" => \A i \in DOMAIN old :
                   oldest(i) \in DOMAIN characters'
                     /\ characters'[oldest(i)].name = AsciiLower[old[i].name]
  <2>1. \A i \in DOMAIN old : SurvivorIn(legacy'.characters, i) = oldest(i)
    BY <1>1
  <2>. HIDE DEF oldest
  <2>. QED BY <1>1, <2>1 DEF OldestRowsStay
<1>. HIDE DEF oldest
<1>4. CASE RepointRuns \/ RelinkPlayers \/ UNCHANGED vars
  BY <1>3, <1>4 DEF RepointRuns, RelinkPlayers, vars, tables
<1>5. CASE DeleteDuplicates
  <2>1. characters = old /\ characters' = [i \in Survivors |-> characters[i]] /\ pc' = "lower"
    BY <1>3, <1>5 DEF DeleteDuplicates
  <2>2. \A i \in DOMAIN old : oldest(i) \in Survivors
    BY <2>1 DEF Survivors, Survivor, oldest
  <2>. QED BY <2>1, <2>2
<1>6. CASE LowercaseRows
  <2>1. \A i \in DOMAIN old : /\ oldest(i) \in DOMAIN characters'
                              /\ characters'[oldest(i)].name = AsciiLower[old[oldest(i)].name]
    BY <1>3, <1>6 DEF LowercaseRows
  <2>. QED BY <1>2, <1>6, <2>1 DEF LowercaseRows
<1>7. CASE Rollback
  BY <1>1, <1>7 DEF Rollback
<1>8. CASE \E n \in Names : Upserted(n)
  <2>1. PICK n \in Names : Upserted(n)
    BY <1>8
  <2>2. pc = "done" /\ pc' = "done"
    BY <2>1 DEF Upserted
  <2>3. \A i \in DOMAIN characters : i \in DOMAIN characters' /\ characters'[i].name = characters[i].name
    BY <2>1, UpsertedRows
  <2>. QED BY <1>3, <2>2, <2>3
<1>. QED BY <1>4, <1>5, <1>6, <1>7, <1>8 DEF Next

LEMMA OldestInvariance == Spec => []OldestRowsStay
BY Invariance, OldestInit, OldestNext, PTL DEF Spec

LEMMA OldestIsFound == Inv /\ OldestRowsStay => OldNamesFindTheOldestRow
<1>. SUFFICES ASSUME Inv, OldestRowsStay, pc = "done", NEW i \in DOMAIN legacy.characters,
                     AsciiLower[legacy.characters[i].name] = Lower[legacy.characters[i].name]
              PROVE  \E min \in {j \in DOMAIN legacy.characters :
                                   AsciiLower[legacy.characters[j].name] = Lower[legacy.characters[i].name]} :
                       /\ IdsOf(legacy.characters[i].name) = {min}
                       /\ \A j \in {j \in DOMAIN legacy.characters :
                                   AsciiLower[legacy.characters[j].name] = Lower[legacy.characters[i].name]} :
                            min <= j
  BY DEF OldNamesFindTheOldestRow
<1>. DEFINE old  == legacy.characters
            min  == SurvivorIn(old, i)
            rows == {j \in DOMAIN old : AsciiLower[old[j].name] = Lower[old[i].name]}
<1>1. DOMAIN old \subseteq Nat
  BY DEF Inv, LegacyOK, TypeOK
<1>2. min \in rows /\ \A j \in rows : min <= j
  BY <1>1, SurvivorLemma
<1>3. min \in DOMAIN characters /\ characters[min].name = Lower[old[i].name]
  BY DEF OldestRowsStay
<1>. HIDE DEF min
<1>4. \A j \in DOMAIN characters : characters[j].name = characters[min].name => j = min
  BY <1>3 DEF Inv, LoweringDoesNotCollide
<1>5. IdsOf(old[i].name) = {min}
  BY <1>3, <1>4 DEF IdsOf, Normalised
<1>. QED BY <1>2, <1>5

-----------------------------------------------------------------------------
(* The theorems.                                                           *)

\* The migration keeps the tables well-typed at every statement.
THEOREM MigrationTypeCorrect == Spec => []TypeOK
<1>1. Inv => TypeOK
  BY DEF Inv
<1>. QED BY Invariance, <1>1, PTL

\* The migration loses no run and moves none to another character.
THEOREM MigrationKeepsRuns == Spec => []RunsAreKept
<1>1. Inv => RunsAreKept
  BY DEF Inv
<1>. QED BY Invariance, <1>1, PTL

\* Players stay linked to the characters they were linked to.
THEOREM MigrationKeepsLinks == Spec => []LinksAreKept
<1>1. Inv => LinksAreKept
  BY DEF Inv
<1>. QED BY Invariance, <1>1, PTL

\* The last statement cannot fail on the UNIQUE constraint.
THEOREM MigrationCommits == Spec => []LoweringDoesNotCollide
<1>1. Inv => LoweringDoesNotCollide
  BY DEF Inv
<1>. QED BY Invariance, <1>1, PTL

\* Under any spelling that the two ways of lowercasing agree on, a character of
\* the old table is found in one row, the oldest it had.
THEOREM MigrationKeepsOldest == Spec => []OldNamesFindTheOldestRow
BY Invariance, OldestInvariance, OldestIsFound, PTL
=============================================================================
