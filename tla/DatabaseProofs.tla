--------------------------- MODULE DatabaseProofs ---------------------------
(***************************************************************************)
(* What each statement of Database keeps true of the tables, whoever       *)
(* issues it: TrackerProofs and QueryProofs cite these lemmas.             *)
(***************************************************************************)
EXTENDS Database, TLAPS

-----------------------------------------------------------------------------
(* The statements of the database, one lemma each.                         *)

DbInv == DatabaseTypeOK /\ OneRowPerCharacter /\ RunsBelongToTheirCharacter

\* What every statement leaves true of the ids that tasks carry: a row that
\* survives keeps its name, and a new row has an id never used before.
IdsAreStable ==
  /\ lastId' \in Nat /\ lastId <= lastId'
  /\ \A i \in DOMAIN characters' :
       \/ i \in DOMAIN characters /\ characters'[i].name = characters[i].name
       \/ i > lastId

LEMMA LowerType ==
  /\ Names # {}
  /\ \A n \in Names : /\ Lower[n] \in Canonical /\ Lower[n] \in Names
                      /\ Lower[Lower[n]] = Lower[n]
  /\ \A c \in Canonical : Lower[c] = c
BY DatabaseAssumption DEF DatabaseAssumption, Canonical

\* Upserting a character keeps the tables sound and returns the id of its row.
LEMMA UpsertCharacterLemma ==
  ASSUME DbInv, NEW n \in Names, NEW guild \in Guilds \cup {NoGuild},
         UpsertCharacter(n, guild)
  PROVE  /\ DbInv' /\ IdsAreStable
         /\ \E id \in DOMAIN characters' : id = UpsertedId(n) /\ Carries(id, n)'
<1>. USE DEF Normalised
<1>0. PICK id : id = UpsertedId(n)
  OBVIOUS
<1>1. CASE Known(n)
  <2>1. id \in DOMAIN characters /\ characters[id].name = Lower[n]
    BY <1>0, <1>1 DEF Known, UpsertedId, IdsOf
  <2>2. CoalescedGuild(n, guild) \in Guilds \cup {NoGuild}
    BY <1>0, <2>1 DEF CoalescedGuild, DbInv, DatabaseTypeOK
  <2>3. DOMAIN characters' = DOMAIN characters /\ lastId' = lastId
    BY <1>0, <2>1, <1>1 DEF UpsertCharacter
  <2>4. \A i \in DOMAIN characters : characters'[i].name = characters[i].name
                                   /\ characters'[i].guild \in Guilds \cup {NoGuild}
    BY <1>0, <2>1, <2>2 DEF UpsertCharacter, DbInv, DatabaseTypeOK
  <2>. QED
    BY <1>0, <2>1, <2>2, <2>3, <2>4, LowerType
    DEF UpsertCharacter, DbInv, DatabaseTypeOK, OneRowPerCharacter, Carries,
        RunsBelongToTheirCharacter, IdsAreStable
<1>2. CASE ~Known(n)
  <2>1. id = lastId + 1 /\ id \notin DOMAIN characters /\ lastId \in Nat
    BY <1>0, <1>2 DEF UpsertedId, DbInv, DatabaseTypeOK
  <2>2. \A i \in DOMAIN characters : characters[i].name # Lower[n]
    BY <1>2 DEF Known, IdsOf
  <2>3. CoalescedGuild(n, guild) = guild
    BY <1>2 DEF CoalescedGuild
  <2>4. /\ DOMAIN characters' = DOMAIN characters \cup {id}
        /\ lastId' = lastId + 1
        /\ characters'[id] = [name |-> Lower[n], guild |-> guild]
        /\ \A i \in DOMAIN characters : characters'[i] = characters[i]
    BY <1>0, <2>1, <1>2, <2>3 DEF UpsertCharacter
  <2>5. DatabaseTypeOK'
    <3>1. DOMAIN characters' \subseteq 1 .. lastId' /\ lastId' \in Nat
      BY <2>1, <2>4 DEF DbInv, DatabaseTypeOK
    <3>2. characters' \in [DOMAIN characters' ->
                             [name : Canonical, guild : Guilds \cup {NoGuild}]]
      BY <1>0, <1>2, <2>1, <2>3, LowerType DEF UpsertCharacter, DbInv, DatabaseTypeOK
    <3>. QED
      BY <3>1, <3>2 DEF UpsertCharacter, DbInv, DatabaseTypeOK
  <2>6. OneRowPerCharacter'
    <3>1. \A i \in DOMAIN characters' : Lower[characters'[i].name] = characters'[i].name
      BY <2>5, LowerType DEF DatabaseTypeOK
    <3>2. \A i \in DOMAIN characters : Lower[characters[i].name] = characters[i].name
      BY LowerType DEF DbInv, DatabaseTypeOK
    <3>. QED
      BY <2>2, <2>4, <3>1, <3>2 DEF DbInv, OneRowPerCharacter
  <2>7. RunsBelongToTheirCharacter'
    BY <2>1, <2>4 DEF UpsertCharacter, DbInv, RunsBelongToTheirCharacter
  <2>8. IdsAreStable /\ Carries(id, n)'
    BY <2>1, <2>4 DEF DbInv, DatabaseTypeOK, IdsAreStable, Carries
  <2>. QED
    BY <1>0, <2>4, <2>5, <2>6, <2>7, <2>8 DEF DbInv
<1>. QED BY <1>1, <1>2

\* A delete takes a row with everything that hangs off it.
LEMMA DeleteCharacterLemma ==
  ASSUME DbInv, NEW n, DeleteCharacter(n)
  PROVE  DbInv' /\ IdsAreStable
BY DEF DeleteCharacter, DbInv, DatabaseTypeOK, OneRowPerCharacter,
       RunsBelongToTheirCharacter, IdsAreStable

\* Inserting a run under an id that belongs to the hashed name, if to anyone.
LEMMA InsertRunLemma ==
  ASSUME DbInv, NEW n \in Names, NEW id, Carries(id, n), NEW r \in Reports, InsertRun(id, n, r)
  PROVE  DbInv' /\ IdsAreStable
<1>1. run_hash(n, r) \in Hashes /\ r.timed \in BOOLEAN
  BY LowerType DEF run_hash, Hashes, Reports
<1>2. run_hash(n, r)[1] = Lower[n]
  BY DEF run_hash
<1>. QED
  BY <1>1, <1>2
  DEF InsertRun, CanInsertRun, DbInv, DatabaseTypeOK, OneRowPerCharacter,
      RunsBelongToTheirCharacter, IdsAreStable, Carries

LEMMA UpsertPlayerLemma ==
  ASSUME DbInv, NEW p \in Players, UpsertPlayer(p)
  PROVE  DbInv' /\ IdsAreStable
BY DEF UpsertPlayer, DbInv, DatabaseTypeOK, OneRowPerCharacter,
       RunsBelongToTheirCharacter, IdsAreStable

LEMMA LinkLemma ==
  ASSUME DbInv, NEW p \in Players, NEW id \in Nat, LinkPlayerCharacter(p, id)
  PROVE  DbInv' /\ IdsAreStable
BY DEF LinkPlayerCharacter, DbInv, DatabaseTypeOK, OneRowPerCharacter,
       RunsBelongToTheirCharacter, IdsAreStable

LEMMA NoStatementLemma ==
  ASSUME DbInv, UNCHANGED tables
  PROVE  DbInv' /\ IdsAreStable
BY DEF tables, DbInv, DatabaseTypeOK, OneRowPerCharacter,
       RunsBelongToTheirCharacter, IdsAreStable
=============================================================================
