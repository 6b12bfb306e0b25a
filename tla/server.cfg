SPECIFICATION Spec
CONSTANTS
  Names = {"A", "a", "b"}
  Lower <- MCLower
  Guilds = {G}
  NoGuild = NoGuild
  Players = {"p", "q"}
  RunKeys = {"k", "l", "unparsable"}
  Unparsable = {"unparsable"}
  MaxConcurrent = 2
  Requests = {r1}
  Batches = {b1}
  Pulls = {g1}
  Profiles <- MCProfiles
  Rosters <- MCRosters
  Config <- MCTwoPlayers
  Faults = {"db", "cancel", "crash"}
  MaxInputs = 4
CONSTRAINT MCApart
CHECK_DEADLOCK FALSE
INVARIANTS
  TypeOK
  RunsBelongToTheirCharacter
  
  CarriedIdsAreNotReused
  SeededBeforeServing
  OneRowPerCharacter
  PassedMembersAreRecorded
  LinksAreDeclared
PROPERTIES
  ImplementsArchive
  RowsLeaveForAReason
  GuildIsNotErased
