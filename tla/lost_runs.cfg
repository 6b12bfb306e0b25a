SPECIFICATION Spec
CONSTANTS
  Names = {"a", "b"}
  Lower <- MCLower
  Guilds = {}
  NoGuild = NoGuild
  Players = {"p", "q"}
  RunKeys = {"k"}
  Owners <- MCOwners
  PlayerOf <- MCPlayerOf
  NoPlayer = NoPlayer
  InWindow = {"k"}
  Writers = {"link"}
  MaxRows = 3
CHECK_DEADLOCK FALSE
INVARIANT EveryRunIsCounted
