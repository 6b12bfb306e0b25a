SPECIFICATION Spec
CONSTANTS
  Names = {"A", "a"}
  Lower <- MCLower
  Guilds = {}
  NoGuild = NoGuild
  Players = {"p", "q"}
  RunKeys = {"k", "l", "unparsable"}
  Unparsable = {"unparsable"}
  MaxConcurrent = 1
  Requests = {}
  Batches = {b1}
  Pulls = {}
  Profiles <- MCOneRun
  Rosters <- MCNoRosters
  Config <- MCOneAlt
  Faults = {}
  MaxInputs = 2
CHECK_DEADLOCK FALSE
PROPERTY PrunedCharactersDoNotExist
