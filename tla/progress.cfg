SPECIFICATION FairSpec
CONSTANTS
  Names = {"A", "a"}
  Lower <- MCLower
  Guilds = {G}
  NoGuild = NoGuild
  Players = {"p", "q"}
  RunKeys = {"k", "l", "unparsable"}
  Unparsable = {"unparsable"}
  MaxConcurrent = 1
  Requests = {r1}
  Batches = {b1, b2}
  Pulls = {g1}
  Profiles <- MCOneRun
  Rosters <- MCOneMember
  Config <- MCSharedAlt
  Faults = {"db", "cancel", "crash"}
  MaxInputs = 3
CHECK_DEADLOCK FALSE
INVARIANTS
  PermitsConserved
PROPERTIES
  UpdatesReturn
  BatchesReturn
  PullsReturn
