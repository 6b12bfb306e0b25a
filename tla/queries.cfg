SPECIFICATION QuerySpec
CONSTANTS
  Names = {"a", "b", "c"}
  Lower <- MCLower
  Guilds = {"G-R", "G-r", "H-r"}
  NoGuild = "none"
  Players = {"p", "q"}
  RunKeys = {"k", "l", "m"}
  Owners <- MCOwners
  PlayerOf <- MCPlayerOf
  NoPlayer = "nobody"
  InWindow = {"k", "m"}
  Writers = {"link", "delete"}
  MaxRows = 3
  Endpoints = {"leaderboard", "character", "player", "stats", "roster", "runs", "guild_runs", "depletions"}
  Ran <- MCRan
  Today = {"k"}
  Week = {"k", "l"}
  TopLimit = 1
  NoLimit = NoLimit
  Limits <- MCLimits
  PageDefault <- MCPageDefault
  PageCap <- MCPageCap
  LowerRealm <- MCLowerRealm
CONSTRAINT MCFewForStats
CHECK_DEADLOCK FALSE
INVARIANTS
  QueryTypeOK
  SteadyRunsCountForTheirPlayers
  NoRunCountsTwice
  PlayersGetTheirOwnRuns
  TotalsAreExact
  RosterIsTheLatestPull
  PagesAreCapped
  FiguresBracketTheTables
