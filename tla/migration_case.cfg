SPECIFICATION Spec
CONSTANTS
  Names = {"A", "a", "E-acute", "e-acute"}
  Lower <- MCLower
  AsciiLower <- MCAsciiLower
  Guilds = {"G-R", "G-r"}
  NoGuild = "none"
  LowerRealm <- MCLowerRealm
  LegacyGuilds = {"none"}
  Players = {"p"}
  RunKeys = {"k"}
  LegacyRows = 3
  MaxRows = 4
CHECK_DEADLOCK FALSE
INVARIANT CanonicalRowIsFound
