----------------------------- MODULE MCQueries -----------------------------
(***************************************************************************)
(* An instance of Queries for TLC: a character that belongs to             *)
(* one player, one of two, and one that config.toml does not declare.      *)
(***************************************************************************)
EXTENDS Queries

MCLower       == [n \in Names |-> n]
MCOwners      == [n \in Names |-> CASE n = "a" -> {"p"} [] n = "b" -> {"p", "q"} [] OTHER -> {}]
MCPlayerOf    == [n \in Names |-> CASE n = "a" -> "p" [] n = "b" -> "q" [] OTHER -> NoPlayer]
MCRan         == [n \in Names |-> CASE n = "a" -> {"k", "l"} [] n = "b" -> {"k"} [] OTHER -> {"m"}]
MCLimits      == {-1, 0, 1, 3, NoLimit}
MCPageDefault == [p \in Pages |-> 1]
MCPageCap     == [p \in Pages |-> IF p = "depletions" THEN 1 ELSE 2]
MCLowerRealm  == [g \in Guilds |-> IF g = "G-R" THEN "G-r" ELSE g]

\* The dashboard, of seven queries, is read over two of the characters only.
MCFewForStats == endpoint = "stats" => \A i \in DOMAIN characters : characters[i].name # "b"
=============================================================================
