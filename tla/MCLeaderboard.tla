--------------------------- MODULE MCLeaderboard ---------------------------
(***************************************************************************)
(* An instance of Leaderboard for TLC: a character that belongs to         *)
(* one player, one of two, and one that config.toml does not declare.      *)
(***************************************************************************)
EXTENDS Leaderboard

MCLower    == [n \in Names |-> n]
MCOwners   == [n \in Names |-> CASE n = "a" -> {"p"} [] n = "b" -> {"p", "q"} [] OTHER -> {}]
MCPlayerOf == [n \in Names |-> CASE n = "a" -> "p" [] n = "b" -> "q" [] OTHER -> NoPlayer]
=============================================================================
