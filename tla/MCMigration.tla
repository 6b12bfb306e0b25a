---------------------------- MODULE MCMigration ----------------------------
(***************************************************************************)
(* Instances of Migration for TLC: one character that is spelled with the  *)
(* letters A to Z, and one with a letter that SQLite's LOWER leaves alone. *)
(***************************************************************************)
EXTENDS Migration, TLC

MCLower      == [n \in Names |-> CASE n = "A" -> "a" [] n = "E-acute" -> "e-acute" [] OTHER -> n]
MCAsciiLower == [n \in Names |-> IF n = "A" THEN "a" ELSE n]
MCLowerRealm == "G-R" :> "G-r" @@ "G-r" :> "G-r" @@ "none" :> "none"
=============================================================================
