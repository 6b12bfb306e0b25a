----------------------------- MODULE MCTracker -----------------------------
(***************************************************************************)
(* Instances of Tracker for TLC.  "A" is another spelling of "a" (think of *)
(* Raider.IO's "Area-52" and the "area-52" of config.toml).                *)
(***************************************************************************)
EXTENDS Tracker

MCLower == [n \in Names |-> IF n = "A" THEN "a" ELSE n]

Timed(k)    == [key |-> k, timed |-> TRUE]
Depleted(k) == [key |-> k, timed |-> FALSE]

\* A run that is reported timed or, by a later correction, depleted; and one
\* whose completion time does not parse.
MCProfiles == {{Timed("k")}, {Depleted("k"), Timed("unparsable")}}
MCOneRun   == {{}, {Timed("k")}}

Fresh(n) == [name |-> n, fresh |-> TRUE]
Stale(n) == [name |-> n, fresh |-> FALSE]

MCRosters     == {{Fresh("A")}, {Stale("a"), Fresh("b")}}
MCOneMember   == {{}, {Fresh("A")}, {Stale("a")}}
MCNoRosters   == {}
MCSharedAlt   == <<[player |-> "p", name |-> "A"], [player |-> "q", name |-> "a"]>>
MCOneAlt      == <<[player |-> "p", name |-> "A"]>>
MCTwoPlayers  == <<[player |-> "p", name |-> "A"], [player |-> "p", name |-> "b"],
                   [player |-> "q", name |-> "b"]>>

\* An update_all and a pull run at once only when they are the only inputs.
MCApart == inputs <= 2 \/ (\A b \in Batches : batch[b].pc = "idle")
                       \/ (\A g \in Pulls : pull[g].pc = "idle")
=============================================================================
