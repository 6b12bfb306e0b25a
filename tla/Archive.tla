------------------------------ MODULE Archive ------------------------------
(***************************************************************************)
(* What the run store promises, without rows, ids, tasks or restarts: an   *)
(* archive that files each run under its character exactly once.  A run    *)
(* enters it only under a character it knows, the first report of a run is *)
(* the one that stays, and a character leaves it with all its runs at once *)
(* or not at all.                                                          *)
(***************************************************************************)
CONSTANTS Characters, Keys

VARIABLES
  known,   \* the characters on file
  archive  \* <<character, key>> |-> whether the run was timed

vars == <<known, archive>>

Init ==
  /\ known = {}
  /\ archive = [e \in {} |-> FALSE]

Meet(c) ==
  /\ known' = known \cup {c}
  /\ UNCHANGED archive

Record(c, k, timed) ==
  /\ c \in known
  /\ <<c, k>> \notin DOMAIN archive
  /\ archive' = [e \in DOMAIN archive \cup {<<c, k>>} |->
                   IF e = <<c, k>> THEN timed ELSE archive[e]]
  /\ UNCHANGED known

Forget(c) ==
  /\ known' = known \ {c}
  /\ archive' = [e \in {f \in DOMAIN archive : f[1] # c} |-> archive[e]]

Next ==
  \E c \in Characters :
    \/ Meet(c)
    \/ \E k \in Keys, timed \in BOOLEAN : Record(c, k, timed)
    \/ Forget(c)

Spec == Init /\ [][Next]_vars
=============================================================================
