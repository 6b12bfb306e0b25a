----------------------------- MODULE TimeWindow -----------------------------
(***************************************************************************)
(* The time window of a query (src/time_window.rs), over a clock that      *)
(* passes the two changes of daylight saving time in New York, and the     *)
(* handlers of src/handlers.rs that pick its region.                       *)
(*                                                                         *)
(* An instant is a number of whole hours UTC since a midnight: weekly      *)
(* resets, days and clock changes all begin on the hour, so rounding an    *)
(* instant down to it changes no comparison.  A local time of New York is  *)
(* the number of hours its wall clock shows since the same midnight.       *)
(***************************************************************************)
EXTENDS Integers, FiniteSets, FiniteSetsExt

CONSTANTS
  FirstDay,   \* the day of the week of day 0: 0 is Monday, 6 is Sunday
  First,      \* the first instant of the model
  Last,       \* its last one
  Spring,     \* the instant New York goes from UTC-5 to UTC-4
  Autumn,     \* the instant it goes back
  Customs     \* the instants a caller may give as `from` or `to`

ASSUME TimeAssumption ==
  /\ FirstDay \in 0 .. 6
  /\ First \in Nat /\ Last \in Nat /\ Spring \in Nat /\ Autumn \in Nat
  /\ First >= 8 * 24
  /\ First <= Spring /\ Spring < Autumn /\ Autumn <= Last
  /\ Customs \subseteq Nat

VARIABLES
  now,    \* Utc::now()
  asked,  \* the query answered in this hour, if any
  reply   \* its answer

vars == <<now, asked, reply>>

Regions  == {"us", "eu"}
Scopes   == {"today", "week", "alltime", "custom"}
Handlers == {"get_character_keys", "get_player_keys", "get_leaderboard"}
NoTime   == -1

\* `region` is the one in the path of a character, and the one the caller of the
\* other two passes, which KeysQuery has no field for.
Queries == [handler : Handlers, scope : Scopes, region : Regions,
            from : Customs \cup {NoTime}, to : Customs \cup {NoTime}]
Error      == [ok |-> FALSE, from |-> 0, to |-> 0]

TypeOK ==
  /\ now \in First .. Last
  /\ asked \subseteq Queries /\ Cardinality(asked) <= 1
  /\ reply \in [ok : BOOLEAN, from : Nat, to : Nat]
  /\ asked = {} => reply = Error

Tue == 1
Wed == 2
Day(t)     == t \div 24
Weekday(t) == (FirstDay + Day(t)) % 7

-----------------------------------------------------------------------------
(* chrono_tz's America/New_York.                                           *)

Behind(t) == IF Spring <= t /\ t < Autumn THEN 4 ELSE 5

ToLocal(t) == t - Behind(t)

\* The instants at which New York's clocks show `local`: none in the hour that
\* spring skips, two in the hour that autumn repeats.
FromLocal(local) == {t \in {local + 4, local + 5} : ToLocal(t) = local}

-----------------------------------------------------------------------------
(* weekly_reset_na and weekly_reset_eu.                                    *)

\* Mistake: the loop stops a day short of the same day last week.
SixDaysBack == 0 .. 6

DaysBack == 0 .. 7

\* Mistake: today's offset is used for a reset on the other side of a change.
NineAtTodaysOffset(t, day) == 24 * Day(ToLocal(day)) + 9 + Behind(t)

\* The 09:00 of the local day that holds `day`, .earliest() of its instants.
\* (t, the present, plays no part.)  09:00 is in no gap, so there is one.
NineOClock(t, day) == Min(FromLocal(24 * Day(ToLocal(day)) + 9))

NaReset(t, d) ==
  LET day == t - 24 * d
  IN {r \in {NineOClock(t, day)} : Weekday(ToLocal(day)) = Tue /\ r <= t}

EuReset(t, d) ==
  LET day == t - 24 * d
  IN {r \in {24 * Day(day) + 7} : Weekday(day) = Wed /\ r <= t}

\* The loop over days_back: the first day back with a reset that is no later
\* than now, or the Err at the end.
weekly_reset_start(t, region) ==
  LET Reset(d) == IF region = "eu" THEN EuReset(t, d) ELSE NaReset(t, d)
      found    == {d \in DaysBack : Reset(d) # {}}
  IN IF found = {} THEN NoTime ELSE CHOOSE r \in Reset(Min(found)) : TRUE

-----------------------------------------------------------------------------
(* TimeWindow::resolve and its callers.                                    *)

\* Mistake: a bound that is not given is passed on.
UncheckedWindow(from, to) == [ok |-> TRUE, from |-> from, to |-> to]

\* A start or end that is missing is an error.
Window(from, to) ==
  IF from = NoTime \/ to = NoTime THEN Error ELSE [ok |-> TRUE, from |-> from, to |-> to]

resolve(scope, region, from, to) ==
  CASE scope = "today"   -> Window(24 * Day(now), now)
    [] scope = "week"    -> Window(weekly_reset_start(now, region), now)
    [] scope = "alltime" -> Window(0, now)
    [] scope = "custom"  -> IF from > to THEN Error ELSE Window(from, to)

\* Only the handler of a single character knows a region: the player's passes
\* None, the leaderboard's Some("us").
RegionOf(q) == IF q.handler = "get_character_keys" THEN q.region ELSE "us"

Init == now = First /\ asked = {} /\ reply = Error

Tick ==
  /\ now < Last
  /\ now' = now + 1
  /\ asked' = {} /\ reply' = Error

\* A query is answered within the hour.
Query(q) ==
  /\ asked = {}
  /\ asked' = {q}
  /\ reply' = resolve(q.scope, RegionOf(q), q.from, q.to)
  /\ UNCHANGED now

\* `from` and `to` are looked at for scope=custom only.
Asked == {q \in Queries : q.scope = "custom" \/ {q.from, q.to} = {NoTime}}

Next == Tick \/ \E q \in Asked : Query(q)

Spec == Init /\ [][Next]_vars

-----------------------------------------------------------------------------
(* Properties.                                                             *)

\* The wall clock of New York, or that of UTC, says it is reset time.
IsReset(t, region) ==
  IF region = "eu" THEN Weekday(t) = Wed /\ t % 24 = 7
  ELSE Weekday(ToLocal(t)) = Tue /\ ToLocal(t) % 24 = 9

LastReset(region) == Max({t \in now - 8 * 24 .. now : IsReset(t, region)})

\* A character's week starts at the last reset of its region that has passed,
\* at any hour of the week and across both clock changes; there always is one
\* (time_window.rs:83-147).  The resets are those of the code's own comments
\* and of api.html:319; README.md:196 gives another for NA, see below.
WeekStartsAtTheLastReset ==
  \A q \in asked :
    q.scope = "week" /\ q.handler = "get_character_keys"
      => reply = [ok |-> TRUE, from |-> LastReset(q.region), to |-> now]

\* The start of the week stands still between those resets and moves, to the
\* present hour, at one: a run that counts this week is not dropped, nor one of
\* last week taken back in, when the clocks change (time_window.rs:90-119).
WeekTurnsAtItsResets ==
  [][\A region \in Regions :
       weekly_reset_start(now', region) \in
         {IF IsReset(now', region) THEN now' ELSE weekly_reset_start(now, region)}]_now

\* The README has the week of NA begin on Tuesday at 15:00 UTC, and shows such
\* an answer of get_character_keys.  The code's begins at 09:00 in New York,
\* which is 13:00 or 14:00 UTC (README.md:196 and 220, time_window.rs:8-13).
WeekStartsAsDocumented ==
  \A q \in asked :
    q.scope = "week" /\ q.handler = "get_character_keys" /\ q.region = "us"
      => reply.from = Max({t \in now - 8 * 24 .. now : Weekday(t) = Tue /\ t % 24 = 15})

\* Spring and autumn change the clocks at 02:00 local time of a Sunday.
ASSUME ClockChangeAssumption ==
  /\ Weekday(Spring) = 6 /\ Spring % 24 = 7
  /\ Weekday(Autumn) = 6 /\ Autumn % 24 = 6
=============================================================================
