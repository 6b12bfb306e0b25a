-------------------------- MODULE TimeWindowProofs --------------------------
(***************************************************************************)
(* Proofs about TimeWindow: whatever year it is, and on whatever Sundays   *)
(* the clocks change, the week of a region starts at its last reset.       *)
(***************************************************************************)
EXTENDS TimeWindow, FiniteSetTheorems, TLAPS

-----------------------------------------------------------------------------
(* Least and greatest elements, days and weekdays.                         *)

LEMMA LeastDay ==
  ASSUME NEW S, S \subseteq 0 .. 7, S # {}
  PROVE  Min(S) \in S /\ \A d \in S : Min(S) <= d
<1>1. \E x \in S : \A y \in S : x <= y
  <2> SUFFICES ASSUME \A x \in S : \E y \in S : y < x
               PROVE  FALSE
    OBVIOUS
  <2>1. S \subseteq 1 .. 7
    OBVIOUS
  <2>2. S \subseteq 2 .. 7
    BY <2>1
  <2>3. S \subseteq 3 .. 7
    BY <2>2
  <2>4. S \subseteq 4 .. 7
    BY <2>3
  <2>5. S \subseteq 5 .. 7
    BY <2>4
  <2>6. S \subseteq 6 .. 7
    BY <2>5
  <2>7. S \subseteq 7 .. 7
    BY <2>6
  <2>8. PICK x \in S : TRUE
    OBVIOUS
  <2> QED
    BY <2>7, <2>8
<1> QED
  BY <1>1 DEF Min

LEMMA MaxIs ==
  ASSUME NEW S, S \subseteq Int, NEW x \in S, \A y \in S : x >= y
  PROVE  Max(S) = x
<1>1. \A z \in S : (\A y \in S : z >= y) => z = x
  OBVIOUS
<1> QED
  BY <1>1 DEF Max

LEMMA DayType ==
  ASSUME NEW t \in Int
  PROVE  /\ Day(t) \in Int /\ t % 24 \in 0 .. 23 /\ t = 24 * Day(t) + (t % 24)
         /\ \A d \in Int : Day(t - 24 * d) = Day(t) - d
         /\ t >= 0 => Day(t) >= 0
BY DEF Day

LEMMA DayOf ==
  ASSUME NEW j \in Int, NEW k \in 0 .. 23
  PROVE  Day(24 * j + k) = j /\ (24 * j + k) % 24 = k
BY DEF Day

\* Among any seven days in a row each day of the week is there.
LEMMA WeekdayBefore ==
  ASSUME NEW z \in Int, NEW wd \in 0 .. 6
  PROVE  \E k \in z - 6 .. z : (FirstDay + k) % 7 = wd
<1> DEFINE w == (FirstDay + z - wd) % 7
           q == (FirstDay + z - wd) \div 7
<1>1. FirstDay \in Int
  BY TimeAssumption
<1>2. w \in 0 .. 6 /\ q \in Int /\ FirstDay + z - wd = 7 * q + w
  BY <1>1
<1> HIDE DEF w, q
<1>3. (7 * q + wd) % 7 = wd
  BY <1>2
<1>4. z - w \in z - 6 .. z /\ FirstDay + (z - w) = 7 * q + wd
  BY <1>1, <1>2
<1> QED
  BY <1>3, <1>4

-----------------------------------------------------------------------------
(* The resets.                                                             *)

\* What a week ought to start at.
IsLatestReset(r, t, region) ==
  /\ r \in t - 8 * 24 .. t
  /\ IsReset(r, region)
  /\ \A s \in r + 1 .. t : ~IsReset(s, region)

LEMMA EuWeek ==
  ASSUME NEW t \in Nat, t >= 8 * 24
  PROVE  IsLatestReset(weekly_reset_start(t, "eu"), t, "eu")
<1> DEFINE found == {d \in DaysBack : EuReset(t, d) # {}}
           at(d) == 24 * (Day(t) - d) + 7
<1>1. Day(t) \in Nat /\ t % 24 \in 0 .. 23 /\ t = 24 * Day(t) + (t % 24)
  BY DayType
<1>2. \A d \in DaysBack :
        /\ EuReset(t, d) \subseteq {at(d)}
        /\ EuReset(t, d) # {} <=> (FirstDay + (Day(t) - d)) % 7 = 2 /\ at(d) <= t
  <2> SUFFICES ASSUME NEW d \in DaysBack
               PROVE  EuReset(t, d) = {r \in {at(d)} : (FirstDay + (Day(t) - d)) % 7 = 2 /\ r <= t}
    OBVIOUS
  <2>1. Day(t - 24 * d) = Day(t) - d
    BY DayType DEF DaysBack
  <2> QED
    BY <2>1 DEF EuReset, Weekday, Wed
<1> HIDE DEF found
<1>3. found # {}
  <2>1. PICK k \in Day(t) - 6 .. Day(t) : (FirstDay + k) % 7 = 2
    <3>1. Day(t) \in Int /\ 2 \in 0 .. 6
      BY <1>1
    <3> HIDE DEF at
    <3> QED
      BY <3>1, WeekdayBefore
  <2>2. CASE 24 * k + 7 <= t
    <3>1. Day(t) - k \in DaysBack /\ Day(t) - (Day(t) - k) = k
      BY <1>1 DEF DaysBack
    <3> QED
      BY <1>2, <2>1, <2>2, <3>1 DEF found
  <2>3. CASE 24 * k + 7 > t
    <3>1. k = Day(t)
      BY <1>1, <2>3
    <3>2. (FirstDay + (Day(t) - 7)) % 7 = 2
      BY <1>1, <2>1, <3>1, TimeAssumption
    <3>3. 7 \in DaysBack /\ at(7) <= t
      BY <1>1 DEF DaysBack
    <3> QED
      BY <1>2, <3>2, <3>3 DEF found
  <2> QED
    BY <1>1, <2>2, <2>3
<1>4. PICK d \in 0 .. 7 : d = Min(found) /\ d \in found /\ \A c \in found : d <= c
  BY <1>3, LeastDay DEF found, DaysBack
<1>5. weekly_reset_start(t, "eu") = at(d)
  <2>1. EuReset(t, d) = {at(d)}
    BY <1>2, <1>4 DEF found
  <2>2. weekly_reset_start(t, "eu") = CHOOSE r \in EuReset(t, Min(found)) : TRUE
    BY <1>3 DEF weekly_reset_start, found
  <2> HIDE DEF at
  <2> QED
    BY <1>4, <2>1, <2>2
<1>6. (FirstDay + (Day(t) - d)) % 7 = 2 /\ at(d) <= t
  BY <1>2, <1>4 DEF found, DaysBack
<1>7. IsReset(at(d), "eu")
  <2>1. at(d) \in Int /\ Day(at(d)) = Day(t) - d /\ at(d) % 24 = 7
    <3>1. PICK j \in Int : j = Day(t) - d
      BY <1>1
    <3>2. Day(24 * j + 7) = j /\ (24 * j + 7) % 24 = 7
      BY DayOf
    <3> QED
      BY <3>1, <3>2
  <2> QED
    BY <1>6, <2>1 DEF IsReset, Weekday, Wed
<1>8. ASSUME NEW s \in at(d) + 1 .. t, IsReset(s, "eu")
      PROVE  FALSE
  <2>1. s = 24 * Day(s) + 7 /\ Day(s) \in Int /\ (FirstDay + Day(s)) % 7 = 2
    BY <1>1, <1>8, DayType DEF IsReset, Weekday, Wed
  <2>2. PICK c \in Int : c = Day(t) - Day(s)
    BY <1>1, <2>1
  <2>3. c \in 0 .. 7 /\ c < d /\ Day(s) = Day(t) - c
    BY <1>1, <2>1, <2>2
  <2>4. c \in found
    BY <1>2, <2>1, <2>3 DEF found, DaysBack
  <2> QED
    BY <1>4, <2>3, <2>4
<1> QED
  BY <1>1, <1>5, <1>6, <1>7, <1>8 DEF IsLatestReset

-----------------------------------------------------------------------------
(* New York.  The clocks change on Sundays, so a Tuesday there has 24      *)
(* hours, all equally far behind UTC.                                      *)

Tuesday(k) == (FirstDay + k) % 7 = 1

\* 09:00 of the local day k.
Nine(k) == 24 * k + 9 + Behind(24 * k + 13)

LEMMA BehindType ==
  ASSUME NEW t \in Int
  PROVE  Behind(t) \in {4, 5} /\ ToLocal(t) \in Int /\ ToLocal(t) = t - Behind(t)
BY DEF Behind, ToLocal

LEMMA NoChangeOnTuesday ==
  ASSUME NEW k \in Int, Tuesday(k), NEW u \in 24 * k + 4 .. 24 * k + 29
  PROVE  Behind(u) = Behind(24 * k + 13)
<1>1. Spring \in Int /\ Autumn \in Int
  BY TimeAssumption
<1>2. PICK s \in Int : s = Day(Spring)
  BY <1>1, DayType
<1>3. PICK a \in Int : a = Day(Autumn)
  BY <1>1, DayType
<1>4. Spring = 24 * s + 7 /\ Autumn = 24 * a + 6
  BY <1>1, <1>2, <1>3, DayType, ClockChangeAssumption
<1>5. (FirstDay + s) % 7 = 6 /\ (FirstDay + a) % 7 = 6
  BY <1>2, <1>3, ClockChangeAssumption DEF Weekday
<1>6. s # k /\ a # k
  BY <1>5 DEF Tuesday
<1>7. /\ Spring <= u <=> Spring <= 24 * k + 13
      /\ Autumn <= u <=> Autumn <= 24 * k + 13
  BY <1>4, <1>6
<1> QED
  BY <1>1, <1>7 DEF Behind

LEMMA NineOnTuesday ==
  ASSUME NEW k \in Int, Tuesday(k)
  PROVE  /\ Nine(k) \in 24 * k + 13 .. 24 * k + 14 /\ Behind(Nine(k)) = Behind(24 * k + 13)
         /\ ToLocal(Nine(k)) = 24 * k + 9
         /\ FromLocal(24 * k + 9) = {Nine(k)}
<1>1. Behind(24 * k + 13) \in {4, 5}
  BY BehindType
<1>2. Nine(k) \in 24 * k + 13 .. 24 * k + 14
  BY <1>1 DEF Nine
<1>3. Behind(24 * k + 14) = Behind(24 * k + 13)
  BY NoChangeOnTuesday
<1>4. Behind(Nine(k)) = Behind(24 * k + 13)
  BY <1>2, <1>3
<1>5. ToLocal(Nine(k)) = 24 * k + 9
  BY <1>1, <1>4 DEF ToLocal, Nine
<1>6. FromLocal(24 * k + 9) = {Nine(k)}
  BY <1>1, <1>3 DEF FromLocal, ToLocal, Nine
<1> QED
  BY <1>2, <1>4, <1>5, <1>6

\* The instants of a Tuesday.
LEMMA InstantsOfTuesday ==
  ASSUME NEW k \in Int, Tuesday(k), NEW u \in Int
  PROVE  /\ Day(ToLocal(u)) = k <=>
              /\ 24 * k + Behind(24 * k + 13) <= u
              /\ u <= 24 * k + 23 + Behind(24 * k + 13)
         /\ Day(ToLocal(u)) < k <=> u < 24 * k + Behind(24 * k + 13)
<1>1. PICK b \in {4, 5} : b = Behind(24 * k + 13)
  BY BehindType
<1>2. Behind(u) \in {4, 5} /\ ToLocal(u) = u - Behind(u)
  BY BehindType
<1>3. PICK j \in Int, h \in 0 .. 23 : j = Day(ToLocal(u)) /\ ToLocal(u) = 24 * j + h
  <2>1. PICK l \in Int : l = ToLocal(u)
    BY BehindType
  <2>2. Day(l) \in Int /\ l % 24 \in 0 .. 23 /\ l = 24 * Day(l) + (l % 24)
    BY DayType
  <2> QED
    BY <2>1, <2>2
<1>4. u \in 24 * k + 4 .. 24 * k + 29 => Behind(u) = b
  BY <1>1, NoChangeOnTuesday
<1> QED
  BY <1>1, <1>2, <1>3, <1>4

LEMMA NaResetOf ==
  ASSUME NEW t \in Int, NEW d \in Int, NEW k \in Int, k = Day(ToLocal(t - 24 * d))
  PROVE  NaReset(t, d) = IF Tuesday(k) /\ Nine(k) <= t THEN {Nine(k)} ELSE {}
<1>1. Weekday(ToLocal(t - 24 * d)) = Tue <=> Tuesday(k)
  BY DEF Weekday, Tue, Tuesday
<1>2. Tuesday(k) => NineOClock(t, t - 24 * d) = Nine(k)
  <2>1. \A x : Min({x}) = x
    BY DEF Min
  <2> QED
    BY <2>1, NineOnTuesday DEF NineOClock
<1> QED
  BY <1>1, <1>2 DEF NaReset

LEMMA NaWeek ==
  ASSUME NEW t \in Nat, t >= 8 * 24
  PROVE  IsLatestReset(weekly_reset_start(t, "us"), t, "us")
<1> DEFINE found == {d \in DaysBack : NaReset(t, d) # {}}
           day(d) == Day(ToLocal(t - 24 * d))
<1>1. \A d \in Int : day(d) \in Int
  <2> TAKE d \in Int
  <2>1. ToLocal(t - 24 * d) \in Int
    BY BehindType
  <2> QED
    BY <2>1, DayType
<1>2. \A d \in Int :
        NaReset(t, d) = IF Tuesday(day(d)) /\ Nine(day(d)) <= t THEN {Nine(day(d))} ELSE {}
  BY <1>1, NaResetOf
\* The day back on which a Tuesday's reset is found.
<1>3. ASSUME NEW k \in Int, Tuesday(k), Nine(k) <= t
      PROVE  \E c \in Int : /\ c >= 0 /\ 24 * c <= t - 24 * k - 4 /\ day(c) = k
                            /\ \A d \in Int : day(d) < k => c < d
  <2>1. PICK b \in {4, 5} : b = Behind(24 * k + 13)
    BY BehindType
  <2>2. t >= 24 * k + 9 + b
    BY <1>3, <2>1 DEF Nine
  <2>3. PICK c \in Int : c = (t - 24 * k - b) \div 24
    OBVIOUS
  <2>4. c >= 0 /\ 24 * k + b <= t - 24 * c /\ t - 24 * c <= 24 * k + 23 + b
    BY <2>2, <2>3
  <2>5. day(c) = k
    <3>1. t - 24 * c \in Int
      OBVIOUS
    <3> QED
      BY <1>3, <2>1, <2>4, <3>1, InstantsOfTuesday
  <2>6. ASSUME NEW d \in Int, day(d) < k
        PROVE  c < d
    <3>1. t - 24 * d \in Int
      OBVIOUS
    <3>2. t - 24 * d < 24 * k + b
      BY <1>3, <2>1, <2>6, <3>1, InstantsOfTuesday
    <3> QED
      BY <2>4, <3>2
  <2> QED
    BY <2>4, <2>5, <2>6
<1> HIDE DEF found, day
<1>4. found # {}
  <2>1. PICK z \in Int : z = (t - 14) \div 24
    OBVIOUS
  <2>2. PICK k \in z - 6 .. z : Tuesday(k)
    <3>1. 1 \in 0 .. 6
      OBVIOUS
    <3> QED
      BY <3>1, WeekdayBefore DEF Tuesday
  <2>3. Nine(k) <= t
    <3>1. Nine(k) \in 24 * k + 13 .. 24 * k + 14
      BY <2>2, NineOnTuesday
    <3> QED
      BY <2>1, <3>1
  <2>4. PICK c \in Int : c >= 0 /\ 24 * c <= t - 24 * k - 4 /\ day(c) = k
    BY <1>3, <2>2, <2>3
  <2>5. c \in DaysBack
    BY <2>1, <2>4 DEF DaysBack
  <2> QED
    BY <1>2, <2>2, <2>3, <2>4, <2>5 DEF found
<1>5. PICK d \in 0 .. 7 : d = Min(found) /\ d \in found /\ \A c \in found : d <= c
  BY <1>4, LeastDay DEF found, DaysBack
<1>6. PICK k \in Int : k = day(d)
  BY <1>1
<1>7. Tuesday(k) /\ Nine(k) <= t /\ NaReset(t, d) = {Nine(k)}
  <2>1. NaReset(t, d) = IF Tuesday(k) /\ Nine(k) <= t THEN {Nine(k)} ELSE {}
    BY <1>2, <1>6
  <2>2. NaReset(t, d) # {}
    BY <1>5 DEF found
  <2> QED
    BY <2>1, <2>2
<1>8. weekly_reset_start(t, "us") = Nine(k)
  <2>1. weekly_reset_start(t, "us") = CHOOSE r \in NaReset(t, Min(found)) : TRUE
    BY <1>4 DEF weekly_reset_start, found
  <2> QED
    BY <1>5, <1>7, <2>1
<1>9. Nine(k) \in t - 8 * 24 .. t
  <2>1. PICK b \in {4, 5} : b = Behind(24 * k + 13)
    BY BehindType
  <2>2. t - 24 * d \in Int
    OBVIOUS
  <2>3. t - 24 * d <= 24 * k + 23 + b
    BY <1>6, <1>7, <2>1, <2>2, InstantsOfTuesday DEF day
  <2> QED
    BY <1>7, <2>1, <2>3 DEF Nine
<1>10. \A s \in Int : IsReset(s, "us") <=> \E j \in Int : Tuesday(j) /\ s = Nine(j)
  <2> TAKE s \in Int
  <2>1. ASSUME IsReset(s, "us")
        PROVE  \E j \in Int : Tuesday(j) /\ s = Nine(j)
    <3>1. PICK l \in Int : l = ToLocal(s)
      BY BehindType
    <3>2. PICK j \in Int : j = Day(l) /\ l = 24 * j + (l % 24)
      BY DayType
    <3>3. Tuesday(j) /\ ToLocal(s) = 24 * j + 9
      BY <2>1, <3>1, <3>2 DEF IsReset, Weekday, Tue, Tuesday
    <3>4. s \in FromLocal(24 * j + 9)
      BY <3>3, BehindType DEF FromLocal
    <3> QED
      BY <3>3, <3>4, NineOnTuesday
  <2>2. ASSUME NEW j \in Int, Tuesday(j), s = Nine(j)
        PROVE  IsReset(s, "us")
    <3>1. ToLocal(s) = 24 * j + 9
      BY <2>2, NineOnTuesday
    <3>2. Day(24 * j + 9) = j /\ (24 * j + 9) % 24 = 9
      BY DayOf
    <3> QED
      BY <2>2, <3>1, <3>2 DEF IsReset, Weekday, Tue, Tuesday
  <2> QED
    BY <2>1, <2>2
<1>11. ASSUME NEW s \in Nine(k) + 1 .. t, IsReset(s, "us")
       PROVE  FALSE
  <2>1. Nine(k) \in Int /\ s \in Int
    BY <1>9
  <2>2. PICK j \in Int : Tuesday(j) /\ s = Nine(j)
    BY <1>10, <1>11, <2>1
  <2>3. k < j
    <3>1. Nine(k) \in 24 * k + 13 .. 24 * k + 14 /\ Nine(j) \in 24 * j + 13 .. 24 * j + 14
      BY <1>7, <2>2, NineOnTuesday
    <3>2. k # j
      BY <1>11, <2>1, <2>2
    <3> QED
      BY <1>11, <2>2, <3>1, <3>2
  <2>4. PICK c \in Int : c >= 0 /\ day(c) = j /\ c < d
    BY <1>3, <1>6, <1>11, <2>1, <2>2, <2>3
  <2>5. c \in DaysBack /\ NaReset(t, c) # {}
    BY <1>2, <1>11, <2>1, <2>2, <2>4 DEF DaysBack
  <2> QED
    BY <1>5, <2>4, <2>5 DEF found
<1> QED
  BY <1>7, <1>8, <1>9, <1>10, <1>11 DEF IsLatestReset

-----------------------------------------------------------------------------
(* The invariant and the theorems.                                         *)

\* There always is a last reset, and the loop over the days finds it.
LEMMA WeekStart ==
  ASSUME NEW t \in Nat, t >= 8 * 24, NEW region \in Regions
  PROVE  IsLatestReset(weekly_reset_start(t, region), t, region)
BY EuWeek, NaWeek DEF Regions

LEMMA LastResetIs ==
  ASSUME now \in Nat, NEW region, NEW r, IsLatestReset(r, now, region)
  PROVE  LastReset(region) = r
<1> DEFINE S == {t \in now - 8 * 24 .. now : IsReset(t, region)}
<1>1. S \subseteq Int /\ r \in S
  BY DEF IsLatestReset
<1>2. \A s \in S : r >= s
  BY DEF IsLatestReset
<1> HIDE DEF S
<1>3. Max(S) = r
  BY <1>1, <1>2, MaxIs
<1> QED
  BY <1>3 DEF S, LastReset

WeekInv == TypeOK /\ WeekStartsAtTheLastReset

LEMMA WeekInvInit == Init => WeekInv
<1> SUFFICES ASSUME Init PROVE WeekInv
  OBVIOUS
<1>1. now = First /\ asked = {} /\ reply = Error
  BY DEF Init
<1>2. Cardinality(asked) = 0 /\ First \in First .. Last
  BY <1>1, FS_EmptySet, TimeAssumption
<1> QED
  BY <1>1, <1>2 DEF WeekInv, TypeOK, Error, WeekStartsAtTheLastReset

LEMMA QueryKeeps ==
  ASSUME WeekInv, NEW q \in Asked, Query(q)
  PROVE  WeekInv'
<1>1. /\ now' = now /\ asked' = {q} /\ reply' = resolve(q.scope, RegionOf(q), q.from, q.to)
      /\ now \in First .. Last
  BY DEF Query, WeekInv, TypeOK
<1>2. now \in Nat /\ now >= 8 * 24 /\ Day(now) \in Nat
  <2>1. now \in Nat /\ now >= 8 * 24
    BY <1>1, TimeAssumption
  <2> QED
    BY <2>1, DayType
<1>3. /\ q \in Queries /\ q.region \in Regions /\ q.scope \in Scopes
      /\ q.from \in Customs \cup {NoTime} /\ q.to \in Customs \cup {NoTime}
      /\ RegionOf(q) \in Regions
  BY DEF Asked, Queries, RegionOf, Regions
<1>4. PICK r : r = weekly_reset_start(now, RegionOf(q))
  OBVIOUS
<1>5. IsLatestReset(r, now, RegionOf(q)) /\ r \in Nat
  <2>1. IsLatestReset(r, now, RegionOf(q))
    BY <1>2, <1>3, <1>4, WeekStart
  <2> QED
    BY <1>2, <2>1 DEF IsLatestReset
<1>6. TypeOK'
  <2>1. Cardinality({q}) = 1
    BY FS_Singleton
  <2>2. q.from \in Nat \cup {NoTime} /\ q.to \in Nat \cup {NoTime}
    BY <1>3, TimeAssumption
  <2>3. \A from, to \in Nat \cup {NoTime} : Window(from, to) \in [ok : BOOLEAN, from : Nat, to : Nat]
    BY DEF Window, Error
  <2>4. reply' \in [ok : BOOLEAN, from : Nat, to : Nat]
    <3>1. 24 * Day(now) \in Nat /\ Error \in [ok : BOOLEAN, from : Nat, to : Nat]
      BY <1>2 DEF Error
    <3> QED
      BY <1>1, <1>2, <1>3, <1>4, <1>5, <2>2, <2>3, <3>1 DEF resolve, Scopes
  <2> QED
    BY <1>1, <1>3, <2>1, <2>4 DEF TypeOK
<1>7. WeekStartsAtTheLastReset'
  <2> SUFFICES ASSUME q.scope = "week", q.handler = "get_character_keys"
               PROVE  reply' = [ok |-> TRUE, from |-> LastReset(q.region), to |-> now]
    BY <1>1 DEF WeekStartsAtTheLastReset, LastReset
  <2>1. RegionOf(q) = q.region
    BY DEF RegionOf
  <2>2. LastReset(q.region) = r
    BY <1>2, <1>5, <2>1, LastResetIs
  <2>3. reply' = Window(r, now) /\ r # NoTime /\ now # NoTime
    BY <1>1, <1>2, <1>4, <1>5 DEF resolve, NoTime
  <2> QED
    BY <2>2, <2>3 DEF Window
<1> QED
  BY <1>6, <1>7 DEF WeekInv

LEMMA WeekInvNext == WeekInv /\ [Next]_vars => WeekInv'
<1> SUFFICES ASSUME WeekInv, [Next]_vars PROVE WeekInv'
  OBVIOUS
<1>1. CASE Tick
  <2>1. now' = now + 1 /\ now < Last /\ asked' = {} /\ reply' = Error
    BY <1>1 DEF Tick
  <2>2. Cardinality({}) = 0 /\ now' \in First .. Last
    BY <2>1, FS_EmptySet, TimeAssumption DEF WeekInv, TypeOK
  <2> QED
    BY <2>1, <2>2 DEF WeekInv, TypeOK, Error, WeekStartsAtTheLastReset
<1>2. CASE \E q \in Asked : Query(q)
  BY <1>2, QueryKeeps
<1>3. CASE UNCHANGED vars
  BY <1>3 DEF vars, WeekInv, TypeOK, WeekStartsAtTheLastReset, LastReset
<1> QED
  BY <1>1, <1>2, <1>3 DEF Next

LEMMA WeekInvariance == Spec => []WeekInv
BY WeekInvInit, WeekInvNext, PTL DEF Spec

\* Every query at every hour is answered by a window or by an error.
THEOREM WindowTypes == Spec => []TypeOK
<1>1. WeekInv => TypeOK
  BY DEF WeekInv
<1> QED
  BY WeekInvariance, <1>1, PTL

\* A character's week starts at the last reset of its region: whatever Sundays
\* the clocks change on, and at whatever hour it is asked for.
THEOREM WeeksStartAtResets == Spec => []WeekStartsAtTheLastReset
<1>1. WeekInv => WeekStartsAtTheLastReset
  BY DEF WeekInv
<1> QED
  BY WeekInvariance, <1>1, PTL

\* Between resets the start of a week stands still.
THEOREM WeeksTurnAtResets == Spec => WeekTurnsAtItsResets
<1>1. WeekInv /\ [Next]_vars =>
        [\A region \in Regions :
           weekly_reset_start(now', region) \in
             {IF IsReset(now', region) THEN now' ELSE weekly_reset_start(now, region)}]_now
  <2> SUFFICES ASSUME WeekInv, [Next]_vars, now' # now, NEW region \in Regions
               PROVE  weekly_reset_start(now', region) =
                        IF IsReset(now', region) THEN now' ELSE weekly_reset_start(now, region)
    OBVIOUS
  <2>1. now' = now + 1
    BY DEF Next, Tick, Query, vars
  <2>2. now \in Nat /\ now >= 8 * 24
    BY TimeAssumption DEF WeekInv, TypeOK
  <2>3. PICK r : r = weekly_reset_start(now, region)
    OBVIOUS
  <2>4. PICK s : s = weekly_reset_start(now', region)
    OBVIOUS
  <2>5. IsLatestReset(r, now, region) /\ IsLatestReset(s, now', region)
    BY <2>1, <2>2, <2>3, <2>4, WeekStart
  <2>6. CASE IsReset(now', region)
    BY <2>1, <2>2, <2>4, <2>5, <2>6 DEF IsLatestReset
  <2>7. CASE ~IsReset(now', region)
    <3>1. s # now' /\ s \in Int /\ r \in Int /\ s <= now /\ r <= now
      BY <2>1, <2>2, <2>5, <2>7 DEF IsLatestReset
    <3>2. ~ (s < r) /\ ~ (r < s)
      BY <2>1, <2>2, <2>5, <3>1 DEF IsLatestReset
    <3> QED
      BY <2>3, <2>4, <2>7, <3>1, <3>2
  <2> QED
    BY <2>6, <2>7
<1> QED
  BY WeekInvariance, <1>1, PTL DEF Spec, WeekTurnsAtItsResets
=============================================================================
