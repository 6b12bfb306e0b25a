-------------------------- MODULE RetryClientProofs --------------------------
(***************************************************************************)
(* Proofs about RetryClient, for every number of retries, every setting of *)
(* the backoff, every Retry-After and every width of the words.            *)
(***************************************************************************)
EXTENDS RetryClient, WellFoundedInduction, TLAPS

-----------------------------------------------------------------------------
(* PowerOf2 is defined.  The function that satisfies its recursion is put  *)
(* together from its initial segments, which are unique.                   *)

LEMMA LeastNatural ==
  ASSUME NEW S, S \subseteq Nat, S # {}
  PROVE  \E x \in S : \A y \in S : ~ y < x
<1> DEFINE Below == {p \in Nat \X Nat : p[1] < p[2]}
<1>1. IsWellFoundedOn(Below, Nat)
  BY NatLessThanWellFounded DEF OpToRel
<1>2. \A x, y \in Nat : y < x => <<y, x>> \in Below
  OBVIOUS
<1> HIDE DEF Below
<1>3. PICK x \in S : \A y \in S : <<y, x>> \notin Below
  BY <1>1, WFMin
<1> QED
  BY <1>2, <1>3

\* Its values up to n.
Segment(h, n) ==
  /\ h \in [0 .. n -> Nat]
  /\ h[0] = 1
  /\ \A k \in 1 .. n : h[k] = 2 * h[k - 1]

LEMMA SegmentsExist == \A n \in Nat : \E h : Segment(h, n)
<1> DEFINE Missing == {n \in Nat : ~ \E h : Segment(h, n)}
<1> SUFFICES ASSUME Missing # {}
             PROVE  FALSE
  OBVIOUS
<1> HIDE DEF Missing
<1>1. Missing \subseteq Nat
  BY DEF Missing
<1>2. PICK n \in Missing : \A m \in Missing : ~ m < n
  BY <1>1, LeastNatural
<1>3. n # 0
  <2>1. Segment([k \in 0 .. 0 |-> 1], 0)
    BY DEF Segment
  <2> QED
    BY <2>1 DEF Missing
<1>4. n \in Nat /\ n - 1 \in Nat /\ n - 1 < n
  BY <1>1, <1>3
<1>5. PICK h : Segment(h, n - 1)
  BY <1>2, <1>4 DEF Missing
<1> DEFINE longer == [k \in 0 .. n |-> IF k < n THEN h[k] ELSE 2 * h[n - 1]]
<1>6. \A k \in 0 .. n - 1 : h[k] \in Nat /\ longer[k] = h[k]
  BY <1>4, <1>5 DEF Segment
<1>7. longer[n] = 2 * h[n - 1] /\ n - 1 \in 0 .. n - 1 /\ h[n - 1] \in Nat
  <2>1. n \in 0 .. n /\ ~ n < n /\ n - 1 \in 0 .. n - 1
    BY <1>4
  <2>2. longer[n] = 2 * h[n - 1]
    BY <2>1
  <2>3. h[n - 1] \in Nat
    BY <1>5, <2>1 DEF Segment
  <2> QED
    BY <2>1, <2>2, <2>3
<1>8. longer \in [0 .. n -> Nat]
  <2> SUFFICES ASSUME NEW k \in 0 .. n
               PROVE  (IF k < n THEN h[k] ELSE 2 * h[n - 1]) \in Nat
    OBVIOUS
  <2>1. k < n => h[k] \in Nat
    BY <1>4, <1>5 DEF Segment
  <2> QED
    BY <1>7, <2>1
<1>9. longer[0] = 1
  BY <1>4, <1>5, <1>6 DEF Segment
<1>10. \A k \in 1 .. n : longer[k] = 2 * longer[k - 1]
  <2> TAKE k \in 1 .. n
  <2> HIDE DEF longer
  <2>1. CASE k = n
    BY <1>4, <1>6, <1>7, <2>1
  <2>2. CASE k # n
    <3>1. k \in 1 .. n - 1 /\ k \in 0 .. n - 1 /\ k - 1 \in 0 .. n - 1
      BY <1>4, <2>2
    <3> QED
      BY <1>5, <1>6, <3>1 DEF Segment
  <2> QED
    BY <2>1, <2>2
<1>11. Segment(longer, n)
  BY <1>8, <1>9, <1>10 DEF Segment
<1> QED
  BY <1>2, <1>11 DEF Missing

LEMMA SegmentsAgree ==
  ASSUME NEW m \in Nat, NEW n \in Nat, NEW g, NEW h, Segment(g, m), Segment(h, n)
  PROVE  \A k \in Nat : k <= m /\ k <= n => g[k] = h[k]
<1> DEFINE Apart == {k \in Nat : k <= m /\ k <= n /\ g[k] # h[k]}
<1> SUFFICES ASSUME Apart # {}
             PROVE  FALSE
  OBVIOUS
<1> HIDE DEF Apart
<1>1. Apart \subseteq Nat
  BY DEF Apart
<1>2. PICK k \in Apart : \A i \in Apart : ~ i < k
  BY <1>1, LeastNatural
<1>3. k \in Nat /\ k <= m /\ k <= n /\ g[k] # h[k]
  BY <1>2 DEF Apart
<1>4. k # 0
  BY <1>3 DEF Segment
<1>5. k - 1 \in Nat /\ k - 1 < k /\ k - 1 <= m /\ k - 1 <= n /\ k \in 1 .. m /\ k \in 1 .. n
  BY <1>3, <1>4
<1>6. g[k - 1] = h[k - 1]
  BY <1>2, <1>5 DEF Apart
<1>7. g[k] = 2 * g[k - 1] /\ h[k] = 2 * h[k - 1]
  BY <1>5 DEF Segment
<1> QED
  BY <1>3, <1>6, <1>7

\* PowerOf2 is what its definition says.
LEMMA PowerOf2Def == PowerOf2 = [n \in Nat |-> IF n = 0 THEN 1 ELSE 2 * PowerOf2[n - 1]]
<1> DEFINE seg(n) == CHOOSE h : Segment(h, n)
           power == [n \in Nat |-> seg(n)[n]]
<1>1. \A n \in Nat : Segment(seg(n), n)
  BY SegmentsExist
<1> HIDE DEF seg
<1>2. power[0] = 1
  BY <1>1 DEF Segment
<1>3. \A n \in Nat \ {0} : power[n] = 2 * power[n - 1]
  <2> TAKE n \in Nat \ {0}
  <2>1. n - 1 \in Nat /\ n \in 1 .. n /\ n - 1 <= n /\ n - 1 <= n - 1
    OBVIOUS
  <2>2. seg(n)[n] = 2 * seg(n)[n - 1]
    BY <1>1, <2>1 DEF Segment
  <2>3. seg(n)[n - 1] = seg(n - 1)[n - 1]
    BY <1>1, <2>1, SegmentsAgree
  <2> QED
    BY <2>1, <2>2, <2>3
<1> HIDE DEF power
<1>4. power = [n \in Nat |-> IF n = 0 THEN 1 ELSE 2 * power[n - 1]]
  <2>1. power = [n \in Nat |-> power[n]]
    BY DEF power
  <2>2. \A n \in Nat : power[n] = IF n = 0 THEN 1 ELSE 2 * power[n - 1]
    BY <1>2, <1>3
  <2> QED
    BY <2>1, <2>2
<1> QED
  BY <1>4 DEF PowerOf2

\* Powers are natural numbers: the least that is not would be twice one that is.
LEMMA PowerOf2Type == \A n \in Nat : PowerOf2[n] \in Nat
<1> DEFINE Odd == {n \in Nat : PowerOf2[n] \notin Nat}
<1> SUFFICES ASSUME Odd # {}
             PROVE  FALSE
  OBVIOUS
<1> HIDE DEF Odd
<1>1. Odd \subseteq Nat
  BY DEF Odd
<1>2. PICK n \in Odd : \A m \in Odd : ~ m < n
  BY <1>1, LeastNatural
<1>3. n \in Nat /\ PowerOf2[n] = (IF n = 0 THEN 1 ELSE 2 * PowerOf2[n - 1])
  BY <1>1, PowerOf2Def
<1>4. CASE n = 0
  BY <1>2, <1>3, <1>4 DEF Odd
<1>5. CASE n # 0
  <2>1. n - 1 \in Nat /\ n - 1 < n
    BY <1>3, <1>5
  <2>2. PowerOf2[n - 1] \in Nat
    BY <1>2, <2>1 DEF Odd
  <2> QED
    BY <1>2, <1>3, <1>5, <2>2 DEF Odd
<1> QED
  BY <1>4, <1>5

-----------------------------------------------------------------------------
(* The arithmetic of backoff_ms.                                           *)

USE RetryAssumption

LEMMA ProductIsNoLess ==
  ASSUME NEW b \in Nat, NEW p \in Nat, NEW q \in Nat, b # 0, p >= q
  PROVE  b * p \in Nat /\ b * p >= q
<1>1. PICK c \in Nat : b = c + 1
  <2>1. b - 1 \in Nat /\ b = (b - 1) + 1
    OBVIOUS
  <2> QED
    BY <2>1
<1>2. c * p \in Nat
  OBVIOUS
<1>3. (c + 1) * p = c * p + p
  OBVIOUS
<1> QED
  BY <1>1, <1>2, <1>3

LEMMA ProductOfNats ==
  ASSUME NEW b \in Nat, NEW p \in Nat
  PROVE  b * p \in Nat
  OBVIOUS

\* Saturating twice on the way is the same as not saturating, because the
\* cap is below the saturation.
LEMMA CappedIsIdeal ==
  ASSUME NEW a \in Nat \ {0}
  PROVE  /\ Capped(a) = Smaller(BaseBackoff * PowerOf2[a - 1], MaxBackoff)
         /\ Capped(a) \in 0 .. MaxBackoff
<1>1. PICK p \in Nat : p = PowerOf2[a - 1]
  <2>1. a - 1 \in Nat
    OBVIOUS
  <2> QED
    BY <2>1, PowerOf2Type
<1>2. PICK b \in Nat, max \in Nat, top \in Nat :
        b = BaseBackoff /\ max = MaxBackoff /\ top = WordSize - 1 /\ max <= top
  OBVIOUS
<1>3. b * p \in Nat /\ b * top \in Nat
  BY <1>1, <1>2, ProductOfNats
<1>4. Saturating(p) = IF p < top THEN p ELSE top
  BY <1>1, <1>2 DEF Saturating, Smaller
<1>5. Capped(a) = Smaller(Smaller(b * Saturating(p), top), max)
  BY <1>1, <1>2 DEF Capped, Saturating
<1>6. CASE p < top
  BY <1>1, <1>2, <1>3, <1>4, <1>5, <1>6 DEF Smaller
<1>7. CASE ~ p < top /\ b = 0
  BY <1>1, <1>2, <1>3, <1>4, <1>5, <1>7 DEF Smaller
<1>8. CASE ~ p < top /\ b # 0
  <2>1. b * p >= top /\ b * top >= top
    BY <1>1, <1>2, <1>8, ProductIsNoLess
  <2> QED
    BY <1>1, <1>2, <1>3, <1>4, <1>5, <1>8, <2>1 DEF Smaller
<1> QED
  BY <1>6, <1>7, <1>8

LEMMA ComputedRange ==
  ASSUME NEW a \in Nat \ {0}, NEW d \in Computed(a)
  PROVE  /\ d \in 0 .. WordSize - 1
         /\ Capped(a) <= d
         /\ 4 * d <= 5 * Capped(a)
<1>1. PICK c \in Nat : c = Capped(a) /\ c <= WordSize - 1
  BY CappedIsIdeal
<1>2. PICK jitter \in 0 .. c \div 4 : d = Saturating(c + jitter)
  BY <1>1 DEF Computed
<1>3. jitter \in Nat /\ 4 * jitter <= c
  BY <1>1, <1>2
<1> QED
  BY <1>1, <1>2, <1>3 DEF Saturating, Smaller

LEMMA RemainderRange ==
  ASSUME NEW n \in Nat, NEW w \in Nat \ {0}
  PROVE  n % w \in 0 .. w - 1 /\ (n < w => n % w = n)
  OBVIOUS

\* The header is obeyed whenever its milliseconds fit into a word.
LEMMA AdvisedRange ==
  ASSUME NEW a \in Nat \ {0}, NEW computed \in Computed(a), NEW header \in RetryAfters
  PROVE  /\ header * Millis \in Nat
         /\ Advised(computed, header) \in 0 .. WordSize - 1
         /\ Capped(a) <= Advised(computed, header)
         /\ header * Millis < WordSize => header * Millis <= Advised(computed, header)
<1>1. PICK m \in Nat : m = header * Millis
  <2>1. header \in Nat /\ Millis \in Nat
    OBVIOUS
  <2> QED
    BY <2>1, ProductOfNats
<1>2. m % WordSize \in 0 .. WordSize - 1 /\ (m < WordSize => m % WordSize = m)
  BY RemainderRange
<1>3. computed \in 0 .. WordSize - 1 /\ Capped(a) <= computed /\ Capped(a) \in Nat
  BY ComputedRange, CappedIsIdeal
<1>4. PICK r \in 0 .. WordSize - 1 : r = m % WordSize
  BY <1>2
<1>5. Advised(computed, header) = IF r < computed THEN computed ELSE r
  BY <1>1, <1>4 DEF Advised, Larger
<1> QED
  BY <1>1, <1>2, <1>3, <1>4, <1>5

-----------------------------------------------------------------------------
(* The inductive invariant: how the requests sent relate to the attempts   *)
(* counted, and the pending sleep to what is owed.                         *)

CountInv ==
  /\ requests <= MaxRetries + 1
  /\ pc \in {"sending", "sleeping"} =>
       requests = attempt /\ attempt <= MaxRetries /\ last \in Transient \cup {"none"}
  /\ pc = "sleeping" => attempt > 0
  /\ pc = "failed" /\ last \in Transient => requests = MaxRetries + 1

SleepInv ==
  /\ pc = "sending" => owed = 0
  /\ pc = "sleeping" =>
       /\ owed <= delay
       /\ Capped(requests) <= delay
       /\ last = "limited" \/ 4 * delay <= 5 * Capped(requests)

RetryInv == TypeOK /\ CountInv /\ SleepInv

LEMMA RetryInvInit == Init => RetryInv
  BY DEF Init, RetryInv, TypeOK, CountInv, SleepInv, Endings, Results, Transient

\* A step of Retry after a request that may be repeated, with any set of waits
\* that backoff_ms can return.
LEMMA RetryKeeps ==
  ASSUME RetryInv, NEW ending \in Transient, Send(ending),
         NEW Delays, Retry(Delays),
         \A d \in Delays : /\ d \in 0 .. WordSize - 1
                          /\ owed' <= d
                          /\ Capped(attempt + 1) <= d
                          /\ (ending = "limited" \/ 4 * d <= 5 * Capped(attempt + 1)),
         owed' \in 0 .. WordSize - 1
  PROVE  RetryInv'
<1>1. /\ pc = "sending" /\ requests = attempt /\ attempt \in 0 .. MaxRetries
      /\ last' = ending /\ ending \in Transient /\ MaxRetries \in Nat
  BY DEF RetryInv, TypeOK, CountInv, Send
<1>2. requests' = attempt + 1 /\ attempt' = attempt + 1
  BY <1>1 DEF Send, Smaller, Retry
<1>3. CASE attempt + 1 > MaxRetries
  <2>1. pc' = "failed" /\ delay' = 0
    BY <1>2, <1>3 DEF Retry
  <2> QED
    BY <1>1, <1>2, <1>3, <2>1 DEF RetryInv, TypeOK, CountInv, SleepInv, Transient, Endings, Results
<1>4. CASE ~ attempt + 1 > MaxRetries
  <2>1. pc' = "sleeping" /\ delay' \in Delays
    BY <1>2, <1>4 DEF Retry
  <2>2. PICK d \in Delays : d = delay' /\ d \in 0 .. WordSize - 1 /\ owed' <= d
    BY <2>1
  <2>3. TypeOK'
    BY <1>1, <1>2, <1>4, <2>1, <2>2 DEF TypeOK, Transient, Endings, Results
  <2>4. CountInv'
    BY <1>1, <1>2, <1>4, <2>1 DEF CountInv, Transient
  <2>5. PICK k : k = attempt + 1 /\ k = requests'
    BY <1>2
  <2>6. Capped(requests)' = Capped(k) /\ Capped(k) = Capped(attempt + 1)
    BY <2>5 DEF Capped
  <2>7. Capped(requests)' <= delay' /\ (last' = "limited" \/ 4 * delay' <= 5 * Capped(requests)')
    BY <1>1, <2>2, <2>6
  <2>8. SleepInv'
    BY <2>1, <2>2, <2>7 DEF SleepInv
  <2> QED
    BY <2>3, <2>4, <2>8 DEF RetryInv
<1> QED
  BY <1>3, <1>4

\* A step that ends the call for another reason than a repeated failure.
LEMMA ReturnKeeps ==
  ASSUME RetryInv, NEW ending \in Endings \ Transient, Send(ending),
         NEW result \in Results, Return(result)
  PROVE  RetryInv'
<1>1. /\ pc = "sending" /\ requests = attempt /\ attempt \in 0 .. MaxRetries
      /\ last' = ending /\ pc' = result /\ delay' = 0 /\ UNCHANGED <<attempt, owed>>
  BY DEF RetryInv, TypeOK, CountInv, Send, Return
<1>2. requests' = requests + 1
  BY <1>1 DEF Send, Smaller
<1> QED
  BY <1>1, <1>2 DEF RetryInv, TypeOK, CountInv, SleepInv, Transient, Endings, Results

LEMMA RetryInvNext == RetryInv /\ [Next]_vars => RetryInv'
<1> SUFFICES ASSUME RetryInv, [Next]_vars
             PROVE  RetryInv'
  OBVIOUS
<1>0. /\ attempt \in Nat /\ attempt + 1 \in Nat \ {0}
      /\ owed \in 0 .. WordSize - 1 /\ (pc = "sending" => owed = 0)
  BY DEF RetryInv, TypeOK, SleepInv
<1>1. CASE NetworkError \/ ServerError
  <2>1. PICK ending \in {"network", "server"} :
          pc = "sending" /\ Send(ending) /\ Retry(Computed(attempt + 1)) /\ owed' = owed
    BY <1>1 DEF NetworkError, ServerError, Send
  <2>2. \A d \in Computed(attempt + 1) : /\ d \in 0 .. WordSize - 1 /\ owed' <= d
                                         /\ Capped(attempt + 1) <= d
                                         /\ 4 * d <= 5 * Capped(attempt + 1)
    BY <1>0, <2>1, ComputedRange
  <2>3. ending \in Transient
    BY DEF Transient
  <2> QED
    BY <1>0, <2>1, <2>2, <2>3, RetryKeeps
<1>2. CASE RateLimited
  <2>1. Send("limited") /\ pc = "sending" /\ "limited" \in Transient
    BY <1>2 DEF RateLimited, Send, Transient
  <2>2. CASE Retry(Computed(attempt + 1)) /\ UNCHANGED owed
    <3>1. \A d \in Computed(attempt + 1) : /\ d \in 0 .. WordSize - 1 /\ owed' <= d
                                           /\ Capped(attempt + 1) <= d
      BY <1>0, <2>1, <2>2, ComputedRange
    <3> QED
      BY <1>0, <2>1, <2>2, <3>1, RetryKeeps
  <2>3. CASE \E header \in RetryAfters :
               /\ Retry({Advised(computed, header) : computed \in Computed(attempt + 1)})
               /\ owed' = IF header * Millis < WordSize THEN Larger(owed, header * Millis) ELSE owed
    <3>1. PICK header \in RetryAfters :
               /\ Retry({Advised(computed, header) : computed \in Computed(attempt + 1)})
               /\ owed' = IF header * Millis < WordSize THEN Larger(owed, header * Millis) ELSE owed
      BY <2>3
    <3> DEFINE Delays == {Advised(computed, header) : computed \in Computed(attempt + 1)}
    <3>2. header * Millis \in Nat
      <4>1. header \in Nat /\ Millis \in Nat
        OBVIOUS
      <4> QED
        BY <4>1, ProductOfNats
    <3>3. owed' = IF header * Millis < WordSize THEN header * Millis ELSE 0
      BY <1>0, <2>1, <3>1, <3>2 DEF Larger
    <3>4. owed' \in 0 .. WordSize - 1
      BY <3>2, <3>3
    <3>5. \A d \in Delays : d \in 0 .. WordSize - 1 /\ owed' <= d /\ Capped(attempt + 1) <= d
      <4> SUFFICES ASSUME NEW computed \in Computed(attempt + 1)
                   PROVE  /\ Advised(computed, header) \in 0 .. WordSize - 1
                          /\ owed' <= Advised(computed, header)
                          /\ Capped(attempt + 1) <= Advised(computed, header)
        OBVIOUS
      <4>1. /\ Advised(computed, header) \in 0 .. WordSize - 1
            /\ Capped(attempt + 1) <= Advised(computed, header)
            /\ header * Millis < WordSize => header * Millis <= Advised(computed, header)
        BY <1>0, AdvisedRange
      <4> QED
        BY <3>3, <4>1
    <3> HIDE DEF Delays
    <3>6. Retry(Delays)
      BY <3>1 DEF Delays
    <3> QED
      BY <2>1, <3>4, <3>5, <3>6, RetryKeeps
  <2> QED
    BY <1>2, <2>2, <2>3 DEF RateLimited
<1>3. CASE ClientError \/ Profile \/ Garbled
  <2>1. PICK ending \in Endings \ Transient, result \in Results : Send(ending) /\ Return(result)
    BY <1>3 DEF ClientError, Profile, Garbled, ReadError, Endings, Transient, Results
  <2> QED
    BY <2>1, ReturnKeeps
<1>4. CASE Wake
  <2>1. pc = "sleeping" /\ owed <= delay /\ delay \in Nat
    BY <1>4 DEF Wake, RetryInv, SleepInv, TypeOK
  <2>2. owed' = 0 /\ pc' = "sending" /\ delay' = 0
    BY <1>0, <1>4, <2>1 DEF Wake
  <2> QED
    BY <1>4, <2>1, <2>2 DEF Wake, RetryInv, TypeOK, CountInv, SleepInv
<1>5. CASE UNCHANGED vars
  <2>1. UNCHANGED <<pc, attempt, delay, last, requests, owed>>
    BY <1>5 DEF vars
  <2>2. SleepInv'
    BY <2>1 DEF RetryInv, SleepInv, Capped
  <2> QED
    BY <2>1, <2>2 DEF RetryInv, TypeOK, CountInv
<1> QED
  BY <1>1, <1>2, <1>3, <1>4, <1>5 DEF Next

\* The invariant holds of every call.
LEMMA RetryInvariance == Spec => []RetryInv
  BY RetryInvInit, RetryInvNext, PTL DEF Spec

-----------------------------------------------------------------------------
(* The theorems.                                                           *)

\* No count and no wait of a call leaves its type: in particular no wait is
\* ever more than a u64 holds, saturated or not.
THEOREM RetryTypes == Spec => []TypeOK
<1>1. RetryInv => TypeOK
  BY DEF RetryInv
<1> QED
  BY <1>1, RetryInvariance, PTL

\* max_retries + 1 requests, no more, and no fewer before giving up on an
\* error that may pass.
THEOREM ExactRetries == Spec => []RetriesAreExact
<1>1. RetryInv => RetriesAreExact
  BY DEF RetryInv, CountInv, RetriesAreExact
<1> QED
  BY <1>1, RetryInvariance, PTL

\* Every wait is within a quarter of the exponential of the documentation,
\* whatever the width of the words the saturating arithmetic works on.
THEOREM WaitsFollow == Spec => []WaitsFollowTheExponential
<1>1. RetryInv => WaitsFollowTheExponential
  <2> SUFFICES ASSUME RetryInv, pc = "sleeping"
               PROVE  LET ideal == Smaller(BaseBackoff * PowerOf2[requests - 1], MaxBackoff)
                      IN 4 * delay >= 3 * ideal /\ (last = "limited" \/ 4 * delay <= 5 * ideal)
    BY DEF WaitsFollowTheExponential
  <2>1. requests \in Nat \ {0}
    BY DEF RetryInv, TypeOK, CountInv
  <2>2. PICK ideal \in Nat : /\ ideal = Smaller(BaseBackoff * PowerOf2[requests - 1], MaxBackoff)
                             /\ ideal = Capped(requests)
    BY <2>1, CappedIsIdeal
  <2>3. delay \in Nat /\ ideal <= delay /\ (last = "limited" \/ 4 * delay <= 5 * ideal)
    BY <2>2 DEF RetryInv, TypeOK, SleepInv
  <2>4. 4 * delay >= 3 * ideal
    BY <2>3
  <2> QED
    BY <2>2, <2>3, <2>4
<1> QED
  BY <1>1, RetryInvariance, PTL

\* A Retry-After that fits into the arithmetic is waited for before anything
\* else is sent.
THEOREM RetryAfterHonoured == Spec => []RetryAfterIsHonoured
<1>1. RetryInv => RetryAfterIsHonoured
  BY DEF RetryInv, SleepInv, RetryAfterIsHonoured
<1> QED
  BY <1>1, RetryInvariance, PTL

\* The steps a call may still take: a request and a wait for every attempt that
\* is left.
StepsLeft ==
  IF pc \in Results THEN 0
  ELSE 2 * (MaxRetries + 1 - requests) + (IF pc = "sleeping" THEN 1 ELSE 0)

\* Every request and every wait brings a call nearer to its end, so that it
\* ends after 2 * (max_retries + 1) of them at most, whatever Raider.IO answers:
\* what CallReturns needs besides the fairness of the timers.
THEOREM CallsRunOut == Spec => [](StepsLeft \in Nat) /\ [][StepsLeft' < StepsLeft]_vars
<1>1. RetryInv => StepsLeft \in Nat
  BY DEF RetryInv, TypeOK, CountInv, StepsLeft
<1>2. RetryInv /\ RetryInv' /\ [Next]_vars => [StepsLeft' < StepsLeft]_vars
  <2> SUFFICES ASSUME RetryInv, RetryInv', Next
               PROVE  StepsLeft' < StepsLeft
    OBVIOUS
  <2>1. CASE Wake
    <3>1. pc = "sleeping" /\ pc' = "sending" /\ requests' = requests /\ requests \in 0 .. MaxRetries
      BY <2>1 DEF Wake, RetryInv, TypeOK, CountInv
    <3> QED
      BY <3>1 DEF StepsLeft, Results
  <2>2. CASE \E ending \in Endings : Send(ending) /\ pc' \in {"sleeping"} \cup Results
    <3>1. /\ pc = "sending" /\ requests \in 0 .. MaxRetries /\ requests' = requests + 1
          /\ pc' \in {"sleeping"} \cup Results
      BY <2>2 DEF Send, Smaller, RetryInv, TypeOK, CountInv
    <3> QED
      BY <3>1 DEF StepsLeft, Results
  <2> QED
    BY <2>1, <2>2 DEF Next, NetworkError, RateLimited, ServerError, ClientError, Profile, Garbled,
                      Retry, Return, ReadError, Endings, Results
<1> QED
  BY <1>1, <1>2, RetryInvariance, PTL DEF Spec
=============================================================================
