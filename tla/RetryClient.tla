---------------------------- MODULE RetryClient ----------------------------
(***************************************************************************)
(* One call of RaiderIoClient::get_with_retry (src/raiderio.rs) and of the *)
(* get_*_profile function around it: the requests it sends, the waits of   *)
(* backoff_ms between them, and the result its caller sees, down to the    *)
(* message that update_all_characters takes for "no such character".       *)
(*                                                                         *)
(* Calls share nothing but the semaphore of Service, which the caller      *)
(* holds from the first request to the last: how long a call may last is   *)
(* how long a permit is out.  Time is in milliseconds scaled down with the *)
(* width of u64: WordSize stands for 2^64 and Millis for the 1000 of       *)
(* `secs * 1_000`, which wraps in the release build.                       *)
(***************************************************************************)
EXTENDS Naturals

CONSTANTS
  MaxRetries,   \* raiderio.max_retries
  BaseBackoff,  \* raiderio.base_backoff_ms
  MaxBackoff,   \* raiderio.max_backoff_ms
  WordSize,     \* 2^64
  Millis,       \* milliseconds per second
  RetryAfters   \* the numbers of seconds a Retry-After header may hold

ASSUME RetryAssumption ==
  /\ MaxRetries \in Nat
  /\ WordSize \in Nat \ {0}
  /\ BaseBackoff \in 0 .. WordSize - 1
  /\ MaxBackoff \in 0 .. WordSize - 1
  /\ Millis \in Nat \ {0}
  /\ RetryAfters \subseteq 0 .. WordSize - 1

VARIABLES
  pc,         \* "sending", "sleeping", or the result: "profile", "gone", "failed"
  attempt,    \* the local `attempt`: requests that are to be retried
  delay,      \* the milliseconds of the pending sleep
  last,       \* what the last request met
  requests,   \* requests sent so far, counted up to one more than is allowed
  owed        \* milliseconds Raider.IO still asked not to be called for

vars == <<pc, attempt, delay, last, requests, owed>>

\* How a request ends: no answer (connection error or the 30 s timeout), 429,
\* any 5xx, 400 with "Could not find requested character", any other status
\* that is no success, 2xx with a profile, 2xx with anything else.
Endings   == {"network", "limited", "server", "missing", "refused", "profile", "garbled"}
Transient == {"network", "limited", "server"}
Results   == {"profile", "gone", "failed"}

TypeOK ==
  /\ pc \in {"sending", "sleeping"} \cup Results
  /\ attempt \in 0 .. MaxRetries + 1
  /\ delay \in 0 .. WordSize - 1
  /\ last \in Endings \cup {"none"}
  /\ requests \in 0 .. MaxRetries + 2
  /\ owed \in 0 .. WordSize - 1

Init ==
  /\ pc = "sending"
  /\ attempt = 0
  /\ delay = 0
  /\ last = "none"
  /\ requests = 0
  /\ owed = 0

-----------------------------------------------------------------------------
(* backoff_ms, in u64 arithmetic.                                          *)

Smaller(a, b) == IF a < b THEN a ELSE b
Larger(a, b)  == IF a < b THEN b ELSE a

\* Mistake: plain arithmetic, which wraps.
Wrapping(n) == n % WordSize

Saturating(n) == Smaller(n, WordSize - 1)

\* 2 ^ n, of which no prover knows that it is a number.
PowerOf2[n \in Nat] == IF n = 0 THEN 1 ELSE 2 * PowerOf2[n - 1]

\* base.saturating_mul(2.saturating_pow(attempt - 1)).min(max)
Capped(a) == Smaller(Saturating(BaseBackoff * Saturating(PowerOf2[a - 1])), MaxBackoff)

Computed(a) == {Saturating(Capped(a) + jitter) : jitter \in 0 .. Capped(a) \div 4}

\* Mistake: the header is parsed but the computed backoff is used.
ComputedFirst(computed, header) == computed

\* The wait when there is a Retry-After header of `header` seconds.
Advised(computed, header) == Larger((header * Millis) % WordSize, computed)

-----------------------------------------------------------------------------
(* get_with_retry.                                                         *)

\* Mistake: the limit is compared before the attempt is counted.
RetryOnceMore(Delays) ==
  /\ attempt' = attempt + 1
  /\ IF attempt > MaxRetries THEN pc' = "failed" /\ delay' = 0
     ELSE pc' = "sleeping" /\ delay' \in Delays

\* Mistake: an error that may pass is tried again without being counted.
RetryForever(Delays) ==
  /\ pc' = "sleeping"
  /\ delay' \in Delays
  /\ UNCHANGED attempt

\* Count the attempt; give up, or sleep for one of Delays and go round again.
Retry(Delays) ==
  /\ attempt' = attempt + 1
  /\ IF attempt' > MaxRetries THEN pc' = "failed" /\ delay' = 0
     ELSE pc' = "sleeping" /\ delay' \in Delays

Send(ending) ==
  /\ pc = "sending"
  /\ requests' = Smaller(requests + 1, MaxRetries + 2)
  /\ last' = ending

NetworkError ==
  /\ Send("network")
  /\ Retry(Computed(attempt + 1))
  /\ UNCHANGED owed

\* 429.  A header that is absent, or no number of seconds, counts as none.  A
\* number of seconds that is too large for u64 milliseconds asks for nothing.
RateLimited ==
  /\ Send("limited")
  /\ \/ Retry(Computed(attempt + 1)) /\ UNCHANGED owed
     \/ \E header \in RetryAfters :
          /\ Retry({Advised(computed, header) : computed \in Computed(attempt + 1)})
          /\ owed' = IF header * Millis < WordSize THEN Larger(owed, header * Millis) ELSE owed

ServerError ==
  /\ Send("server")
  /\ Retry(Computed(attempt + 1))
  /\ UNCHANGED owed

Return(result) ==
  /\ pc' = result
  /\ delay' = 0
  /\ UNCHANGED <<attempt, owed>>

\* The caller's reading of the message "Raider.IO error {status}: {body}".
ReadError(ending) == IF ending = "missing" THEN "gone" ELSE "failed"

ClientError ==
  \E ending \in {"missing", "refused"} : Send(ending) /\ Return(ReadError(ending))

Profile == Send("profile") /\ Return("profile")

\* get_character_profile: resp.json() fails, and is not tried again.
Garbled == Send("garbled") /\ Return(ReadError("garbled"))

Wake ==
  /\ pc = "sleeping"
  /\ pc' = "sending"
  /\ delay' = 0
  /\ owed' = IF delay < owed THEN owed - delay ELSE 0
  /\ UNCHANGED <<attempt, last, requests>>

Next ==
  \/ NetworkError \/ RateLimited \/ ServerError
  \/ ClientError \/ Profile \/ Garbled
  \/ Wake

Spec == Init /\ [][Next]_vars

\* A request ends within the client's 30 s timeout, and tokio's timer fires.
FairSpec == Spec /\ WF_vars(Next)

-----------------------------------------------------------------------------
(* Properties.                                                             *)

\* A call sends max_retries + 1 requests at most, gives up on an error that
\* may pass only after all of them, and never repeats a request that was
\* answered for good (raiderio.rs:85-141).
RetriesAreExact ==
  /\ requests <= MaxRetries + 1
  /\ pc = "failed" /\ last \in Transient => requests = MaxRetries + 1
  /\ pc \in {"sending", "sleeping"} => last \in Transient \cup {"none"}

\* However large the attempt count and the settings, the wait before the
\* n-th retry is within a quarter of the ideal min(base * 2^(n-1), max),
\* unless a Retry-After asked for more: neither the saturation nor a header
\* that wraps is ever visible as a shorter wait (raiderio.rs:149-159).
WaitsFollowTheExponential ==
  pc = "sleeping" =>
    LET ideal == Smaller(BaseBackoff * PowerOf2[requests - 1], MaxBackoff)
    IN /\ 4 * delay >= 3 * ideal
       /\ last = "limited" \/ 4 * delay <= 5 * ideal

\* The documentation calls max_backoff_ms the maximum of a wait, and the
\* comment in backoff_ms has the jitter go both ways.  The code caps first and
\* then only adds jitter, so a wait no Retry-After asked for may be a quarter
\* longer than the maximum (README.md:88, raiderio.rs:154-158).
BackoffIsCapped == pc = "sleeping" /\ last # "limited" => delay <= MaxBackoff

\* No request is sent before the time Raider.IO asked for with Retry-After,
\* whatever the later errors of the same call are (raiderio.rs:105-119).
RetryAfterIsHonoured == pc = "sending" => owed = 0

\* Every call returns, so that the permit its caller holds comes back.
CallReturns == <>(pc \in Results)
=============================================================================
