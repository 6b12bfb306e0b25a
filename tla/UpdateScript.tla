---------------------------- MODULE UpdateScript ----------------------------
(***************************************************************************)
(* scripts/mplus-update.sh: the health check, POST /update/all and its     *)
(* retries, run by systemd as a oneshot service with a start timeout       *)
(* whenever mplus-update.timer elapses; and the server as curl sees it:    *)
(* the bearer-token middleware (src/auth.rs) in front of an update_all     *)
(* whose tasks outlive the connection (Service has their inside).          *)
(*                                                                         *)
(* Time advances while the script waits for curl or sleeps.  systemd does  *)
(* not start a oneshot service that is still starting, so there is one     *)
(* script at a time; the three hours between two firings are left out.     *)
(***************************************************************************)
EXTENDS Naturals, Sequences

CONSTANTS
  HealthTimeout,  \* curl --max-time of the health check
  Timeout,        \* MPLUS_TIMEOUT
  RetryDelay,     \* MPLUS_RETRY_DELAY
  MaxRetries,     \* MPLUS_MAX_RETRIES
  StartLimit,     \* TimeoutStartSec
  Rows,           \* characters on file: the tasks of one update_all
  MaxFirings,     \* bound on the firings of the timer
  MaxCrashes      \* bound on the crashes of the server

ASSUME ScriptAssumption ==
  {HealthTimeout, Timeout, RetryDelay, MaxRetries, StartLimit, Rows, MaxFirings, MaxCrashes}
    \subseteq Nat

VARIABLES
  pc,       \* "off", "health", "send", "post", "sleep"
  attempt,  \* POSTs made by this invocation
  wait,     \* time until curl or sleep gives up
  elapsed,  \* time since systemd started the script
  result,   \* how the last invocation ended, or "none" while it runs
  firings,  \* invocations so far
  token,    \* MPLUS_API_TOKEN is the server's API_TOKEN
  server,   \* "up" or "down"
  crashes,  \* crashes so far
  jobs,     \* the update_all requests the server accepted
  job       \* the one curl is waiting for, 0 if none

script == <<pc, attempt, wait, elapsed, result, firings, job>>
vars   == <<script, token, server, crashes, jobs>>

Job == [firing : Nat, left : Nat, lost : BOOLEAN]

TypeOK ==
  /\ pc \in {"off", "health", "send", "post", "sleep"}
  /\ attempt \in 0 .. MaxRetries
  /\ wait \in Nat
  /\ elapsed \in 0 .. StartLimit
  /\ result \in {"none", "ok", "unhealthy", "unauthorized", "failed", "killed"}
  /\ firings \in Nat /\ crashes \in Nat
  /\ token \in BOOLEAN
  /\ server \in {"up", "down"}
  /\ jobs \in Seq(Job)
  /\ job \in 0 .. Len(jobs)

Init ==
  /\ pc = "off" /\ attempt = 0 /\ wait = 0 /\ elapsed = 0
  /\ result = "none" /\ firings = 0 /\ job = 0
  /\ token \in BOOLEAN
  /\ server \in {"up", "down"}
  /\ crashes = 0
  /\ jobs = <<>>

-----------------------------------------------------------------------------
(* The script.                                                             *)

End(r) == pc' = "off" /\ result' = r

Fire ==
  /\ pc = "off"
  /\ firings < MaxFirings
  /\ firings' = firings + 1
  /\ pc' = "health" /\ wait' = HealthTimeout
  /\ attempt' = 0 /\ elapsed' = 0 /\ result' = "none" /\ job' = 0
  /\ UNCHANGED <<token, server, crashes, jobs>>

\* GET /health needs no token.  Without retries the loop makes no attempt.
Healthy ==
  /\ pc = "health"
  /\ server = "up"
  /\ IF attempt < MaxRetries THEN pc' = "send" /\ UNCHANGED result ELSE End("failed")
  /\ UNCHANGED <<attempt, wait, elapsed, firings, job, token, server, crashes, jobs>>

Unhealthy ==
  /\ pc = "health"
  /\ server = "down" \/ wait = 0
  /\ End("unhealthy")
  /\ UNCHANGED <<attempt, wait, elapsed, firings, job, token, server, crashes, jobs>>

Send ==
  /\ pc = "send"
  /\ pc' = "post" /\ wait' = Timeout
  /\ attempt' = attempt + 1
  /\ job' = 0
  /\ UNCHANGED <<elapsed, result, firings, token, server, crashes, jobs>>

\* Mistake: the loop compares before it counts.
FailAttemptLate ==
  /\ IF attempt <= MaxRetries
     THEN pc' = "sleep" /\ wait' = RetryDelay /\ UNCHANGED result
     ELSE End("failed") /\ UNCHANGED wait
  /\ UNCHANGED <<attempt, elapsed, firings, token, server, crashes, jobs>>

\* The else branch: neither 200 nor 401.
FailAttempt ==
  /\ IF attempt < MaxRetries
     THEN pc' = "sleep" /\ wait' = RetryDelay /\ UNCHANGED result
     ELSE End("failed") /\ UNCHANGED wait
  /\ UNCHANGED <<attempt, elapsed, firings, token, server, crashes, jobs>>

\* Mistake: what curl prints is not looked at when it gives up.
TimedOutUnnoticed ==
  /\ pc = "post"
  /\ wait = 0
  /\ End("ok")
  /\ UNCHANGED <<attempt, wait, elapsed, firings, job, token, server, crashes, jobs>>

\* curl gives up after --max-time and closes the connection.
TimedOut ==
  /\ pc = "post"
  /\ wait = 0
  /\ FailAttempt
  /\ job' = 0

\* The connection is refused, or reset by a crash.
Disconnected ==
  /\ pc = "post"
  /\ IF job = 0 THEN server = "down" ELSE jobs[job].lost
  /\ FailAttempt
  /\ job' = 0

Woken ==
  /\ pc = "sleep"
  /\ wait = 0
  /\ pc' = "send"
  /\ UNCHANGED <<attempt, wait, elapsed, result, firings, job, token, server, crashes, jobs>>

\* TimeoutStartSec: systemd ends the script and its curl.
Kill ==
  /\ pc # "off"
  /\ elapsed = StartLimit
  /\ End("killed")
  /\ job' = 0
  /\ UNCHANGED <<attempt, wait, elapsed, firings, token, server, crashes, jobs>>

Tick ==
  /\ pc # "off"
  /\ wait > 0
  /\ elapsed < StartLimit
  /\ wait' = wait - 1
  /\ elapsed' = elapsed + 1
  /\ UNCHANGED <<pc, attempt, result, firings, job, token, server, crashes, jobs>>

-----------------------------------------------------------------------------
(* The server.                                                             *)

Reached == pc = "post" /\ job = 0 /\ server = "up"

\* call: any token but the server's own is answered 401.
Unauthorized ==
  /\ Reached
  /\ ~token
  /\ End("unauthorized")
  /\ UNCHANGED <<attempt, wait, elapsed, firings, job, token, server, crashes, jobs>>

\* update_all lists the rows and spawns a task for each.
Accept ==
  /\ Reached
  /\ token
  /\ jobs' = Append(jobs, [firing |-> firings, left |-> Rows, lost |-> FALSE])
  /\ job' = Len(jobs) + 1
  /\ UNCHANGED <<pc, attempt, wait, elapsed, result, firings, token, server, crashes>>

\* The list query fails: 500.
Refuse ==
  /\ Reached
  /\ token
  /\ FailAttempt
  /\ UNCHANGED job

Running(j) == j \in DOMAIN jobs /\ jobs[j].left > 0 /\ ~jobs[j].lost

\* Mistake: the tasks are polled by the handler, not spawned.
TaskReturnsToCurl(j) ==
  /\ Running(j)
  /\ j = job
  /\ jobs' = [jobs EXCEPT ![j].left = @ - 1]
  /\ UNCHANGED <<script, token, server, crashes>>

\* A task updates its character or fails; nobody need wait for it any more.
TaskReturns(j) ==
  /\ Running(j)
  /\ jobs' = [jobs EXCEPT ![j].left = @ - 1]
  /\ UNCHANGED <<script, token, server, crashes>>

\* All tasks are joined, the prunes made: 200 and the summary.
Respond ==
  /\ pc = "post"
  /\ job # 0
  /\ jobs[job].left = 0
  /\ ~jobs[job].lost
  /\ End("ok")
  /\ UNCHANGED <<attempt, wait, elapsed, firings, job, token, server, crashes, jobs>>

\* The tasks that have not returned are lost, and so is the answer curl waits
\* for, even if they all have.
Crash ==
  /\ server = "up"
  /\ crashes < MaxCrashes
  /\ crashes' = crashes + 1
  /\ server' = "down"
  /\ jobs' = [j \in DOMAIN jobs |->
                [jobs[j] EXCEPT !.lost = @ \/ jobs[j].left > 0 \/ (pc = "post" /\ j = job)]]
  /\ UNCHANGED <<script, token>>

Restart ==
  /\ server = "down"
  /\ server' = "up"
  /\ UNCHANGED <<script, token, crashes, jobs>>

-----------------------------------------------------------------------------

Next ==
  \/ Fire \/ Healthy \/ Unhealthy \/ Send \/ TimedOut \/ Disconnected \/ Woken \/ Kill \/ Tick
  \/ Unauthorized \/ Accept \/ Refuse \/ Respond \/ Crash \/ Restart
  \/ \E j \in DOMAIN jobs : TaskReturns(j)

\* Each task ends (Tracker's UpdatesReturn).
Fairness == \A j \in 1 .. MaxFirings * MaxRetries : WF_vars(TaskReturns(j))

Spec == Init /\ [][Next]_vars /\ Fairness

-----------------------------------------------------------------------------
(* Properties.                                                             *)

\* "Update complete" is logged only for an update_all that this invocation
\* asked for, all of whose tasks have returned, and whose answer no crash cut
\* off: never for one that timed out, was lost, or is an earlier attempt's.
SuccessIsReal ==
  result = "ok" => /\ job # 0
                   /\ jobs[job].firing = firings
                   /\ jobs[job].left = 0
                   /\ ~jobs[job].lost

\* The script stops short of success for the reason it reports: a wrong token
\* has started no work, an unhealthy server has not been asked, a failure
\* follows as many attempts as configured, a kill a full StartLimit; and the
\* server got at most one update_all per attempt.
GivesUpForAReason ==
  LET accepted == {j \in DOMAIN jobs : jobs[j].firing = firings}
  IN /\ result = "unhealthy" => attempt = 0
     /\ result = "unauthorized" => ~token /\ accepted = {}
     /\ result = "failed" => attempt = MaxRetries
     /\ result = "killed" => elapsed = StartLimit
     /\ \A j, k \in accepted : j - k < attempt

\* An accepted update_all runs to its end although curl or systemd gave up
\* on it, unless the server crashes: what a retry repeats is not undone.
WorkOutlivesTheScript ==
  \A j \in 1 .. MaxFirings * MaxRetries :
    j \in DOMAIN jobs ~> j \in DOMAIN jobs /\ ~Running(j)
=============================================================================
