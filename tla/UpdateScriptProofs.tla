------------------------- MODULE UpdateScriptProofs -------------------------
(***************************************************************************)
(* Proofs about UpdateScript: what mplus-update.sh reports is true, for    *)
(* every timeout, number of retries, rows, firings and crashes.            *)
(***************************************************************************)
EXTENDS UpdateScript, TLAPS

-----------------------------------------------------------------------------
(* The inductive invariant.                                                *)

\* Where the script is says how many attempts it has made, and how it ended.
Progress ==
  /\ pc # "off" => result = "none"
  /\ pc = "health" => attempt = 0
  /\ pc \in {"send", "sleep"} => attempt < MaxRetries
  /\ pc = "post" => attempt > 0
  /\ result = "unhealthy" => attempt = 0
  /\ result = "failed" => attempt = MaxRetries
  /\ result = "killed" => elapsed = StartLimit
  /\ result = "unauthorized" => ~token
  /\ result = "ok" => job # 0 /\ jobs[job].left = 0 /\ ~jobs[job].lost

\* Only the server's own token gets past the middleware.
NoTokenNoJobs == ~token => jobs = <<>>

\* The request curl waits for was accepted in this firing, and none in a later.
JobsAreOfFirings ==
  /\ job # 0 => jobs[job].firing = firings
  /\ \A j \in DOMAIN jobs : jobs[j].firing <= firings

\* Those of this firing are the last ones accepted, one an attempt at most;
\* while curl waits for an answer to come, one attempt has none yet.
AnAttemptIsAJob ==
  \A j \in DOMAIN jobs :
    jobs[j].firing = firings =>
      /\ Len(jobs) < j + attempt
      /\ pc = "post" /\ job = 0 => Len(jobs) + 1 < j + attempt

ScriptInv == TypeOK /\ Progress /\ NoTokenNoJobs /\ JobsAreOfFirings /\ AnAttemptIsAJob

-----------------------------------------------------------------------------
(* How the sequence of accepted requests changes.                          *)

LEMMA AppendKeeps ==
  ASSUME NEW s \in Seq(Job), NEW e \in Job
  PROVE  /\ Append(s, e) \in Seq(Job)
         /\ Len(Append(s, e)) = Len(s) + 1
         /\ DOMAIN s = 1 .. Len(s) /\ DOMAIN Append(s, e) = 1 .. Len(s) + 1
         /\ \A j \in DOMAIN s : Append(s, e)[j] = s[j]
         /\ Append(s, e)[Len(s) + 1] = e
  OBVIOUS

\* A sequence of the same length, all of whose elements are jobs.
LEMMA SameLength ==
  ASSUME NEW s \in Seq(Job), NEW t, t = [j \in DOMAIN s |-> t[j]], \A j \in DOMAIN s : t[j] \in Job
  PROVE  t \in Seq(Job) /\ Len(t) = Len(s) /\ DOMAIN t = DOMAIN s
<1>1. Len(s) \in Nat /\ DOMAIN s = 1 .. Len(s)
  OBVIOUS
<1>2. t \in [1 .. Len(s) -> Job]
  BY <1>1
<1> QED
  BY <1>1, <1>2

\* What the two steps that change accepted requests, a task's return and a
\* crash, leave of them: a finished one is lost only while curl waits for it.
SameJobs ==
  /\ jobs' \in Seq(Job) /\ Len(jobs') = Len(jobs) /\ DOMAIN jobs' = DOMAIN jobs
  /\ \A j \in DOMAIN jobs : /\ jobs'[j].firing = jobs[j].firing
                            /\ jobs[j].left = 0 => jobs'[j].left = 0
                            /\ pc # "post" /\ jobs[j].left = 0 /\ ~jobs[j].lost => ~jobs'[j].lost

LEMMA TaskKeepsJobs ==
  ASSUME TypeOK, NEW j \in DOMAIN jobs, TaskReturns(j)
  PROVE  SameJobs
<1>1. jobs[j] \in Job /\ jobs[j].left > 0
  BY DEF TypeOK, TaskReturns, Running
<1>2. jobs' = [jobs EXCEPT ![j] = [jobs[j] EXCEPT !.left = @ - 1]]
  BY DEF TaskReturns
<1>3. [jobs[j] EXCEPT !.left = @ - 1] \in Job
  BY <1>1 DEF Job
<1>4. \A i \in DOMAIN jobs : jobs[i] \in Job
  BY DEF TypeOK
<1>5. jobs' = [i \in DOMAIN jobs |-> jobs'[i]] /\ \A i \in DOMAIN jobs : jobs'[i] \in Job
  BY <1>2, <1>3, <1>4
<1>6. jobs' \in Seq(Job) /\ Len(jobs') = Len(jobs) /\ DOMAIN jobs' = DOMAIN jobs
  BY <1>5, SameLength DEF TypeOK
<1> QED
  BY <1>1, <1>2, <1>6 DEF SameJobs, Job

LEMMA CrashKeepsJobs ==
  ASSUME TypeOK, Crash
  PROVE  SameJobs
<1>1. \A j \in DOMAIN jobs : jobs[j] \in Job
  BY DEF TypeOK
<1>2. jobs' = [j \in DOMAIN jobs |-> jobs'[j]]
      /\ \A j \in DOMAIN jobs :
           jobs'[j] = [jobs[j] EXCEPT !.lost = @ \/ jobs[j].left > 0 \/ (pc = "post" /\ j = job)]
  BY DEF Crash
<1>3. \A j \in DOMAIN jobs :
        /\ jobs'[j] \in Job
        /\ jobs'[j].firing = jobs[j].firing /\ jobs'[j].left = jobs[j].left
        /\ pc # "post" /\ jobs[j].left = 0 /\ ~jobs[j].lost => ~jobs'[j].lost
  <2> TAKE j \in DOMAIN jobs
  <2> DEFINE lost == jobs[j].lost \/ jobs[j].left > 0 \/ (pc = "post" /\ j = job)
  <2>1. jobs'[j] = [jobs[j] EXCEPT !.lost = lost]
    BY <1>2
  <2>2. jobs[j].left \in Nat /\ lost \in BOOLEAN
    BY <1>1 DEF Job
  <2>3. jobs[j].left = 0 => ~ jobs[j].left > 0
    BY <2>2
  <2>4. pc # "post" /\ jobs[j].left = 0 /\ ~jobs[j].lost => ~lost
    BY <2>3
  <2> HIDE DEF lost
  <2>5. jobs[j] \in Job /\ [jobs[j] EXCEPT !.lost = lost].lost = lost
    BY <1>1 DEF Job
  <2>6. jobs'[j].lost = lost
    BY <2>1, <2>5
  <2>7. jobs'[j] \in Job /\ jobs'[j].firing = jobs[j].firing /\ jobs'[j].left = jobs[j].left
    BY <2>1, <2>2, <2>5 DEF Job
  <2> QED
    BY <2>4, <2>6, <2>7
<1>4. jobs' \in Seq(Job) /\ Len(jobs') = Len(jobs) /\ DOMAIN jobs' = DOMAIN jobs
  BY <1>2, <1>3, SameLength DEF TypeOK
<1> QED
  BY <1>3, <1>4 DEF SameJobs

-----------------------------------------------------------------------------
(* The invariant is inductive.                                             *)

LEMMA ScriptInvInit == Init => ScriptInv
  BY ScriptAssumption
  DEF Init, ScriptInv, TypeOK, Progress, NoTokenNoJobs, JobsAreOfFirings, AnAttemptIsAJob

USE ScriptAssumption

\* Steps of the script that leave the accepted requests alone.
ScriptStep ==
  \/ Fire \/ Healthy \/ Unhealthy \/ Send \/ TimedOut \/ Disconnected \/ Woken \/ Kill \/ Tick
  \/ Unauthorized \/ Refuse \/ Respond

LEMMA ScriptStepKeeps ==
  ASSUME ScriptInv, ScriptStep
  PROVE  ScriptInv'
<1> USE DEF ScriptInv, TypeOK, Progress, NoTokenNoJobs, JobsAreOfFirings, AnAttemptIsAJob
<1>0. Len(jobs) \in Nat /\ DOMAIN jobs = 1 .. Len(jobs) /\ \A j \in DOMAIN jobs : jobs[j] \in Job
  OBVIOUS
<1>1. CASE Fire
  BY <1>0, <1>1 DEF Fire, Job
<1>2. CASE Healthy
  BY <1>0, <1>2 DEF Healthy, End
<1>3. CASE Unhealthy
  BY <1>0, <1>3 DEF Unhealthy, End
<1>4. CASE Send
  BY <1>0, <1>4 DEF Send
<1>5. CASE TimedOut
  BY <1>0, <1>5 DEF TimedOut, FailAttempt, End
<1>6. CASE Disconnected
  BY <1>0, <1>6 DEF Disconnected, FailAttempt, End
<1>7. CASE Woken
  BY <1>0, <1>7 DEF Woken
<1>8. CASE Kill
  BY <1>0, <1>8 DEF Kill, End
<1>9. CASE Tick
  BY <1>0, <1>9 DEF Tick
<1>10. CASE Unauthorized
  BY <1>0, <1>10 DEF Unauthorized, Reached, End
<1>11. CASE Refuse
  BY <1>0, <1>11 DEF Refuse, Reached, FailAttempt, End
<1>12. CASE Respond
  BY <1>0, <1>12 DEF Respond, End
<1> QED
  BY <1>1, <1>2, <1>3, <1>4, <1>5, <1>6, <1>7, <1>8, <1>9, <1>10, <1>11, <1>12 DEF ScriptStep

LEMMA AcceptKeeps ==
  ASSUME ScriptInv, Accept
  PROVE  ScriptInv'
<1> DEFINE e == [firing |-> firings, left |-> Rows, lost |-> FALSE]
<1>1. e \in Job /\ e.firing = firings
  BY DEF ScriptInv, TypeOK, Job
<1>2. /\ jobs' = Append(jobs, e) /\ job' = Len(jobs) + 1
      /\ pc = "post" /\ job = 0 /\ token
      /\ UNCHANGED <<pc, attempt, wait, elapsed, result, firings, token, server, crashes>>
  BY DEF Accept, Reached
<1>3. jobs \in Seq(Job) /\ Len(jobs) \in Nat
  BY DEF ScriptInv, TypeOK
<1> HIDE DEF e
<1>4. /\ jobs' \in Seq(Job) /\ Len(jobs') = Len(jobs) + 1
      /\ DOMAIN jobs = 1 .. Len(jobs) /\ DOMAIN jobs' = 1 .. Len(jobs) + 1
      /\ \A j \in DOMAIN jobs : jobs'[j] = jobs[j]
      /\ jobs'[Len(jobs) + 1] = e
  BY <1>1, <1>2, <1>3, AppendKeeps
<1>5. TypeOK'
  BY <1>2, <1>3, <1>4 DEF ScriptInv, TypeOK
<1>6. Progress' /\ NoTokenNoJobs'
  BY <1>2 DEF ScriptInv, Progress, NoTokenNoJobs
<1>7. JobsAreOfFirings'
  BY <1>1, <1>2, <1>3, <1>4 DEF ScriptInv, TypeOK, JobsAreOfFirings
<1>8. AnAttemptIsAJob'
  BY <1>2, <1>3, <1>4 DEF ScriptInv, TypeOK, Progress, AnAttemptIsAJob
<1> QED
  BY <1>5, <1>6, <1>7, <1>8 DEF ScriptInv

\* A step of the server that the script does not see at once.
LEMMA ServerKeeps ==
  ASSUME ScriptInv, SameJobs, UNCHANGED <<script, token>>, server' \in {"up", "down"}, crashes' \in Nat
  PROVE  ScriptInv'
<1>1. UNCHANGED <<pc, attempt, wait, elapsed, result, firings, job, token>>
  BY DEF script
<1>2. jobs \in Seq(Job) /\ Len(jobs) \in Nat /\ DOMAIN jobs = 1 .. Len(jobs) /\ job \in 0 .. Len(jobs)
  BY DEF ScriptInv, TypeOK
<1>3. TypeOK'
  BY <1>1, <1>2 DEF ScriptInv, TypeOK, SameJobs
<1>4. Progress'
  BY <1>1, <1>2 DEF ScriptInv, Progress, SameJobs
<1>5. NoTokenNoJobs'
  BY <1>1, <1>2 DEF ScriptInv, NoTokenNoJobs, SameJobs
<1>6. JobsAreOfFirings'
  BY <1>1, <1>2 DEF ScriptInv, JobsAreOfFirings, SameJobs
<1>7. AnAttemptIsAJob'
  BY <1>1, <1>2 DEF ScriptInv, AnAttemptIsAJob, SameJobs
<1> QED
  BY <1>3, <1>4, <1>5, <1>6, <1>7 DEF ScriptInv

LEMMA ScriptInvNext == ScriptInv /\ [Next]_vars => ScriptInv'
<1> SUFFICES ASSUME ScriptInv, [Next]_vars
             PROVE  ScriptInv'
  OBVIOUS
<1>0. TypeOK
  BY DEF ScriptInv
<1>1. CASE ScriptStep
  BY <1>1, ScriptStepKeeps
<1>2. CASE Accept
  BY <1>2, AcceptKeeps
<1>3. CASE Crash
  <2>1. SameJobs
    BY <1>0, <1>3, CrashKeepsJobs
  <2> QED
    BY <1>0, <1>3, <2>1, ServerKeeps DEF Crash, TypeOK
<1>4. CASE Restart \/ UNCHANGED vars
  <2>1. SameJobs
    BY <1>0, <1>4 DEF SameJobs, Restart, vars, TypeOK
  <2> QED
    BY <1>0, <1>4, <2>1, ServerKeeps DEF Restart, vars, TypeOK
<1>5. CASE \E j \in DOMAIN jobs : TaskReturns(j)
  <2>1. PICK j \in DOMAIN jobs : TaskReturns(j)
    BY <1>5
  <2>2. SameJobs
    BY <1>0, <2>1, TaskKeepsJobs
  <2> QED
    BY <1>0, <2>1, <2>2, ServerKeeps DEF TaskReturns, TypeOK
<1> QED
  BY <1>1, <1>2, <1>3, <1>4, <1>5 DEF Next, ScriptStep

\* The invariant holds in every state.
LEMMA ScriptInvariance == Spec => []ScriptInv
<1>1. Init /\ [][Next]_vars => []ScriptInv
  BY ScriptInvInit, ScriptInvNext, PTL
<1> QED
  BY <1>1, PTL DEF Spec

-----------------------------------------------------------------------------
(* The theorems.                                                           *)

\* The script and the server it calls stay within their types: in particular
\* the attempts within MPLUS_MAX_RETRIES and the time within TimeoutStartSec.
THEOREM ScriptTypes == Spec => []TypeOK
<1>1. ScriptInv => TypeOK
  BY DEF ScriptInv
<1> QED
  BY <1>1, ScriptInvariance, PTL

\* "Update complete" is the truth about a request of this very invocation,
\* however many attempts, timeouts and crashes came before it.
THEOREM SuccessesAreReal == Spec => []SuccessIsReal
<1>1. ScriptInv => SuccessIsReal
  BY DEF ScriptInv, Progress, JobsAreOfFirings, SuccessIsReal
<1> QED
  BY <1>1, ScriptInvariance, PTL

\* The reasons the script gives for stopping are the actual ones, and the
\* server never has more requests of an invocation than it made attempts.
THEOREM ReasonsAreReal == Spec => []GivesUpForAReason
<1>1. ScriptInv => GivesUpForAReason
  <2> SUFFICES ASSUME ScriptInv
               PROVE  GivesUpForAReason
    OBVIOUS
  <2> DEFINE accepted == {j \in DOMAIN jobs : jobs[j].firing = firings}
  <2>1. \A j, k \in accepted : j - k < attempt
    BY DEF ScriptInv, TypeOK, AnAttemptIsAJob
  <2>2. result = "unauthorized" => ~token /\ accepted = {}
    BY DEF ScriptInv, Progress, NoTokenNoJobs
  <2> QED
    BY <2>1, <2>2 DEF ScriptInv, Progress, GivesUpForAReason
<1> QED
  BY <1>1, ScriptInvariance, PTL
=============================================================================
