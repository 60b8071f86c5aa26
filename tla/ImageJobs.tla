------------------------------ MODULE ImageJobs ------------------------------
(***************************************************************************)
(* services/image_jobs.py: background image renders.  A submit inserts a   *)
(* row in image_jobs and spawns a runner, an asyncio task of the same      *)
(* process; the runner renders, bills and writes the outcome; a heartbeat  *)
(* task touches the row meanwhile; a poll that finds the row stale fails   *)
(* it with worker_lost.  There is no sweeper and no queue: a process that  *)
(* stops takes its submits, runners and unfinished billing tasks with it.  *)
(*                                                                         *)
(* The database executes each statement atomically, and the ORM updates a  *)
(* row by primary key, whatever it holds by then.  A submit creates at     *)
(* most one job, under a fresh id, so the job is named by its submit.      *)
(* Time is each row's age: the ticks since its last sign of life,          *)
(* saturating at StaleAfter.                                               *)
(***************************************************************************)
EXTENDS Naturals, FiniteSets

CONSTANTS
    Submits,     \* POST /v1/images/generations with wait: false
    Polls,       \* pollers: GET /v1/images/jobs/{id}, again and again
    Keys,        \* idempotency keys of one user
    Bodies,      \* request bodies, as told apart by request_hash
    NoKey,       \* a request without idempotency_key
    NoJob,       \* a poller between two polls
    StaleAfter,  \* STALE_AFTER, in ticks
    Timely       \* whether a live worker's writes reach the row in time

ASSUME NamesAssumption == NoKey \notin Keys /\ NoJob \notin Submits
ASSUME TimeAssumption == StaleAfter \in Nat \ {0} /\ Timely \in BOOLEAN

VARIABLES
    asked,    \* the key and the body each submit carries
    submit,   \* where each submit stands, or what it answered
    answer,   \* the job a submit answered with
    status,   \* ImageJob.status, or "none" before the row exists
    error,    \* ImageJob.error, its code
    result,   \* ImageJob.result is there
    age,      \* time since heartbeat_at, started_at or created_at
    runner,   \* where each job's _run_job stands
    billing,  \* the billing task generate() schedules for the job
    poll      \* the stale job a poll has read and is about to fail

rows == <<status, error, result, age>>
jobsVars == <<asked, submit, answer, rows, runner, billing, poll>>

Terminal == {"succeeded", "failed"}
Answered == {"created", "replayed", "conflict", "refused", "error"}

JobsTypeOK ==
    /\ asked \in [Submits -> [key : Keys \union {NoKey}, body : Bodies]]
    /\ submit \in [Submits -> Answered \union
                      {"new", "checked", "committed", "dead"}]
    /\ answer \in [Submits -> Submits \union {NoJob}]
    /\ status \in [Submits -> Terminal \union {"none", "queued", "running"}]
    /\ error \in [Submits -> {"none", "worker_lost", "render_error"}]
    /\ result \in [Submits -> BOOLEAN]
    /\ age \in [Submits -> 0..StaleAfter]
    /\ runner \in [Submits ->
                      {"none", "spawned", "rendering", "rendered", "failing",
                       "crashing", "done", "dead"}]
    /\ billing \in [Submits -> {"none", "scheduled", "billed", "lost"}]
    /\ poll \in [Polls -> Submits \union {NoJob}]
    \* A runner finds its row: scalar_one() in _run_job never raises.
    /\ \A j \in Submits : runner[j] # "none" => status[j] # "none"

JobsInit ==
    /\ asked \in [Submits -> [key : Keys \union {NoKey}, body : Bodies]]
    /\ submit = [s \in Submits |-> "new"]
    /\ answer = [s \in Submits |-> NoJob]
    /\ status = [s \in Submits |-> "none"]
    /\ error = [s \in Submits |-> "none"]
    /\ result = [s \in Submits |-> FALSE]
    /\ age = [s \in Submits |-> 0]
    /\ runner = [s \in Submits |-> "none"]
    /\ billing = [s \in Submits |-> "none"]
    /\ poll = [p \in Polls |-> NoJob]

-----------------------------------------------------------------------------
(* submit_job                                                               *)

\* The jobs a submit's key names: none without a key, else the unique index
\* uq_image_jobs_user_idem leaves at most one.
SameKeyJobs(s) ==
    {j \in Submits : /\ status[j] # "none"
                     /\ asked[s].key # NoKey
                     /\ asked[j].key = asked[s].key}

\* The lookup finds the key used: the old job, or 409 for another body.
SubmitFinds(s) ==
    /\ submit[s] = "new"
    /\ \E j \in SameKeyJobs(s) :
          IF asked[j].body = asked[s].body
          THEN /\ submit' = [submit EXCEPT ![s] = "replayed"]
               /\ answer' = [answer EXCEPT ![s] = j]
          ELSE /\ submit' = [submit EXCEPT ![s] = "conflict"]
               /\ UNCHANGED answer
    /\ UNCHANGED <<asked, rows, runner, billing, poll>>

\* The lookup finds nothing; the wallet gate then lets the submit through or
\* refuses it.
SubmitChecks(s) ==
    /\ submit[s] = "new"
    /\ SameKeyJobs(s) = {}
    /\ \E verdict \in {"checked", "refused"} :
          submit' = [submit EXCEPT ![s] = verdict]
    /\ UNCHANGED <<asked, answer, rows, runner, billing, poll>>

\* Mutant of KeyFree: the unique index is missing.
KeyFreeWithoutIndex(s) == TRUE

\* What the unique index asks of an insert.
KeyFree(s) == SameKeyJobs(s) = {}

\* Insert and commit.  A submit that raced it to the same key violates the
\* unique index; nothing catches the IntegrityError.
SubmitInserts(s) ==
    /\ submit[s] = "checked"
    /\ IF KeyFree(s)
       THEN /\ status' = [status EXCEPT ![s] = "queued"]
            /\ age' = [age EXCEPT ![s] = 0]
            /\ submit' = [submit EXCEPT ![s] = "committed"]
       ELSE /\ submit' = [submit EXCEPT ![s] = "error"]
            /\ UNCHANGED <<status, age>>
    /\ UNCHANGED <<asked, answer, error, result, runner, billing, poll>>

\* _spawn_runner, then the 202.
SubmitSpawns(s) ==
    /\ submit[s] = "committed"
    /\ runner' = [runner EXCEPT ![s] = "spawned"]
    /\ submit' = [submit EXCEPT ![s] = "created"]
    /\ answer' = [answer EXCEPT ![s] = s]
    /\ UNCHANGED <<asked, rows, billing, poll>>

Submit(s) ==
    SubmitFinds(s) \/ SubmitChecks(s) \/ SubmitInserts(s) \/ SubmitSpawns(s)

-----------------------------------------------------------------------------
(* _run_job and _heartbeat_loop                                             *)

\* status = running, whatever it was; error and result keep what they held.
RunnerStarts(j) ==
    /\ runner[j] = "spawned"
    /\ runner' = [runner EXCEPT ![j] = "rendering"]
    /\ status' = [status EXCEPT ![j] = "running"]
    /\ age' = [age EXCEPT ![j] = 0]
    /\ UNCHANGED <<asked, submit, answer, error, result, billing, poll>>

\* generate(): the provider answered; billing is scheduled before the upload.
RunnerRenders(j) ==
    /\ runner[j] = "rendering"
    /\ runner' = [runner EXCEPT ![j] = "rendered"]
    /\ billing' = [billing EXCEPT ![j] = "scheduled"]
    /\ UNCHANGED <<asked, submit, answer, rows, poll>>

\* generate() raises: before the provider's answer, or after it was billed.
RenderFails(j) ==
    /\ runner[j] \in {"rendering", "rendered"}
    /\ runner' = [runner EXCEPT ![j] = "failing"]
    /\ UNCHANGED <<asked, submit, answer, rows, billing, poll>>

\* The success commit.
RunnerSucceeds(j) ==
    /\ runner[j] = "rendered"
    /\ runner' = [runner EXCEPT ![j] = "done"]
    /\ status' = [status EXCEPT ![j] = "succeeded"]
    /\ result' = [result EXCEPT ![j] = TRUE]
    /\ UNCHANGED <<asked, submit, answer, error, age, billing, poll>>

\* The failure commit.
RunnerFails(j) ==
    /\ runner[j] = "failing"
    /\ runner' = [runner EXCEPT ![j] = "done"]
    /\ status' = [status EXCEPT ![j] = "failed"]
    /\ error' = [error EXCEPT ![j] = "render_error"]
    /\ UNCHANGED <<asked, submit, answer, result, age, billing, poll>>

\* A database call of the runner raises, or the stored request no longer
\* validates: nothing is written.
RunnerBreaks(j) ==
    /\ runner[j] \in {"spawned", "rendering", "rendered", "failing"}
    /\ runner' = [runner EXCEPT ![j] = "crashing"]
    /\ UNCHANGED <<asked, submit, answer, rows, billing, poll>>

\* The outer handler fails the job, but only while queued or running; its
\* write may be lost too, and the staleness rule is left to act.
RunnerCleansUp(j) ==
    /\ runner[j] = "crashing"
    /\ runner' = [runner EXCEPT ![j] = "done"]
    /\ \/ UNCHANGED rows
       \/ /\ status[j] \in {"queued", "running"}
          /\ status' = [status EXCEPT ![j] = "failed"]
          /\ error' = [error EXCEPT ![j] = "render_error"]
          /\ UNCHANGED <<result, age>>
    /\ UNCHANGED <<asked, submit, answer, billing, poll>>

\* _heartbeat_loop runs until _run_job's finally.
AtWork == {"spawned", "rendering", "rendered", "failing", "crashing"}

Heartbeat(j) ==
    /\ runner[j] \in AtWork
    /\ age[j] # 0
    /\ age' = [age EXCEPT ![j] = 0]
    /\ UNCHANGED <<asked, submit, answer, status, error, result, runner,
                   billing, poll>>

\* The scheduled _post_request_background commits usage and debit.
BillingCommits(j) ==
    /\ billing[j] = "scheduled"
    /\ billing' = [billing EXCEPT ![j] = "billed"]
    /\ UNCHANGED <<asked, submit, answer, rows, runner, poll>>

\* The process of a submit and its runner stops, a deploy or a crash.
WorkerStops(j) ==
    /\ \/ submit[j] \in {"checked", "committed"}
       \/ runner[j] \in AtWork
       \/ billing[j] = "scheduled"
    /\ submit' = [submit EXCEPT ![j] =
                     IF @ \in {"checked", "committed"} THEN "dead" ELSE @]
    /\ runner' = [runner EXCEPT ![j] = IF @ \in AtWork THEN "dead" ELSE @]
    /\ billing' = [billing EXCEPT ![j] = IF @ = "scheduled" THEN "lost" ELSE @]
    /\ UNCHANGED <<asked, answer, rows, poll>>

Runner(j) ==
    \/ RunnerStarts(j) \/ RunnerRenders(j) \/ RenderFails(j)
    \/ RunnerSucceeds(j) \/ RunnerFails(j)
    \/ RunnerBreaks(j) \/ RunnerCleansUp(j)

-----------------------------------------------------------------------------
(* get_job                                                                  *)

\* Mutant of IsStale: queued jobs are exempt.
IsStaleOnceRunning(j) == status[j] = "running" /\ age[j] = StaleAfter

\* Mutant of IsStale: any unfinished job counts as lost.
IsStaleAtOnce(j) == status[j] \in {"queued", "running"}

IsStale(j) == status[j] \in {"queued", "running"} /\ age[j] = StaleAfter

\* A poll that finds the row fresh or terminal reads it and changes nothing.
PollReads(p) ==
    /\ poll[p] = NoJob
    /\ \E j \in Submits :
          /\ IsStale(j)
          /\ poll' = [poll EXCEPT ![p] = j]
    /\ UNCHANGED <<asked, submit, answer, rows, runner, billing>>

\* The ORM update, by id.
PollFails(p) ==
    /\ poll[p] # NoJob
    /\ poll' = [poll EXCEPT ![p] = NoJob]
    /\ status' = [status EXCEPT ![poll[p]] = "failed"]
    /\ error' = [error EXCEPT ![poll[p]] = "worker_lost"]
    /\ UNCHANGED <<asked, submit, answer, result, age, runner, billing>>

-----------------------------------------------------------------------------

\* A worker that still means to write the row.
Alive(j) == runner[j] \in AtWork \/ submit[j] = "committed"

\* Rows age together.  If Timely, the clock waits for a live worker's
\* heartbeat: STALE_AFTER leaves room for four of them.
RowsAge ==
    /\ \E j \in Submits : status[j] \in {"queued", "running"} /\ age[j] < StaleAfter
    /\ Timely => \A j \in Submits : Alive(j) => age[j] + 1 < StaleAfter
    /\ age' = [j \in Submits |-> IF status[j] # "none" /\ age[j] < StaleAfter
                                 THEN age[j] + 1 ELSE age[j]]
    /\ UNCHANGED <<asked, submit, answer, status, error, result, runner,
                   billing, poll>>

JobsNext ==
    \/ \E s \in Submits : Submit(s)
    \/ \E j \in Submits : \/ Runner(j) \/ Heartbeat(j)
                          \/ BillingCommits(j) \/ WorkerStops(j)
    \/ \E p \in Polls : PollReads(p) \/ PollFails(p)
    \/ RowsAge

JobsSpec == JobsInit /\ [][JobsNext]_jobsVars

\* Tasks run, the provider answers or times out, time passes and the client
\* goes on polling.  Nothing obliges a process to stop or a write to fail.
FairJobsSpec ==
    /\ JobsSpec
    /\ \A s \in Submits : WF_jobsVars(Submit(s))
    /\ \A j \in Submits : WF_jobsVars(Runner(j)) /\ WF_jobsVars(Heartbeat(j))
    /\ \A p \in Polls : WF_jobsVars(PollReads(p)) /\ WF_jobsVars(PollFails(p))
    /\ WF_jobsVars(RowsAge)

-----------------------------------------------------------------------------
(* What the jobs guarantee.                                                 *)

\* Two submits with one idempotency key that both got a job got the same job,
\* for the same body, however their lookups and inserts interleave ("same
\* (user, idempotency_key) returns the existing job ... never silently the
\* wrong image", image_jobs.py:9-10).
Idempotent ==
    \A s, t \in Submits :
        /\ {submit[s], submit[t]} \subseteq {"created", "replayed"}
        /\ asked[s].key = asked[t].key
        /\ asked[s].key # NoKey
        => answer[s] = answer[t] /\ asked[s].body = asked[t].body

\* Under a timely worker, what a client was told at the end of a job stays
\* true: no runner and no slow poll rewrites a finished row.
TerminalStable ==
    [][\A j \in Submits :
          status[j] \in Terminal => status'[j] = status[j] /\ error'[j] = error[j]]_jobsVars

\* "No zombie jobs, no background sweeper" (image_jobs.py:13): whatever
\* crashes and whenever, a job somebody polls comes to an end.
NoZombies ==
    \A j \in Submits : status[j] \in {"queued", "running"} ~> status[j] \in Terminal

=============================================================================
