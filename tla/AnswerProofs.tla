---------------------------- MODULE AnswerProofs ----------------------------
(***************************************************************************)
(* What a client is answered: image jobs, for any number of submits, any    *)
(* keys, any bodies and any timing of the workers; streamed answers, on     *)
(* every wire and for every length of the answer; and the media requests,   *)
(* for any number of consumers of the queue of records and for pictures of  *)
(* any size.                                                                *)
(***************************************************************************)
EXTENDS ImageJobs, Adapters, FiniteSetTheorems, SequenceTheorems, TLAPS

\* Idempotent speaks of answers; what makes it inductive is where they come
\* from: the rows with one key are one row (the unique index), a created
\* submit answers with its own row, and a replay with a row of its key and body.
OneRowPerKey ==
    \A j, k \in Submits :
        /\ status[j] # "none" /\ status[k] # "none"
        /\ asked[j].key = asked[k].key
        /\ asked[j].key # NoKey
        => j = k

CreatedAnswersItself ==
    \A s \in Submits :
        submit[s] = "created" => answer[s] = s /\ status[s] # "none"

CommittedHasRow ==
    \A s \in Submits : submit[s] = "committed" => status[s] # "none"

ReplayAnswersSameKey ==
    \A s \in Submits :
        submit[s] = "replayed" =>
            /\ answer[s] \in SameKeyJobs(s)
            /\ asked[answer[s]].body = asked[s].body

IdempotenceInv ==
    /\ status \in [Submits -> Terminal \union {"none", "queued", "running"}]
    /\ submit \in [Submits -> Answered \union
                      {"new", "checked", "committed", "dead"}]
    /\ answer \in [Submits -> Submits \union {NoJob}]
    /\ poll \in [Polls -> Submits \union {NoJob}]
    /\ \A p \in Polls : poll[p] # NoJob => status[poll[p]] # "none"
    /\ \A j \in Submits : runner[j] # "none" => status[j] # "none"
    /\ runner \in [Submits ->
                      {"none", "spawned", "rendering", "rendered", "failing",
                       "crashing", "done", "dead"}]
    /\ OneRowPerKey
    /\ CommittedHasRow
    /\ CreatedAnswersItself
    /\ ReplayAnswersSameKey

\* Nothing has been submitted at the start.
LEMMA IdempotenceInvInit == JobsInit => IdempotenceInv
BY DEF JobsInit, IdempotenceInv, OneRowPerKey, CommittedHasRow,
       CreatedAnswersItself, ReplayAnswersSameKey, Answered, Terminal

\* The steps of a job's life after its insert touch only the rows' values:
\* no row appears or disappears, and no submit or answer changes.
LEMMA RowsKeepPlace ==
    ASSUME IdempotenceInv,
           UNCHANGED <<asked, answer>>,
           status' \in [Submits -> Terminal \union {"none", "queued", "running"}],
           \A j \in Submits : status'[j] = "none" <=> status[j] = "none",
           submit' \in [Submits -> Answered \union
                           {"new", "checked", "committed", "dead"}],
           \A s \in Submits : submit'[s] = submit[s] \/ submit'[s] = "dead"
    PROVE  /\ OneRowPerKey'
           /\ CommittedHasRow'
           /\ CreatedAnswersItself'
           /\ ReplayAnswersSameKey'
BY DEF IdempotenceInv, OneRowPerKey, CommittedHasRow, CreatedAnswersItself,
       ReplayAnswersSameKey, SameKeyJobs

\* Every step of a submit, a runner, a poll or a process keeps the invariant.
LEMMA IdempotenceInvStep == IdempotenceInv /\ [JobsNext]_jobsVars => IdempotenceInv'
<1> SUFFICES ASSUME IdempotenceInv, [JobsNext]_jobsVars PROVE IdempotenceInv'
  OBVIOUS
<1>1. ASSUME NEW s \in Submits, SubmitFinds(s) PROVE IdempotenceInv'
  BY <1>1, NamesAssumption
     DEF SubmitFinds, rows, IdempotenceInv, OneRowPerKey, CommittedHasRow,
         CreatedAnswersItself, ReplayAnswersSameKey, SameKeyJobs, Answered
<1>2. ASSUME NEW s \in Submits, SubmitChecks(s) PROVE IdempotenceInv'
  BY <1>2 DEF SubmitChecks, rows, IdempotenceInv, OneRowPerKey,
              CommittedHasRow, CreatedAnswersItself, ReplayAnswersSameKey,
              SameKeyJobs, Answered
<1>3. ASSUME NEW s \in Submits, SubmitInserts(s) PROVE IdempotenceInv'
  <2>1. CASE KeyFree(s)
    <3>1. status' = [status EXCEPT ![s] = "queued"]
          /\ submit' = [submit EXCEPT ![s] = "committed"]
          /\ UNCHANGED <<asked, answer, runner, poll>>
      BY <1>3, <2>1 DEF SubmitInserts
    <3>2. OneRowPerKey'
      BY <3>1, <2>1 DEF IdempotenceInv, OneRowPerKey, KeyFree, SameKeyJobs
    <3>3. CommittedHasRow' /\ CreatedAnswersItself'
      BY <3>1 DEF IdempotenceInv, CommittedHasRow, CreatedAnswersItself
    <3>4. ReplayAnswersSameKey'
      BY <3>1 DEF IdempotenceInv, ReplayAnswersSameKey, SameKeyJobs
    <3>5. QED
      BY <3>1, <3>2, <3>3, <3>4 DEF IdempotenceInv, Terminal
  <2>2. CASE ~KeyFree(s)
    BY <1>3, <2>2 DEF SubmitInserts, IdempotenceInv, OneRowPerKey,
                      CommittedHasRow, CreatedAnswersItself,
                      ReplayAnswersSameKey, SameKeyJobs, Answered
  <2>3. QED
    BY <2>1, <2>2
<1>4. ASSUME NEW s \in Submits, SubmitSpawns(s) PROVE IdempotenceInv'
  BY <1>4 DEF SubmitSpawns, rows, IdempotenceInv, OneRowPerKey,
              CommittedHasRow, CreatedAnswersItself, ReplayAnswersSameKey,
              SameKeyJobs, Answered
<1>5. ASSUME NEW j \in Submits, Runner(j) PROVE IdempotenceInv'
  <2>1. /\ UNCHANGED <<asked, answer, submit, poll>>
        /\ status' \in [Submits -> Terminal \union {"none", "queued", "running"}]
        /\ runner' \in [Submits ->
                          {"none", "spawned", "rendering", "rendered",
                           "failing", "crashing", "done", "dead"}]
        /\ runner[j] # "none"
        /\ \A k \in Submits : k # j => status'[k] = status[k] /\ runner'[k] = runner[k]
        /\ status'[j] # "none"
    BY <1>5 DEF Runner, RunnerStarts, RunnerRenders, RenderFails,
                RunnerSucceeds, RunnerFails, RunnerBreaks, RunnerCleansUp,
                IdempotenceInv, rows, Terminal
  <2>2. \A k \in Submits : status'[k] = "none" <=> status[k] = "none"
    BY <2>1 DEF IdempotenceInv
  <2>3. /\ OneRowPerKey' /\ CommittedHasRow'
        /\ CreatedAnswersItself' /\ ReplayAnswersSameKey'
    BY <2>1, <2>2, RowsKeepPlace DEF IdempotenceInv
  <2>4. QED
    BY <2>1, <2>2, <2>3 DEF IdempotenceInv
<1>6. ASSUME NEW j \in Submits, Heartbeat(j) \/ BillingCommits(j)
      PROVE  IdempotenceInv'
  BY <1>6, RowsKeepPlace DEF Heartbeat, BillingCommits, rows, IdempotenceInv
<1>7. ASSUME NEW j \in Submits, WorkerStops(j) PROVE IdempotenceInv'
  <2>1. /\ UNCHANGED <<asked, answer, status, poll>>
        /\ submit' \in [Submits -> Answered \union
                           {"new", "checked", "committed", "dead"}]
        /\ \A s \in Submits : submit'[s] = submit[s] \/ submit'[s] = "dead"
        /\ runner' \in [Submits ->
                          {"none", "spawned", "rendering", "rendered",
                           "failing", "crashing", "done", "dead"}]
        /\ \A k \in Submits : runner'[k] = runner[k] \/ runner[k] \in AtWork
    BY <1>7 DEF WorkerStops, IdempotenceInv, rows
  <2>2. /\ OneRowPerKey' /\ CommittedHasRow'
        /\ CreatedAnswersItself' /\ ReplayAnswersSameKey'
    BY <2>1, RowsKeepPlace DEF IdempotenceInv
  <2>3. QED
    BY <2>1, <2>2 DEF IdempotenceInv, AtWork
<1>8. ASSUME NEW p \in Polls, PollReads(p) PROVE IdempotenceInv'
  <2>1. PICK j \in Submits : IsStale(j) /\ poll' = [poll EXCEPT ![p] = j]
    BY <1>8 DEF PollReads
  <2>2. UNCHANGED <<asked, submit, answer, status, runner>>
    BY <1>8 DEF PollReads, rows
  <2>3. /\ OneRowPerKey' /\ CommittedHasRow'
        /\ CreatedAnswersItself' /\ ReplayAnswersSameKey'
    BY <2>2, RowsKeepPlace DEF IdempotenceInv
  <2>4. QED
    BY <2>1, <2>2, <2>3 DEF IdempotenceInv, IsStale
<1>9. ASSUME NEW p \in Polls, PollFails(p) PROVE IdempotenceInv'
  <2>1. /\ UNCHANGED <<asked, submit, answer, runner>>
        /\ poll[p] \in Submits /\ status[poll[p]] # "none"
        /\ status' = [status EXCEPT ![poll[p]] = "failed"]
        /\ poll' = [poll EXCEPT ![p] = NoJob]
    BY <1>9 DEF PollFails, IdempotenceInv
  <2>2. /\ status' \in [Submits -> Terminal \union {"none", "queued", "running"}]
        /\ \A k \in Submits : status'[k] = "none" <=> status[k] = "none"
    BY <2>1 DEF IdempotenceInv, Terminal
  <2>3. /\ OneRowPerKey' /\ CommittedHasRow'
        /\ CreatedAnswersItself' /\ ReplayAnswersSameKey'
    BY <2>1, <2>2, RowsKeepPlace DEF IdempotenceInv
  <2>4. QED
    BY <2>1, <2>2, <2>3 DEF IdempotenceInv
<1>10. CASE RowsAge
  BY <1>10, RowsKeepPlace DEF RowsAge, IdempotenceInv
<1>11. CASE UNCHANGED jobsVars
  BY <1>11, RowsKeepPlace DEF jobsVars, rows, IdempotenceInv
<1>12. QED
  BY <1>1, <1>2, <1>3, <1>4, <1>5, <1>6, <1>7, <1>8, <1>9, <1>10, <1>11
     DEF JobsNext, Submit

\* Two submits with the same idempotency key that both get a job get the same
\* job, for the same body: the lookup may be stale, the unique index is not.
THEOREM SubmitsIdempotent == JobsSpec => []Idempotent
<1>1. IdempotenceInv => Idempotent
  <2> SUFFICES ASSUME IdempotenceInv,
                      NEW s \in Submits, NEW t \in Submits,
                      {submit[s], submit[t]} \subseteq {"created", "replayed"},
                      asked[s].key = asked[t].key,
                      asked[s].key # NoKey
               PROVE  answer[s] = answer[t] /\ asked[s].body = asked[t].body
    BY DEF Idempotent
  <2>1. ASSUME NEW u \in {s, t}
        PROVE  /\ answer[u] \in Submits
               /\ status[answer[u]] # "none"
               /\ asked[answer[u]].key = asked[s].key
               /\ asked[answer[u]].body = asked[u].body
    BY <2>1 DEF IdempotenceInv, CreatedAnswersItself, ReplayAnswersSameKey,
                SameKeyJobs
  <2>2. answer[s] = answer[t]
    BY <2>1 DEF IdempotenceInv, OneRowPerKey
  <2>3. QED
    BY <2>1, <2>2
<1>2. QED
  BY <1>1, IdempotenceInvInit, IdempotenceInvStep, PTL DEF JobsSpec

-----------------------------------------------------------------------------
(* A job that has ended.                                                    *)

RunnerStates ==
    {"none", "spawned", "rendering", "rendered", "failing", "crashing", "done", "dead"}

\* What is known of one job: who may still write its row, and when.
JobSound(j) ==
    /\ status[j] \in Terminal \cup {"none", "queued", "running"}
    /\ submit[j] \in Answered \cup {"new", "checked", "committed", "dead"}
    /\ runner[j] \in RunnerStates
    /\ age[j] \in 0 .. StaleAfter
    /\ submit[j] \in {"new", "checked"} => status[j] = "none"
    /\ submit[j] \in {"new", "checked", "committed"} => runner[j] = "none"
    /\ Alive(j) => age[j] < StaleAfter
    /\ status[j] \in Terminal => ~Alive(j)

\* A poll fails a job that no worker writes any more, or that a poll failed before.
PollSound(p) ==
    poll[p] # NoJob =>
        /\ poll[p] \in Submits
        /\ ~Alive(poll[p])
        /\ \/ status[poll[p]] \in {"queued", "running"}
           \/ status[poll[p]] = "failed" /\ error[poll[p]] = "worker_lost"

JobsInv ==
    /\ status \in [Submits -> Terminal \cup {"none", "queued", "running"}]
    /\ error \in [Submits -> {"none", "worker_lost", "render_error"}]
    /\ submit \in [Submits -> Answered \cup {"new", "checked", "committed", "dead"}]
    /\ runner \in [Submits -> RunnerStates]
    /\ age \in [Submits -> 0 .. StaleAfter]
    /\ poll \in [Polls -> Submits \cup {NoJob}]
    /\ \A j \in Submits : JobSound(j)
    /\ \A p \in Polls : PollSound(p)

\* What a job's life does to it, and that it leaves the others alone.
JobStep(j) ==
    /\ \A k \in Submits \ {j} : /\ status'[k] = status[k] /\ error'[k] = error[k]
                                /\ submit'[k] = submit[k] /\ runner'[k] = runner[k]
                                /\ age'[k] = age[k]
    /\ JobSound(j)'
    /\ status[j] # "none" /\ ~Alive(j) => ~Alive(j)'
    /\ status[j] = "none" \/ Alive(j) \/ (status'[j] = status[j] /\ error'[j] = error[j])
    /\ status[j] # "none" => status'[j] # "none"

\* Such a step keeps what is known of every job and every poll.
LEMMA JobStepKeeps ==
    ASSUME JobsInv, NEW j \in Submits, JobStep(j), poll' = poll,
           status' \in [Submits -> Terminal \cup {"none", "queued", "running"}],
           error' \in [Submits -> {"none", "worker_lost", "render_error"}],
           submit' \in [Submits -> Answered \cup {"new", "checked", "committed", "dead"}],
           runner' \in [Submits -> RunnerStates],
           age' \in [Submits -> 0 .. StaleAfter]
    PROVE  JobsInv'
<1>1. \A k \in Submits : JobSound(k)'
  BY DEF JobsInv, JobStep, JobSound, Alive
<1>2. ASSUME NEW p \in Polls PROVE PollSound(p)'
  <2>1. PollSound(p)
    BY DEF JobsInv
  <2>2. CASE poll[p] = j
    BY <2>1, <2>2 DEF PollSound, JobStep
  <2>3. CASE poll[p] # j
    BY <2>1, <2>3 DEF PollSound, JobStep, Alive
  <2>4. QED
    BY <2>2, <2>3
<1>3. QED
  BY <1>1, <1>2 DEF JobsInv

\* Every step of a job is such a step, and changes no row that has ended.
LEMMA JobSteps ==
    ASSUME JobsInv, NEW j \in Submits,
           Submit(j) \/ Runner(j) \/ Heartbeat(j) \/ BillingCommits(j) \/ WorkerStops(j)
    PROVE  JobsInv' /\ JobStep(j)
<1> USE TimeAssumption DEF RunnerStates, Answered, Terminal
<1>1. JobSound(j) /\ poll' = poll
  BY DEF JobsInv, Submit, SubmitFinds, SubmitChecks, SubmitInserts, SubmitSpawns, Runner,
         RunnerStarts, RunnerRenders, RenderFails, RunnerSucceeds, RunnerFails, RunnerBreaks,
         RunnerCleansUp, Heartbeat, BillingCommits, WorkerStops, rows
<1>2. ASSUME JobStep(j),
             status' \in [Submits -> Terminal \cup {"none", "queued", "running"}],
             error' \in [Submits -> {"none", "worker_lost", "render_error"}],
             submit' \in [Submits -> Answered \cup {"new", "checked", "committed", "dead"}],
             runner' \in [Submits -> RunnerStates],
             age' \in [Submits -> 0 .. StaleAfter]
      PROVE  JobsInv' /\ JobStep(j)
  BY <1>1, <1>2, JobStepKeeps
<1>3. CASE SubmitFinds(j) \/ SubmitChecks(j)
  BY <1>1, <1>2, <1>3 DEF SubmitFinds, SubmitChecks, rows, JobsInv, JobStep, JobSound, Alive
<1>4. CASE SubmitInserts(j)
  <2>1. submit[j] = "checked" /\ error' = error /\ runner' = runner
    BY <1>4 DEF SubmitInserts
  <2>2. CASE KeyFree(j)
    <3>1. /\ status' = [status EXCEPT ![j] = "queued"] /\ age' = [age EXCEPT ![j] = 0]
          /\ submit' = [submit EXCEPT ![j] = "committed"]
      BY <1>4, <2>2 DEF SubmitInserts
    <3>2. QED
      BY <1>1, <1>2, <2>1, <3>1 DEF JobsInv, JobStep, JobSound, Alive, AtWork
  <2>3. CASE ~KeyFree(j)
    <3>1. /\ status' = status /\ age' = age /\ submit' = [submit EXCEPT ![j] = "error"]
      BY <1>4, <2>3 DEF SubmitInserts
    <3>2. QED
      BY <1>1, <1>2, <2>1, <3>1 DEF JobsInv, JobStep, JobSound, Alive, AtWork
  <2>4. QED
    BY <2>2, <2>3
<1>5. CASE SubmitSpawns(j)
  BY <1>1, <1>2, <1>5 DEF SubmitSpawns, rows, JobsInv, JobStep, JobSound, Alive, AtWork
<1>6. CASE RunnerStarts(j)
  BY <1>1, <1>2, <1>6 DEF RunnerStarts, JobsInv, JobStep, JobSound, Alive, AtWork
<1>7. CASE RunnerRenders(j) \/ RenderFails(j) \/ RunnerBreaks(j)
  BY <1>1, <1>2, <1>7
     DEF RunnerRenders, RenderFails, RunnerBreaks, rows, JobsInv, JobStep, JobSound, Alive, AtWork
<1>8. CASE RunnerSucceeds(j) \/ RunnerFails(j)
  BY <1>1, <1>2, <1>8 DEF RunnerSucceeds, RunnerFails, JobsInv, JobStep, JobSound, Alive, AtWork
<1>9. CASE RunnerCleansUp(j)
  BY <1>1, <1>2, <1>9 DEF RunnerCleansUp, rows, JobsInv, JobStep, JobSound, Alive, AtWork
<1>10. CASE Heartbeat(j) \/ BillingCommits(j)
  BY <1>1, <1>2, <1>10 DEF Heartbeat, BillingCommits, rows, JobsInv, JobStep, JobSound, Alive, AtWork
<1>11. CASE WorkerStops(j)
  BY <1>1, <1>2, <1>11 DEF WorkerStops, rows, JobsInv, JobStep, JobSound, Alive, AtWork
<1>12. QED
  BY <1>3, <1>4, <1>5, <1>6, <1>7, <1>8, <1>9, <1>10, <1>11 DEF Submit, Runner

\* A job that ended keeps its outcome.
JobsStay ==
    \A j \in Submits : status[j] \in Terminal => status'[j] = status[j] /\ error'[j] = error[j]

\* Under timely workers every step keeps what is known and what has ended.
LEMMA JobsStep ==
    ASSUME Timely, JobsInv, [JobsNext]_jobsVars
    PROVE  JobsInv' /\ JobsStay
<1> USE TimeAssumption, NamesAssumption
<1>1. ASSUME NEW j \in Submits,
             Submit(j) \/ Runner(j) \/ Heartbeat(j) \/ BillingCommits(j) \/ WorkerStops(j)
      PROVE  JobsInv' /\ JobsStay
  <2>1. JobsInv' /\ JobStep(j)
    BY <1>1, JobSteps
  <2>2. JobsStay
    BY <2>1 DEF JobsStay, JobStep, JobsInv, JobSound, Terminal
  <2>3. QED
    BY <2>1, <2>2
<1>2. ASSUME NEW p \in Polls, PollReads(p) PROVE JobsInv' /\ JobsStay
  <2>1. PICK j \in Submits : IsStale(j) /\ poll' = [poll EXCEPT ![p] = j]
    BY <1>2 DEF PollReads
  <2>2. /\ status' = status /\ error' = error /\ submit' = submit /\ runner' = runner /\ age' = age
    BY <1>2 DEF PollReads, rows
  <2>3. ~Alive(j)
    BY <2>1 DEF JobsInv, JobSound, IsStale
  <2>4. \A k \in Submits : JobSound(k)'
    BY <2>2 DEF JobsInv, JobSound, Alive
  <2>5. \A q \in Polls : PollSound(q)'
    BY <2>1, <2>2, <2>3 DEF JobsInv, PollSound, IsStale, Alive
  <2>6. QED
    BY <2>1, <2>2, <2>4, <2>5 DEF JobsInv, JobsStay
<1>3. ASSUME NEW p \in Polls, PollFails(p) PROVE JobsInv' /\ JobsStay
  <2> DEFINE j == poll[p]
  <2>1. /\ poll[p] # NoJob /\ poll' = [poll EXCEPT ![p] = NoJob]
        /\ status' = [status EXCEPT ![j] = "failed"]
        /\ error' = [error EXCEPT ![j] = "worker_lost"]
        /\ submit' = submit /\ runner' = runner /\ age' = age
    BY <1>3 DEF PollFails
  <2>2. /\ j \in Submits /\ ~Alive(j) /\ JobSound(j)
        /\ status[j] \in {"queued", "running"}
             \/ (status[j] = "failed" /\ error[j] = "worker_lost")
    BY <2>1 DEF JobsInv, PollSound
  <2>3. /\ status' \in [Submits -> Terminal \cup {"none", "queued", "running"}]
        /\ error' \in [Submits -> {"none", "worker_lost", "render_error"}]
        /\ poll' \in [Polls -> Submits \cup {NoJob}]
    BY <2>1, <2>2 DEF JobsInv, Terminal
  <2>4. /\ status'[j] = "failed" /\ error'[j] = "worker_lost"
        /\ \A k \in Submits : k # j => status'[k] = status[k] /\ error'[k] = error[k]
    BY <2>1, <2>2 DEF JobsInv
  <2>5. \A k \in Submits : JobSound(k)'
    BY <2>1, <2>2, <2>4 DEF JobsInv, JobSound, Alive, Terminal
  <2>6. ASSUME NEW q \in Polls PROVE PollSound(q)'
    <3>1. PollSound(q) /\ (poll'[q] = NoJob \/ poll'[q] = poll[q])
      BY <2>1 DEF JobsInv
    <3>2. QED
      BY <2>1, <2>2, <2>4, <3>1 DEF PollSound, Alive
  <2>7. JobsStay
    BY <2>2, <2>4 DEF JobsStay, Terminal
  <2>8. QED
    BY <2>1, <2>3, <2>5, <2>6, <2>7 DEF JobsInv
<1>4. CASE RowsAge
  <2>1. /\ age' = [j \in Submits |-> IF status[j] # "none" /\ age[j] < StaleAfter
                                     THEN age[j] + 1 ELSE age[j]]
        /\ \A j \in Submits : Alive(j) => age[j] + 1 < StaleAfter
        /\ status' = status /\ error' = error /\ submit' = submit /\ runner' = runner
        /\ poll' = poll
    BY <1>4 DEF RowsAge
  <2>2. age' \in [Submits -> 0 .. StaleAfter]
    BY <2>1 DEF JobsInv
  <2>3. ASSUME NEW k \in Submits PROVE JobSound(k)'
    <3>1. JobSound(k) /\ age[k] \in Nat /\ (Alive(k) => age'[k] < StaleAfter)
      BY <2>1 DEF JobsInv, JobSound
    <3>2. QED
      BY <2>1, <2>2, <3>1 DEF JobSound, Alive
  <2>4. \A q \in Polls : PollSound(q)'
    BY <2>1 DEF JobsInv, PollSound, Alive
  <2>5. QED
    BY <2>1, <2>2, <2>3, <2>4 DEF JobsInv, JobsStay
<1>5. CASE UNCHANGED jobsVars
  BY <1>5 DEF jobsVars, rows, JobsInv, JobsStay, JobSound, PollSound, Alive
<1>6. QED
  BY <1>1, <1>2, <1>3, <1>4, <1>5 DEF JobsNext

\* When the heartbeats of a live worker arrive in time, what a client was told at the
\* end of a job stays true: no runner and no slow poll rewrites a finished row
\* (services/image_jobs.py, _run_job and get_job).
THEOREM FinishedJobsStay == Timely => (JobsSpec => TerminalStable)
<1> SUFFICES ASSUME Timely PROVE JobsSpec => TerminalStable
  OBVIOUS
<1>1. JobsInit => JobsInv
  BY TimeAssumption
     DEF JobsInit, JobsInv, JobSound, PollSound, Alive, AtWork, Terminal, Answered, RunnerStates
<1>2. JobsInv /\ [JobsNext]_jobsVars => JobsInv' /\ [JobsStay]_jobsVars
  BY JobsStep
<1>3. [JobsStay]_jobsVars <=>
        [\A j \in Submits :
            status[j] \in Terminal => status'[j] = status[j] /\ error'[j] = error[j]]_jobsVars
  BY DEF JobsStay
<1>4. QED
  BY <1>1, <1>2, <1>3, PTL DEF JobsSpec, TerminalStable

-----------------------------------------------------------------------------
(* A streamed answer.                                                       *)

ViewFields == {"phase", "open", "kind", "next", "thoughts", "text", "tools", "reason", "usage"}

\* What the client makes of one event, where the event is one it waits for.
LEMMA Reading ==
    ASSUME NEW v, DOMAIN v = ViewFields
    PROVE  /\ v.phase = "fresh" =>
                LET w == ReadStart(v) IN
                /\ DOMAIN w = ViewFields /\ w.phase = "started"
                /\ w.open = v.open /\ w.kind = v.kind /\ w.next = v.next
           /\ \A i, kind, id :
                v.phase = "started" /\ v.open = -1 /\ i = v.next =>
                  LET w == ReadBlockStart(v, i, kind, id) IN
                  /\ DOMAIN w = ViewFields /\ w.phase = "started"
                  /\ w.open = i /\ w.kind = kind /\ w.next = i + 1
           /\ \A i, x : \A kind \in {"thinking", "text", "tool"} :
                v.phase = "started" /\ v.open = i /\ v.kind = kind =>
                  LET w == ReadDelta(v, i, kind, x) IN
                  /\ DOMAIN w = ViewFields /\ w.phase = v.phase
                  /\ w.open = v.open /\ w.kind = v.kind /\ w.next = v.next
           /\ \A i :
                v.phase = "started" /\ v.open = i =>
                  LET w == ReadBlockStop(v, i) IN
                  /\ DOMAIN w = ViewFields /\ w.phase = "started"
                  /\ w.open = -1 /\ w.next = v.next
           /\ \A reason, usage :
                v.phase = "started" /\ v.open = -1 =>
                  LET w == ReadConclusion(v, reason, usage) IN
                  /\ DOMAIN w = ViewFields /\ w.phase = "concluded"
                  /\ w.open = v.open /\ w.next = v.next
           /\ v.phase = "concluded" =>
                LET w == ReadStop(v) IN
                /\ DOMAIN w = ViewFields /\ w.phase = "stopped"
                /\ w.open = v.open /\ w.next = v.next
           /\ LET w == [v EXCEPT !.phase = "error"] IN
              /\ DOMAIN w = ViewFields /\ w.phase = "error"
              /\ w.open = v.open /\ w.next = v.next
<1> USE DEF ViewFields
<1>1. v.phase = "fresh" =>
        LET w == ReadStart(v) IN
        /\ DOMAIN w = ViewFields /\ w.phase = "started"
        /\ w.open = v.open /\ w.kind = v.kind /\ w.next = v.next
  BY DEF ReadStart
<1>2. ASSUME NEW i, NEW kind, NEW id, v.phase = "started", v.open = -1, i = v.next
      PROVE  LET w == ReadBlockStart(v, i, kind, id) IN
             /\ DOMAIN w = ViewFields /\ w.phase = "started"
             /\ w.open = i /\ w.kind = kind /\ w.next = i + 1
  BY <1>2 DEF ReadBlockStart
<1>3. ASSUME NEW i, NEW x, NEW kind \in {"thinking", "text", "tool"},
             v.phase = "started", v.open = i, v.kind = kind
      PROVE  LET w == ReadDelta(v, i, kind, x) IN
             /\ DOMAIN w = ViewFields /\ w.phase = v.phase
             /\ w.open = v.open /\ w.kind = v.kind /\ w.next = v.next
  BY <1>3 DEF ReadDelta
<1>4. ASSUME NEW i, v.phase = "started", v.open = i
      PROVE  LET w == ReadBlockStop(v, i) IN
             /\ DOMAIN w = ViewFields /\ w.phase = "started"
             /\ w.open = -1 /\ w.next = v.next
  BY <1>4 DEF ReadBlockStop
<1>5. ASSUME NEW reason, NEW usage, v.phase = "started", v.open = -1
      PROVE  LET w == ReadConclusion(v, reason, usage) IN
             /\ DOMAIN w = ViewFields /\ w.phase = "concluded"
             /\ w.open = v.open /\ w.next = v.next
  BY <1>5 DEF ReadConclusion
<1>6. v.phase = "concluded" =>
        LET w == ReadStop(v) IN
        /\ DOMAIN w = ViewFields /\ w.phase = "stopped"
        /\ w.open = v.open /\ w.next = v.next
  BY DEF ReadStop
<1>7. LET w == [v EXCEPT !.phase = "error"] IN
      /\ DOMAIN w = ViewFields /\ w.phase = "error"
      /\ w.open = v.open /\ w.next = v.next
  OBVIOUS
<1>8. QED
  BY <1>1, <1>2, <1>3, <1>4, <1>5, <1>6, <1>7

Places == {"begin", "fetch", "think", "text", "tools", "input", "close", "stop", "done"}
EmFields ==
    {"thinking", "thinkingAt", "text", "textAt", "tool", "visible", "next", "usage", "finish"}

\* The emitter's block of thoughts or text is the client's open block, a tool call is
\* open while its input is written, and otherwise nothing is open.
Aligned ==
    /\ at = "begin" => view.phase = "fresh"
    /\ at \in {"fetch", "think", "text", "tools", "input", "close"} => view.phase = "started"
    /\ at = "stop" => view.phase = "concluded"
    /\ em.thinking =>
         /\ ~em.text /\ at \in {"fetch", "think", "text", "tools"}
         /\ view.open = em.thinkingAt /\ view.kind = "thinking" /\ em.thinkingAt \in Nat
    /\ em.text =>
         /\ at \in {"fetch", "think", "text", "tools"}
         /\ view.open = em.textAt /\ view.kind = "text" /\ em.textAt \in Nat
    /\ at \in {"input", "close"} =>
         view.open = em.next - 1 /\ view.kind = "tool" /\ em.next - 1 \in Nat
    /\ ~em.thinking /\ ~em.text /\ at \notin {"input", "close"} => view.open = -1

StreamInv ==
    /\ DOMAIN view = ViewFields /\ DOMAIN em = EmFields
    /\ em.next \in Nat /\ view.next = em.next
    /\ em.thinking \in BOOLEAN /\ em.text \in BOOLEAN
    /\ at \in Places /\ ended \in {"no", "clean", "error", "left"}
    /\ ended = "no" => Aligned

\* The client's message as the Messages API tells of it.
Tale == <<view.phase, view.open, view.next>>

\* What an adapter or its provider does, the client does not see.
LEMMA ProviderStep ==
    ASSUME StreamInv, Provider
    PROVE  StreamInv' /\ [Protocol!Next]_Tale
<1>1. CASE ProviderRaises
  <2>1. /\ view' = [view EXCEPT !.phase = "error"] /\ view.phase = "started"
        /\ em' = em /\ at' = at /\ ended' = "error"
    BY <1>1 DEF ProviderRaises, StreamInv, Aligned
  <2>2. /\ DOMAIN view' = ViewFields /\ view'.phase = "error"
        /\ view'.open = view.open /\ view'.next = view.next
    BY <2>1, Reading DEF StreamInv
  <2>3. QED
    BY <2>1, <2>2 DEF StreamInv, Protocol!Next, Protocol!Fail
<1>2. CASE ~ProviderRaises
  <2>1. /\ view' = view /\ em' = em /\ at' = at /\ ended' = ended
    BY <1>2 DEF Provider, Opens, Rewrites, CacheGone, SendsHead, SendsThought, SendsText, SendsCall,
                SendsArguments, EndsCall, Concludes, EndsIgnored, EndsUnsaid, Sends
  <2>2. QED
    BY <2>1 DEF StreamInv, Aligned, Tale
<1>3. QED
  BY <1>1, <1>2

\* Every event the emitter writes is one the client waits for.
LEMMA EmitterStep ==
    ASSUME StreamInv, Emitter \/ Leave
    PROVE  StreamInv' /\ [Protocol!Next]_Tale
<1> USE DEF Places, EmFields, Flowing, Emitted
<1>1. /\ DOMAIN view = ViewFields /\ DOMAIN em = EmFields /\ em.next \in Nat /\ view.next = em.next
      /\ em.thinking \in BOOLEAN /\ em.text \in BOOLEAN /\ at \in Places /\ Aligned /\ ended = "no"
  BY DEF StreamInv, Emitter, Begin, Fetch, OpenThinking, ThinkDelta, NoThought, CloseThinking,
         OpenText, TextDelta, NoText, CloseText, OpenTool, ToolDelta, CloseTool, Take, Conclude,
         Stop, Leave
<1>2. CASE Leave
  BY <1>1, <1>2 DEF Leave, StreamInv, Tale
<1>3. CASE Begin
  <2>1. view' = ReadStart(view) /\ at = "begin" /\ at' = "fetch" /\ em' = em /\ ended' = ended
    BY <1>3 DEF Begin
  <2>2. view.phase = "fresh"
    BY <1>1, <2>1 DEF Aligned
  <2>3. /\ DOMAIN view' = ViewFields /\ view'.phase = "started"
        /\ view'.open = view.open /\ view'.kind = view.kind /\ view'.next = view.next
    BY <1>1, <2>1, <2>2, Reading
  <2>4. [Protocol!Next]_Tale
    BY <2>2, <2>3 DEF Protocol!Next, Protocol!Start
  <2>5. QED
    BY <1>1, <2>1, <2>3, <2>4 DEF StreamInv, Aligned
<1>4. CASE Fetch \/ NoThought \/ NoText
  <2>1. /\ view' = view /\ em' = em /\ ended' = ended /\ at \in {"fetch", "think", "text"}
        /\ at' \in {"think", "text", "tools"}
    BY <1>4 DEF Fetch, NoThought, NoText
  <2>2. QED
    BY <1>1, <2>1 DEF StreamInv, Aligned, Tale
<1>5. CASE OpenThinking
  <2>1. /\ view' = ReadBlockStart(view, em.next, "thinking", 0) /\ at = "think" /\ at' = at
        /\ em' = [em EXCEPT !.thinking = TRUE, !.thinkingAt = em.next, !.next = @ + 1]
        /\ ~em.thinking /\ ~em.text /\ ended' = ended
    BY <1>5 DEF OpenThinking, ShowsThought
  <2>2. view.phase = "started" /\ view.open = -1
    BY <1>1, <2>1 DEF Aligned
  <2>3. /\ DOMAIN view' = ViewFields /\ view'.phase = "started"
        /\ view'.open = em.next /\ view'.kind = "thinking" /\ view'.next = em.next + 1
    BY <1>1, <2>1, <2>2, Reading
  <2>4. /\ DOMAIN em' = EmFields /\ em'.thinking /\ em'.thinkingAt = em.next
        /\ em'.next = em.next + 1 /\ em'.text = em.text
    BY <1>1, <2>1
  <2>5. [Protocol!Next]_Tale
    BY <1>1, <2>2, <2>3 DEF Protocol!Next, Protocol!StartBlock
  <2>6. QED
    BY <1>1, <2>1, <2>3, <2>4, <2>5 DEF StreamInv, Aligned
<1>6. CASE ThinkDelta \/ TextDelta \/ ToolDelta
  <2>1. /\ em' = em /\ ended' = ended
        /\ \/ /\ view' = ReadDelta(view, em.thinkingAt, "thinking", chunk.think)
              /\ em.thinking /\ at = "think" /\ at' = "text"
           \/ /\ view' = ReadDelta(view, em.textAt, "text", chunk.text)
              /\ em.text /\ ~em.thinking /\ at = "text" /\ at' = "tools"
           \/ /\ view' = ReadDelta(view, em.next - 1, "tool", Head(chunk.tools).args)
              /\ at = "input" /\ at' = "close"
    BY <1>6 DEF ThinkDelta, TextDelta, ToolDelta
  <2>2. /\ DOMAIN view' = ViewFields /\ view'.phase = view.phase
        /\ view'.open = view.open /\ view'.kind = view.kind /\ view'.next = view.next
    BY <1>1, <2>1, Reading DEF Aligned
  <2>3. QED
    BY <1>1, <2>1, <2>2 DEF StreamInv, Aligned, Tale
<1>7. CASE CloseThinking \/ CloseText
  <2>1. /\ at' = at /\ ended' = ended /\ at \in {"text", "tools", "fetch"}
        /\ \/ /\ em.thinking /\ view' = ReadBlockStop(view, em.thinkingAt)
              /\ em' = [em EXCEPT !.thinking = FALSE]
           \/ /\ em.text /\ ~em.thinking /\ view' = ReadBlockStop(view, em.textAt)
              /\ em' = [em EXCEPT !.text = FALSE]
    BY <1>7 DEF CloseThinking, CloseText, NeedsThinkingClosed
  <2>2. /\ DOMAIN view' = ViewFields /\ view'.phase = "started"
        /\ view'.open = -1 /\ view'.next = view.next /\ view.phase = "started" /\ view.open # -1
    BY <1>1, <2>1, Reading DEF Aligned
  <2>3. /\ DOMAIN em' = EmFields /\ em'.thinking = FALSE /\ em'.text = FALSE /\ em'.next = em.next
    BY <1>1, <2>1 DEF Aligned
  <2>4. [Protocol!Next]_Tale
    BY <2>2 DEF Protocol!Next, Protocol!StopBlock
  <2>5. QED
    BY <1>1, <2>1, <2>2, <2>3, <2>4 DEF StreamInv, Aligned
<1>8. CASE OpenText
  <2>1. /\ view' = ReadBlockStart(view, em.next, "text", 0) /\ at = "text" /\ at' = at
        /\ em' = [em EXCEPT !.text = TRUE, !.textAt = em.next, !.next = @ + 1, !.visible = TRUE]
        /\ ~em.thinking /\ ~em.text /\ ended' = ended
    BY <1>8 DEF OpenText
  <2>2. view.phase = "started" /\ view.open = -1
    BY <1>1, <2>1 DEF Aligned
  <2>3. /\ DOMAIN view' = ViewFields /\ view'.phase = "started"
        /\ view'.open = em.next /\ view'.kind = "text" /\ view'.next = em.next + 1
    BY <1>1, <2>1, <2>2, Reading
  <2>4. /\ DOMAIN em' = EmFields /\ em'.text /\ em'.textAt = em.next
        /\ em'.next = em.next + 1 /\ em'.thinking = em.thinking
    BY <1>1, <2>1
  <2>5. [Protocol!Next]_Tale
    BY <1>1, <2>2, <2>3 DEF Protocol!Next, Protocol!StartBlock
  <2>6. QED
    BY <1>1, <2>1, <2>3, <2>4, <2>5 DEF StreamInv, Aligned
<1>9. CASE OpenTool
  <2>1. /\ view' = ReadBlockStart(view, em.next, "tool", Head(chunk.tools).id)
        /\ at = "tools" /\ at' = "input"
        /\ em' = [em EXCEPT !.tool = TRUE, !.visible = TRUE, !.next = @ + 1]
        /\ ~em.thinking /\ ~em.text /\ ended' = ended
    BY <1>9 DEF OpenTool
  <2>2. view.phase = "started" /\ view.open = -1
    BY <1>1, <2>1 DEF Aligned
  <2>3. /\ DOMAIN view' = ViewFields /\ view'.phase = "started"
        /\ view'.open = em.next /\ view'.kind = "tool" /\ view'.next = em.next + 1
    BY <1>1, <2>1, <2>2, Reading
  <2>4. /\ DOMAIN em' = EmFields /\ em'.text = em.text
        /\ em'.next = em.next + 1 /\ em'.thinking = em.thinking
    BY <1>1, <2>1
  <2>5. [Protocol!Next]_Tale
    BY <1>1, <2>2, <2>3 DEF Protocol!Next, Protocol!StartBlock
  <2>6. QED
    BY <1>1, <2>1, <2>3, <2>4, <2>5 DEF StreamInv, Aligned
<1>10. CASE CloseTool
  <2>1. /\ view' = ReadBlockStop(view, em.next - 1) /\ at = "close" /\ at' = "tools"
        /\ em' = em /\ ended' = ended
    BY <1>10 DEF CloseTool
  <2>2. /\ view.phase = "started" /\ view.open = em.next - 1 /\ em.next - 1 \in Nat
        /\ ~em.thinking /\ ~em.text
    BY <1>1, <2>1 DEF Aligned
  <2>3. /\ DOMAIN view' = ViewFields /\ view'.phase = "started"
        /\ view'.open = -1 /\ view'.next = view.next
    BY <1>1, <2>1, <2>2, Reading
  <2>4. [Protocol!Next]_Tale
    BY <2>2, <2>3 DEF Protocol!Next, Protocol!StopBlock
  <2>5. QED
    BY <1>1, <2>1, <2>2, <2>3, <2>4 DEF StreamInv, Aligned
<1>11. CASE Take
  <2>1. /\ view' = view /\ ended' = ended /\ at = "tools" /\ at' = "fetch"
        /\ DOMAIN em' = EmFields /\ em'.next = em.next /\ em'.thinking = em.thinking
        /\ em'.text = em.text /\ em'.thinkingAt = em.thinkingAt /\ em'.textAt = em.textAt
    BY <1>1, <1>11 DEF Take
  <2>2. QED
    BY <1>1, <2>1 DEF StreamInv, Aligned, Tale
<1>12. CASE Conclude
  <2>1. /\ view' = ReadConclusion(view, StopReason(em.tool, em.finish), em.usage)
        /\ at = "fetch" /\ at' = "stop" /\ em' = em /\ ended' = ended
        /\ ~em.thinking /\ ~em.text
    BY <1>12 DEF Conclude
  <2>2. view.phase = "started" /\ view.open = -1
    BY <1>1, <2>1 DEF Aligned
  <2>3. /\ DOMAIN view' = ViewFields /\ view'.phase = "concluded"
        /\ view'.open = view.open /\ view'.next = view.next
    BY <1>1, <2>1, <2>2, Reading
  <2>4. [Protocol!Next]_Tale
    BY <2>2, <2>3 DEF Protocol!Next, Protocol!Conclude
  <2>5. QED
    BY <1>1, <2>1, <2>2, <2>3, <2>4 DEF StreamInv, Aligned
<1>13. CASE Stop
  <2>1. /\ view' = ReadStop(view) /\ at = "stop" /\ at' = "done" /\ em' = em /\ ended' = "clean"
    BY <1>13 DEF Stop
  <2>2. view.phase = "concluded"
    BY <1>1, <2>1 DEF Aligned
  <2>3. /\ DOMAIN view' = ViewFields /\ view'.phase = "stopped"
        /\ view'.open = view.open /\ view'.next = view.next
    BY <1>1, <2>1, <2>2, Reading
  <2>4. [Protocol!Next]_Tale
    BY <2>2, <2>3 DEF Protocol!Next, Protocol!Stop
  <2>5. QED
    BY <1>1, <2>1, <2>3, <2>4 DEF StreamInv
<1>14. QED
  BY <1>2, <1>3, <1>4, <1>5, <1>6, <1>7, <1>8, <1>9, <1>10, <1>11, <1>12, <1>13 DEF Emitter

\* Whatever the order of thoughts, text and tool calls in the chunks, and wherever the
\* client leaves or the provider fails, the client of a streamed answer reads the
\* sequence of events the Messages API promises (services/messages_v2/emit.py).
THEOREM EventsKeepOrder == Spec => EventsInOrder
<1>1. Init => StreamInv /\ Protocol!Init
  BY DEF Init, StreamInit, StreamInv, Aligned, ViewFields, EmFields, Places, Protocol!Init
<1>2. StreamInv /\ [Next]_vars => StreamInv' /\ [Protocol!Next]_Tale
  <2> SUFFICES ASSUME StreamInv, [Next]_vars PROVE StreamInv' /\ [Protocol!Next]_Tale
    OBVIOUS
  <2>1. CASE StreamNext
    BY <2>1, ProviderStep, EmitterStep DEF StreamNext
  <2>2. CASE UNCHANGED streamVars
    BY <2>2 DEF streamVars, StreamInv, Aligned, Tale
  <2>3. QED
    BY <2>1, <2>2 DEF Next, vars
<1>3. QED
  BY <1>1, <1>2, PTL DEF Spec, EventsInOrder, Protocol!Spec, Protocol!vars, Tale

-----------------------------------------------------------------------------
(* What flows between the provider, the adapter and the emitter.            *)

Finishes == {"none", "stop", "length", "tool_calls"}
Kinds    == {"head", "think", "text", "call", "args", "stop", "end", "cut"}
Calls    == [id : Nat, args : Nat]

ChunkSet ==
    [think : Nat, text : Nat, tools : Seq(Calls), usage : Int, finish : Finishes,
     done : BOOLEAN]

EventSet ==
    [kind : Kinds, token : Nat, tool : Nat, args : Nat, reason : {"none"} \cup Reasons,
     usage : Int]

AdapterSet ==
    [calls : SUBSET Nat, input : Nat, current : Nat, pending : Seq(Calls), usage : Int,
     surfaced : BOOLEAN]

Progress == [args : Nat, closed : BOOLEAN]

SaidSet ==
    [thoughts : Seq(Nat), text : Seq(Nat), tools : Seq(Progress),
     pieces : Nat, usage : Int, reason : {"none", "unsaid", "failed"} \cup Reasons]

\* The chunks an adapter makes.
LEMMA ChunksTyped ==
    /\ /\ Chunk \in ChunkSet
       /\ Chunk.text = 0 /\ Chunk.tools = <<>> /\ Chunk.usage = NoUsage
    /\ \A t \in Nat :
         /\ TextChunk(t) \in ChunkSet /\ ThinkChunk(t) \in ChunkSet
         /\ TextChunk(t).text = t /\ TextChunk(t).tools = <<>> /\ TextChunk(t).usage = NoUsage
         /\ ThinkChunk(t).text = 0 /\ ThinkChunk(t).tools = <<>> /\ ThinkChunk(t).usage = NoUsage
    /\ \A ts \in Seq(Calls) :
         /\ ToolChunk(ts) \in ChunkSet
         /\ ToolChunk(ts).text = 0 /\ ToolChunk(ts).tools = ts /\ ToolChunk(ts).usage = NoUsage
    /\ \A u \in Int :
         /\ UsageChunk(u) \in ChunkSet
         /\ UsageChunk(u).text = 0 /\ UsageChunk(u).tools = <<>> /\ UsageChunk(u).usage = u
         /\ ~UsageChunk(u).done
    /\ \A u \in Int, f \in Finishes :
         /\ LastChunk(u, f) \in ChunkSet
         /\ LastChunk(u, f).text = 0 /\ LastChunk(u, f).tools = <<>>
         /\ LastChunk(u, f).usage = u /\ LastChunk(u, f).finish = f
    /\ \A u \in Int, f \in Finishes, ts \in Seq(Calls) :
         LET c == [LastChunk(u, f) EXCEPT !.tools = ts] IN
         c \in ChunkSet /\ c.text = 0 /\ c.tools = ts /\ c.usage = u /\ c.finish = f
<1>1. Chunk \in ChunkSet /\ Chunk.text = 0 /\ Chunk.tools = <<>> /\ Chunk.usage = NoUsage
  <2>1. <<>> \in Seq(Calls)
    OBVIOUS
  <2>2. QED
    BY <2>1 DEF Chunk, ChunkSet, Finishes, NoUsage, Silence
<1>2. ASSUME NEW t \in Nat
      PROVE  /\ TextChunk(t) \in ChunkSet /\ ThinkChunk(t) \in ChunkSet
             /\ TextChunk(t).text = t /\ TextChunk(t).tools = <<>> /\ TextChunk(t).usage = NoUsage
             /\ ThinkChunk(t).text = 0 /\ ThinkChunk(t).tools = <<>>
             /\ ThinkChunk(t).usage = NoUsage
  <2>1. /\ TextChunk(t) \in ChunkSet
        /\ TextChunk(t).text = t /\ TextChunk(t).tools = <<>> /\ TextChunk(t).usage = NoUsage
    BY <1>1 DEF TextChunk, ChunkSet
  <2>2. /\ ThinkChunk(t) \in ChunkSet
        /\ ThinkChunk(t).text = 0 /\ ThinkChunk(t).tools = <<>> /\ ThinkChunk(t).usage = NoUsage
    BY <1>1 DEF ThinkChunk, ChunkSet
  <2>3. QED
    BY <2>1, <2>2
<1>3. ASSUME NEW ts \in Seq(Calls)
      PROVE  /\ ToolChunk(ts) \in ChunkSet
             /\ ToolChunk(ts).text = 0 /\ ToolChunk(ts).tools = ts /\ ToolChunk(ts).usage = NoUsage
  BY <1>1 DEF ToolChunk, ChunkSet
<1>4. ASSUME NEW u \in Int
      PROVE  /\ UsageChunk(u) \in ChunkSet
             /\ UsageChunk(u).text = 0 /\ UsageChunk(u).tools = <<>> /\ UsageChunk(u).usage = u
             /\ ~UsageChunk(u).done
  <2>1. ~Chunk.done
    BY DEF Chunk
  <2>2. QED
    BY <1>1, <2>1 DEF UsageChunk, ChunkSet
<1>5. ASSUME NEW u \in Int, NEW f \in Finishes
      PROVE  /\ LastChunk(u, f) \in ChunkSet
             /\ LastChunk(u, f).text = 0 /\ LastChunk(u, f).tools = <<>>
             /\ LastChunk(u, f).usage = u /\ LastChunk(u, f).finish = f
  BY <1>1 DEF LastChunk, ChunkSet
<1>6. ASSUME NEW u \in Int, NEW f \in Finishes, NEW ts \in Seq(Calls)
      PROVE  LET c == [LastChunk(u, f) EXCEPT !.tools = ts] IN
             c \in ChunkSet /\ c.text = 0 /\ c.tools = ts /\ c.usage = u /\ c.finish = f
  BY <1>5 DEF ChunkSet
<1>7. QED
  BY <1>1, <1>2, <1>3, <1>4, <1>5, <1>6

\* One chunk of the list has the calls, and its last one the text.
Carries(cs, ts) ==
    /\ \A i \in 1 .. Len(cs) : cs[i].tools = <<>> \/ cs[i].tools = ts
    /\ \A i, j \in 1 .. Len(cs) : cs[i].tools # <<>> /\ cs[j].tools # <<>> => i = j
    /\ ts # <<>> => \E i \in 1 .. Len(cs) : cs[i].tools = ts

Words(cs, t) ==
    /\ \A i \in 1 .. Len(cs) : i < Len(cs) => cs[i].text = Silence
    /\ IF cs = <<>> THEN t = Silence ELSE cs[Len(cs)].text = t

\* Usage that is told is not nothing.
Metered(cs) == \A i \in 1 .. Len(cs) : cs[i].usage = NoUsage \/ cs[i].usage >= 1

\* No chunk.
LEMMA NoChunk ==
    <<>> \in Seq(ChunkSet) /\ Carries(<<>>, <<>>) /\ Words(<<>>, 0) /\ Metered(<<>>)
BY DEF Carries, Words, Metered, Silence

\* A list of one chunk.
LEMMA OneChunk ==
    ASSUME NEW c \in ChunkSet
    PROVE  /\ <<c>> \in Seq(ChunkSet) /\ <<c>> # <<>>
           /\ Carries(<<c>>, c.tools) /\ Words(<<c>>, c.text)
           /\ c.usage = NoUsage \/ c.usage >= 1 => Metered(<<c>>)
           /\ <<c>>[1] = c /\ Len(<<c>>) = 1
BY DEF Carries, Words, Metered, Silence

\* Two lists of chunks, one after the other.
LEMMA Joined ==
    ASSUME NEW s \in Seq(ChunkSet), NEW t \in Seq(ChunkSet)
    PROVE  /\ s \o t \in Seq(ChunkSet)
           /\ \A ts : Carries(s, <<>>) /\ Carries(t, ts) => Carries(s \o t, ts)
           /\ \A ts : Carries(s, ts) /\ Carries(t, <<>>) => Carries(s \o t, ts)
           /\ \A x : Words(s, 0) /\ Words(t, x) => Words(s \o t, x)
           /\ Metered(s) /\ Metered(t) => Metered(s \o t)
           /\ t # <<>> => s \o t # <<>> /\ (s \o t)[Len(s \o t)] = t[Len(t)]
           /\ s # <<>> => s \o t # <<>> /\ (s \o t)[1] = s[1]
<1> DEFINE u == s \o t
<1>1. /\ u \in Seq(ChunkSet) /\ Len(u) = Len(s) + Len(t)
      /\ Len(s) \in Nat /\ Len(t) \in Nat
      /\ \A i \in 1 .. Len(u) : u[i] = IF i <= Len(s) THEN s[i] ELSE t[i - Len(s)]
  OBVIOUS
<1>2. /\ s = <<>> <=> Len(s) = 0
      /\ t = <<>> <=> Len(t) = 0
      /\ u = <<>> <=> Len(u) = 0
  BY <1>1, EmptySeq
<1> HIDE DEF u
<1>3. ASSUME NEW i \in 1 .. Len(s) PROVE i \in 1 .. Len(u) /\ u[i] = s[i]
  BY <1>1
<1>4. ASSUME NEW i \in 1 .. Len(t)
      PROVE  Len(s) + i \in 1 .. Len(u) /\ u[Len(s) + i] = t[i]
  <2>1. Len(s) + i \in 1 .. Len(u) /\ ~(Len(s) + i <= Len(s)) /\ Len(s) + i - Len(s) = i
    BY <1>1
  <2>2. QED
    BY <1>1, <2>1
<1>5. ASSUME NEW k \in 1 .. Len(u)
      PROVE  \/ k \in 1 .. Len(s) /\ u[k] = s[k]
             \/ k - Len(s) \in 1 .. Len(t) /\ u[k] = t[k - Len(s)] /\ k > Len(s)
  BY <1>1
<1>6. ASSUME NEW ts, Carries(s, <<>>), Carries(t, ts)
      PROVE  Carries(u, ts)
  <2>1. ASSUME NEW k \in 1 .. Len(u)
        PROVE  \/ u[k].tools = <<>>
               \/ k - Len(s) \in 1 .. Len(t) /\ u[k].tools = ts /\ t[k - Len(s)].tools = ts
    BY <1>5, <1>6 DEF Carries
  <2>2. \A i, j \in 1 .. Len(u) : u[i].tools # <<>> /\ u[j].tools # <<>> => i = j
    <3>1. ASSUME NEW i \in 1 .. Len(u), NEW j \in 1 .. Len(u), u[i].tools # <<>>, u[j].tools # <<>>
          PROVE  i - Len(s) = j - Len(s)
      BY <2>1, <3>1, <1>6 DEF Carries
    <3>2. QED
      BY <3>1, <1>1
  <2>3. ts # <<>> => \E i \in 1 .. Len(u) : u[i].tools = ts
    BY <1>4, <1>6 DEF Carries
  <2>4. QED
    BY <2>1, <2>2, <2>3 DEF Carries
<1>7. ASSUME NEW ts, Carries(s, ts), Carries(t, <<>>)
      PROVE  Carries(u, ts)
  <2>1. ASSUME NEW k \in 1 .. Len(u)
        PROVE  \/ u[k].tools = <<>>
               \/ k \in 1 .. Len(s) /\ u[k].tools = ts /\ s[k].tools = ts
    <3>1. CASE k \in 1 .. Len(s) /\ u[k] = s[k]
      BY <3>1, <1>7 DEF Carries
    <3>2. CASE k - Len(s) \in 1 .. Len(t) /\ u[k] = t[k - Len(s)]
      BY <3>2, <1>7 DEF Carries
    <3>3. QED
      BY <1>5, <3>1, <3>2
  <2>2. \A i, j \in 1 .. Len(u) : u[i].tools # <<>> /\ u[j].tools # <<>> => i = j
    BY <2>1, <1>7 DEF Carries
  <2>3. ts # <<>> => \E i \in 1 .. Len(u) : u[i].tools = ts
    BY <1>3, <1>7 DEF Carries
  <2>4. QED
    BY <2>1, <2>2, <2>3 DEF Carries
<1>8. ASSUME NEW x, Words(s, 0), Words(t, x)
      PROVE  Words(u, x)
  <2>1. ASSUME NEW i \in 1 .. Len(s) PROVE s[i].text = 0
    <3>1. s # <<>> /\ (i < Len(s) \/ i = Len(s))
      BY <1>1, <1>2
    <3>2. QED
      BY <3>1, <1>8 DEF Words, Silence
  <2>2. ASSUME NEW k \in 1 .. Len(u), k < Len(u)
        PROVE  u[k].text = Silence
    <3>1. CASE k \in 1 .. Len(s) /\ u[k] = s[k]
      BY <2>1, <3>1 DEF Silence
    <3>2. CASE k - Len(s) \in 1 .. Len(t) /\ u[k] = t[k - Len(s)]
      <4>1. k - Len(s) < Len(t)
        BY <1>1, <2>2
      <4>2. QED
        BY <1>8, <3>2, <4>1 DEF Words
    <3>3. QED
      BY <1>5, <3>1, <3>2
  <2>3. CASE t = <<>>
    <3>1. x = Silence /\ Len(u) = Len(s)
      BY <1>1, <1>2, <1>8, <2>3 DEF Words
    <3>2. u # <<>> => Len(u) \in 1 .. Len(s)
      BY <1>1, <1>2, <3>1
    <3>3. u # <<>> => u[Len(u)].text = x
      BY <3>1, <3>2, <2>1, <1>3 DEF Silence
    <3>4. QED
      BY <2>2, <3>1, <3>3 DEF Words
  <2>4. CASE t # <<>>
    <3>1. Len(t) \in 1 .. Len(t) /\ Len(s) + Len(t) = Len(u) /\ u # <<>>
      BY <1>1, <1>2, <2>4
    <3>2. u[Len(u)] = t[Len(t)]
      BY <1>4, <3>1
    <3>3. QED
      BY <1>8, <2>2, <2>4, <3>1, <3>2 DEF Words
  <2>5. QED
    BY <2>3, <2>4
<1>9. Metered(s) /\ Metered(t) => Metered(u)
  BY <1>5 DEF Metered
<1>10. t # <<>> => u # <<>> /\ u[Len(u)] = t[Len(t)]
  <2> SUFFICES ASSUME t # <<>> PROVE u # <<>> /\ u[Len(u)] = t[Len(t)]
    OBVIOUS
  <2>1. Len(t) \in 1 .. Len(t) /\ Len(s) + Len(t) = Len(u) /\ u # <<>>
    BY <1>1, <1>2
  <2>2. QED
    BY <1>4, <2>1
<1>11. s # <<>> => u # <<>> /\ u[1] = s[1]
  <2> SUFFICES ASSUME s # <<>> PROVE u # <<>> /\ u[1] = s[1]
    OBVIOUS
  <2>1. 1 \in 1 .. Len(s) /\ u # <<>>
    BY <1>1, <1>2
  <2>2. QED
    BY <1>3, <2>1
<1>12. QED
  BY <1>1, <1>6, <1>7, <1>8, <1>9, <1>10, <1>11 DEF u

-----------------------------------------------------------------------------
(* What an adapter makes of an event, wire by wire.                         *)

\* The event tells usage ahead of the end.
Tells(e) ==
    \/ streamed = "gemini" /\ e.usage # NoUsage
    \/ streamed = "anthropic" /\ e.kind = "head"

\* The calls ts and the text of the event go out, and its usage at the end; usage told
\* ahead of that goes out first.
Passes(e, out, ts) ==
    /\ out \in Seq(ChunkSet)
    /\ Carries(out, ts)
    /\ Words(out, IF e.kind = "text" THEN e.token ELSE Silence)
    /\ e.kind = "end" /\ e.usage # NoUsage =>
         /\ out # <<>> /\ out[Len(out)].usage = e.usage
         /\ streamed # "gemini" => out[Len(out)].finish = Finish(e.reason)

\* Usage told ahead of the end is remembered, and what is told is not nothing.
Meters(a, e, r) ==
    /\ r.adapter.surfaced = (a.surfaced \/ Tells(e))
    /\ Tells(e) /\ ~a.surfaced =>
         r.chunks # <<>> /\ r.chunks[1].usage = e.usage /\ ~r.chunks[1].done
    /\ /\ streamed \in {"gemini", "anthropic"}
       /\ e.usage = NoUsage \/ e.usage >= 1
       /\ e.kind \in {"head", "end"} => e.usage >= 1
       /\ streamed = "gemini" /\ e.kind \in {"cut", "args", "stop"} => a.surfaced
       /\ streamed = "gemini" /\ a.surfaced => a.usage >= 1
       => /\ Metered(r.chunks)
          /\ streamed = "gemini" /\ r.adapter.surfaced => r.adapter.usage >= 1

Heard(a, e, r, ts) ==
    r.adapter \in AdapterSet /\ Passes(e, r.chunks, ts) /\ Meters(a, e, r)

\* A reason of the provider is one of a chunk.
LEMMA FinishTyped ==
    ASSUME NEW e \in EventSet
    PROVE  /\ e.kind = "end" /\ e.reason \in Reasons => Finish(e.reason) \in Finishes
           /\ Finish(e.reason) \in Finishes
BY DEF EventSet, Reasons, Finish, Finishes

\* An event that nothing is made of.
LEMMA HeardNothing ==
    ASSUME NEW a \in AdapterSet, NEW b \in AdapterSet, NEW e \in EventSet,
           b.surfaced = a.surfaced, ~Tells(e), streamed # "gemini",
           e.kind \notin {"text", "end"}
    PROVE  Heard(a, e, Yields(b, <<>>), <<>>)
<1>1. Passes(e, <<>>, <<>>)
  BY NoChunk DEF Passes, Silence
<1>2. Meters(a, e, Yields(b, <<>>))
  <2>1. b.surfaced = (a.surfaced \/ Tells(e))
    BY DEF AdapterSet
  <2>2. QED
    BY NoChunk, <2>1 DEF Meters, Yields
<1>3. QED
  BY <1>1, <1>2 DEF Heard, Yields

\* An event that one chunk is made of.
LEMMA HeardOne ==
    ASSUME NEW a \in AdapterSet, NEW b \in AdapterSet, NEW e \in EventSet, NEW c \in ChunkSet,
           b.surfaced = (a.surfaced \/ Tells(e)), streamed # "gemini",
           c.text = (IF e.kind = "text" THEN e.token ELSE Silence),
           e.kind = "end" => c.usage = e.usage /\ c.finish = Finish(e.reason),
           Tells(e) => c.usage = e.usage /\ ~c.done,
           streamed = "anthropic" /\ ~Tells(e) /\ e.kind # "end" => c.usage = NoUsage
    PROVE  Heard(a, e, Yields(b, <<c>>), c.tools)
<1>1. Passes(e, <<c>>, c.tools)
  BY OneChunk DEF Passes
<1>2. Meters(a, e, Yields(b, <<c>>))
  BY OneChunk DEF Meters, Yields, Tells
<1>3. QED
  BY <1>1, <1>2 DEF Heard, Yields

\* The Responses API (adapters/openai.py).
LEMMA ResponsesHeard ==
    ASSUME NEW a \in AdapterSet, NEW e \in EventSet, streamed = "responses"
    PROVE  Heard(a, e, OnResponses(a, e),
                 IF e.kind = "stop" THEN <<Tool(IF e.tool \in a.calls THEN e.tool ELSE 0, e.args)>>
                 ELSE <<>>)
<1>1. /\ ~Tells(e) /\ e.token \in Nat /\ e.tool \in Nat /\ e.args \in Nat /\ e.usage \in Int
      /\ e.kind \in Kinds /\ a.surfaced = (a.surfaced \/ Tells(e)) /\ Finish(e.reason) \in Finishes
  BY FinishTyped DEF Tells, EventSet, AdapterSet
<1>2. CASE e.kind = "text"
  <2> DEFINE c == TextChunk(e.token)
  <2>1. OnResponses(a, e) = Yields(a, <<c>>)
    BY <1>2 DEF OnResponses
  <2>2. c \in ChunkSet /\ c.text = e.token /\ c.tools = <<>> /\ c.usage = NoUsage
    BY <1>1, ChunksTyped
  <2> HIDE DEF c
  <2>3. Heard(a, e, Yields(a, <<c>>), c.tools)
    BY <1>1, <1>2, <2>2, HeardOne
  <2>4. QED
    BY <1>2, <2>1, <2>2, <2>3
<1>3. CASE e.kind \in {"think", "head"}
  <2> DEFINE c == IF e.kind = "think" THEN ThinkChunk(e.token) ELSE Chunk
  <2>1. OnResponses(a, e) = Yields(a, <<c>>)
    BY <1>3 DEF OnResponses
  <2>2. c \in ChunkSet /\ c.text = 0 /\ c.tools = <<>> /\ c.usage = NoUsage
    BY <1>1, ChunksTyped
  <2> HIDE DEF c
  <2>3. Heard(a, e, Yields(a, <<c>>), c.tools)
    BY <1>1, <1>3, <2>2, HeardOne DEF Silence
  <2>4. QED
    BY <1>3, <2>1, <2>2, <2>3
<1>4. CASE e.kind = "stop"
  <2> DEFINE ts == <<Tool(IF e.tool \in a.calls THEN e.tool ELSE 0, e.args)>>
             c == ToolChunk(ts)
  <2>1. OnResponses(a, e) = Yields(a, <<c>>)
    BY <1>4 DEF OnResponses
  <2>2. ts \in Seq(Calls)
    BY <1>1 DEF Calls, Tool
  <2> HIDE DEF ts
  <2>3. c \in ChunkSet /\ c.text = 0 /\ c.tools = ts /\ c.usage = NoUsage
    BY <2>2, ChunksTyped
  <2> HIDE DEF c
  <2>4. Heard(a, e, Yields(a, <<c>>), c.tools)
    BY <1>1, <1>4, <2>3, HeardOne DEF Silence
  <2>5. QED
    BY <1>4, <2>1, <2>3, <2>4 DEF ts
<1>5. CASE e.kind = "end"
  <2> DEFINE c == LastChunk(e.usage, Finish(e.reason))
  <2>1. OnResponses(a, e) = Yields(a, <<c>>)
    BY <1>5 DEF OnResponses
  <2>2. /\ c \in ChunkSet /\ c.text = 0 /\ c.tools = <<>> /\ c.usage = e.usage
        /\ c.finish = Finish(e.reason)
    BY <1>1, ChunksTyped
  <2> HIDE DEF c
  <2>3. Heard(a, e, Yields(a, <<c>>), c.tools)
    BY <1>1, <1>5, <2>2, HeardOne DEF Silence
  <2>4. QED
    BY <1>5, <2>1, <2>2, <2>3
<1>6. CASE e.kind \in {"call", "args", "cut"}
  <2>1. PICK b \in AdapterSet : OnResponses(a, e) = Yields(b, <<>>) /\ b.surfaced = a.surfaced
    BY <1>1, <1>6 DEF OnResponses, AdapterSet
  <2>2. QED
    BY <1>1, <1>6, <2>1, HeardNothing
<1>7. QED
  BY <1>1, <1>2, <1>3, <1>4, <1>5, <1>6 DEF Kinds

\* Anthropic (adapters/anthropic.py).
LEMMA AnthropicHeard ==
    ASSUME NEW a \in AdapterSet, NEW e \in EventSet, streamed = "anthropic"
    PROVE  Heard(a, e, OnAnthropic(a, e),
                 IF e.kind = "stop" THEN <<Tool(a.current, a.input)>> ELSE <<>>)
<1>1. /\ Tells(e) = (e.kind = "head") /\ e.token \in Nat /\ e.tool \in Nat /\ e.usage \in Int
      /\ a.current \in Nat /\ a.input \in Nat /\ a.surfaced \in BOOLEAN
      /\ e.kind \in Kinds /\ Finish(e.reason) \in Finishes
  BY FinishTyped DEF Tells, EventSet, AdapterSet
<1>2. CASE e.kind = "text"
  <2> DEFINE c == TextChunk(e.token)
  <2>1. OnAnthropic(a, e) = Yields(a, <<c>>)
    BY <1>2 DEF OnAnthropic
  <2>2. c \in ChunkSet /\ c.text = e.token /\ c.tools = <<>> /\ c.usage = NoUsage
    BY <1>1, ChunksTyped
  <2> HIDE DEF c
  <2>3. Heard(a, e, Yields(a, <<c>>), c.tools)
    BY <1>1, <1>2, <2>2, HeardOne
  <2>4. QED
    BY <1>2, <2>1, <2>2, <2>3
<1>3. CASE e.kind = "head"
  <2> DEFINE c == UsageChunk(e.usage)
             b == [a EXCEPT !.surfaced = TRUE]
  <2>1. OnAnthropic(a, e) = Yields(b, <<c>>)
    BY <1>3 DEF OnAnthropic
  <2>2. c \in ChunkSet /\ c.text = 0 /\ c.tools = <<>> /\ c.usage = e.usage /\ ~c.done
    BY <1>1, ChunksTyped
  <2>3. b \in AdapterSet /\ b.surfaced = TRUE
    BY DEF AdapterSet
  <2> HIDE DEF c, b
  <2>4. Heard(a, e, Yields(b, <<c>>), c.tools)
    BY <1>1, <1>3, <2>2, <2>3, HeardOne DEF Silence
  <2>5. QED
    BY <1>3, <2>1, <2>2, <2>4
<1>4. CASE e.kind = "stop"
  <2> DEFINE ts == <<Tool(a.current, a.input)>>
             c == ToolChunk(ts)
             b == [a EXCEPT !.current = 0, !.input = 0]
  <2>1. OnAnthropic(a, e) = Yields(b, <<c>>)
    BY <1>4 DEF OnAnthropic
  <2>2. ts \in Seq(Calls)
    BY <1>1 DEF Calls, Tool
  <2>3. b \in AdapterSet /\ b.surfaced = a.surfaced
    BY DEF AdapterSet
  <2> HIDE DEF ts
  <2>4. c \in ChunkSet /\ c.text = 0 /\ c.tools = ts /\ c.usage = NoUsage
    BY <2>2, ChunksTyped
  <2> HIDE DEF c, b
  <2>5. Heard(a, e, Yields(b, <<c>>), c.tools)
    BY <1>1, <1>4, <2>3, <2>4, HeardOne DEF Silence
  <2>6. QED
    BY <1>4, <2>1, <2>4, <2>5 DEF ts
<1>5. CASE e.kind = "end"
  <2> DEFINE c == LastChunk(e.usage, Finish(e.reason))
  <2>1. OnAnthropic(a, e) = Yields(a, <<c>>)
    BY <1>5 DEF OnAnthropic
  <2>2. /\ c \in ChunkSet /\ c.text = 0 /\ c.tools = <<>> /\ c.usage = e.usage
        /\ c.finish = Finish(e.reason)
    BY <1>1, ChunksTyped
  <2> HIDE DEF c
  <2>3. Heard(a, e, Yields(a, <<c>>), c.tools)
    BY <1>1, <1>5, <2>2, HeardOne DEF Silence
  <2>4. QED
    BY <1>5, <2>1, <2>2, <2>3
<1>6. CASE e.kind \in {"think", "call", "args", "cut"}
  <2> DEFINE b == IF e.kind = "call" THEN [a EXCEPT !.current = e.tool, !.input = 0]
                  ELSE IF e.kind = "args" THEN [a EXCEPT !.input = @ + 1] ELSE a
  <2>1. OnAnthropic(a, e) = Yields(b, <<>>)
    BY <1>6 DEF OnAnthropic
  <2>2. b \in AdapterSet /\ b.surfaced = a.surfaced
    <3>1. [a EXCEPT !.current = e.tool, !.input = 0] \in AdapterSet
      BY <1>1 DEF AdapterSet
    <3>2. [a EXCEPT !.input = @ + 1] \in AdapterSet
      BY <1>1 DEF AdapterSet
    <3>3. QED
      BY <3>1, <3>2 DEF AdapterSet
  <2> HIDE DEF b
  <2>3. QED
    BY <1>1, <1>6, <2>1, <2>2, HeardNothing
<1>7. QED
  BY <1>1, <1>2, <1>3, <1>4, <1>5, <1>6 DEF Kinds

\* The calls gathered by index stay calls.
LEMMA PendingTyped ==
    ASSUME NEW a \in AdapterSet, NEW i \in Nat
    PROVE  /\ [a EXCEPT !.pending = Append(@, Tool(i, 0))] \in AdapterSet
           /\ [a EXCEPT !.pending[i].args = @ + 1] \in AdapterSet
           /\ \A j, k \in Nat : [a EXCEPT !.pending = Append(@, Tool(j, k))] \in AdapterSet
<1>1. a.pending \in Seq(Calls)
  BY DEF AdapterSet
<1>2. ASSUME NEW j \in Nat, NEW k \in Nat
      PROVE  [a EXCEPT !.pending = Append(@, Tool(j, k))] \in AdapterSet
  <2>1. Append(a.pending, Tool(j, k)) \in Seq(Calls)
    BY <1>1 DEF Calls, Tool
  <2>2. QED
    BY <2>1 DEF AdapterSet
<1>3. [a EXCEPT !.pending[i].args = @ + 1] \in AdapterSet
  <2> DEFINE c == [a.pending[i] EXCEPT !.args = @ + 1]
             ts == [a.pending EXCEPT ![i] = c]
  <2>1. CASE i \in 1 .. Len(a.pending)
    <3>1. a.pending[i] \in Calls
      BY <1>1, <2>1, ElementOfSeq
    <3>2. c \in Calls
      BY <3>1 DEF Calls
    <3> HIDE DEF c
    <3>3. ts \in Seq(Calls)
      BY <1>1, <2>1, <3>2, ExceptSeq
    <3>4. QED
      BY <3>3 DEF AdapterSet, c
  <2>2. CASE i \notin 1 .. Len(a.pending)
    <3>1. a.pending \in [1 .. Len(a.pending) -> Calls]
      BY <1>1, LenProperties
    <3>2. ts = a.pending
      BY <2>2, <3>1
    <3> HIDE DEF ts
    <3>3. [a EXCEPT !.pending = ts] \in AdapterSet
      BY <1>1, <3>2 DEF AdapterSet
    <3>4. QED
      BY <3>3 DEF ts
  <2>3. QED
    BY <2>1, <2>2
<1>4. QED
  BY <1>2, <1>3

\* Chat completions (adapters/openai.py).
LEMMA CompletionsHeard ==
    ASSUME NEW a \in AdapterSet, NEW e \in EventSet, streamed = "completions"
    PROVE  Heard(a, e, OnCompletions(a, e),
                 IF e.kind \in {"end", "cut"} THEN a.pending ELSE <<>>)
<1>1. /\ ~Tells(e) /\ e.token \in Nat /\ e.tool \in Nat /\ e.usage \in Int
      /\ a.pending \in Seq(Calls) /\ a.surfaced = (a.surfaced \/ Tells(e))
      /\ e.kind \in Kinds /\ Finish(e.reason) \in Finishes
  BY FinishTyped DEF Tells, EventSet, AdapterSet
<1>2. CASE e.kind = "text"
  <2> DEFINE c == TextChunk(e.token)
  <2>1. OnCompletions(a, e) = Yields(a, <<c>>)
    BY <1>2 DEF OnCompletions
  <2>2. c \in ChunkSet /\ c.text = e.token /\ c.tools = <<>> /\ c.usage = NoUsage
    BY <1>1, ChunksTyped
  <2> HIDE DEF c
  <2>3. Heard(a, e, Yields(a, <<c>>), c.tools)
    BY <1>1, <1>2, <2>2, HeardOne
  <2>4. QED
    BY <1>2, <2>1, <2>2, <2>3
<1>3. CASE e.kind \in {"end", "cut"}
  <2> DEFINE u == IF e.kind = "end" THEN e.usage ELSE 0
             f == IF e.kind = "end" THEN Finish(e.reason) ELSE "stop"
             c == [LastChunk(u, f) EXCEPT !.tools = a.pending]
  <2>1. OnCompletions(a, e) = Yields(a, <<c>>)
    BY <1>3 DEF OnCompletions, CompletionsLast
  <2>2. u \in Int /\ f \in Finishes
    BY <1>1 DEF Finishes
  <2>3. e.kind = "end" => u = e.usage /\ f = Finish(e.reason)
    OBVIOUS
  <2> HIDE DEF u, f
  <2>4. /\ c \in ChunkSet /\ c.text = 0 /\ c.tools = a.pending /\ c.usage = u
        /\ c.finish = f
    BY <1>1, <2>2, ChunksTyped
  <2> HIDE DEF c
  <2>5. Heard(a, e, Yields(a, <<c>>), c.tools)
    BY <1>1, <1>3, <2>3, <2>4, HeardOne DEF Silence
  <2>6. QED
    BY <1>3, <2>1, <2>4, <2>5
<1>4. CASE e.kind \in {"think", "head", "call", "args", "stop"}
  <2> DEFINE b == IF e.kind = "call" THEN [a EXCEPT !.pending = Append(@, Tool(e.tool, 0))]
                  ELSE IF e.kind = "args" THEN [a EXCEPT !.pending[e.tool].args = @ + 1] ELSE a
  <2>1. OnCompletions(a, e) = Yields(b, <<>>)
    BY <1>4 DEF OnCompletions
  <2>2. b \in AdapterSet /\ b.surfaced = a.surfaced
    <3>1. /\ [a EXCEPT !.pending = Append(@, Tool(e.tool, 0))] \in AdapterSet
          /\ [a EXCEPT !.pending[e.tool].args = @ + 1] \in AdapterSet
      BY <1>1, PendingTyped
    <3>2. QED
      BY <3>1 DEF AdapterSet
  <2> HIDE DEF b
  <2>3. QED
    BY <1>1, <1>4, <2>1, <2>2, HeardNothing
<1>5. QED
  BY <1>1, <1>2, <1>3, <1>4 DEF Kinds

\* The calls gathered during the answer, and its last chunk.
LEMMA GatheredLast ==
    ASSUME NEW ts \in Seq(Calls), NEW u \in Int, NEW f \in Finishes
    PROVE  LET out == (IF ts # <<>> THEN <<ToolChunk(ts)>> ELSE <<>>) \o <<LastChunk(u, f)>> IN
           /\ out \in Seq(ChunkSet) /\ Carries(out, ts) /\ Words(out, 0) /\ out # <<>>
           /\ out[Len(out)].usage = u /\ out[Len(out)].finish = f
           /\ u = NoUsage \/ u >= 1 => Metered(out)
<1> DEFINE c == LastChunk(u, f)
           d == ToolChunk(ts)
           s == IF ts # <<>> THEN <<d>> ELSE <<>>
           t == <<c>>
<1>1. c \in ChunkSet /\ c.text = 0 /\ c.tools = <<>> /\ c.usage = u /\ c.finish = f
  BY ChunksTyped
<1>2. d \in ChunkSet /\ d.text = 0 /\ d.tools = ts /\ d.usage = NoUsage
  BY ChunksTyped
<1> HIDE DEF c, d
<1>3. /\ t \in Seq(ChunkSet) /\ t # <<>> /\ Carries(t, <<>>) /\ Words(t, 0)
      /\ u = NoUsage \/ u >= 1 => Metered(t)
      /\ t[Len(t)] = c
  BY <1>1, OneChunk
<1>4. s \in Seq(ChunkSet) /\ Carries(s, ts) /\ Words(s, 0) /\ Metered(s)
  <2>1. /\ <<d>> \in Seq(ChunkSet) /\ Carries(<<d>>, ts) /\ Words(<<d>>, 0) /\ Metered(<<d>>)
    BY <1>2, OneChunk
  <2>2. QED
    BY <2>1, NoChunk
<1> HIDE DEF s, t
<1>5. /\ s \o t \in Seq(ChunkSet) /\ Carries(s \o t, ts) /\ Words(s \o t, 0) /\ s \o t # <<>>
      /\ (s \o t)[Len(s \o t)] = c
      /\ u = NoUsage \/ u >= 1 => Metered(s \o t)
  BY <1>3, <1>4, Joined
<1>6. QED
  BY <1>1, <1>5 DEF s, t, c, d

\* Bedrock's Converse (adapters/bedrock.py).
LEMMA ConverseHeard ==
    ASSUME NEW a \in AdapterSet, NEW e \in EventSet, streamed = "converse"
    PROVE  Heard(a, e, OnConverse(a, e), IF e.kind \in {"end", "cut"} THEN a.pending ELSE <<>>)
<1>1. /\ ~Tells(e) /\ e.token \in Nat /\ e.tool \in Nat /\ e.usage \in Int
      /\ a.pending \in Seq(Calls) /\ a.surfaced = (a.surfaced \/ Tells(e))
      /\ a.current \in Nat /\ a.input \in Nat
      /\ e.kind \in Kinds /\ Finish(e.reason) \in Finishes
  BY FinishTyped DEF Tells, EventSet, AdapterSet
<1>2. CASE e.kind = "text"
  <2> DEFINE c == TextChunk(e.token)
  <2>1. OnConverse(a, e) = Yields(a, <<c>>)
    BY <1>2 DEF OnConverse
  <2>2. c \in ChunkSet /\ c.text = e.token /\ c.tools = <<>> /\ c.usage = NoUsage
    BY <1>1, ChunksTyped
  <2> HIDE DEF c
  <2>3. Heard(a, e, Yields(a, <<c>>), c.tools)
    BY <1>1, <1>2, <2>2, HeardOne
  <2>4. QED
    BY <1>2, <2>1, <2>2, <2>3
<1>3. CASE e.kind \in {"end", "cut"}
  <2> DEFINE u == IF e.kind = "end" THEN e.usage ELSE 0
             f == IF e.kind = "end" THEN Finish(e.reason) ELSE "stop"
             ts == a.pending
             out == (IF ts # <<>> THEN <<ToolChunk(ts)>> ELSE <<>>) \o <<LastChunk(u, f)>>
  <2>1. OnConverse(a, e) = Yields(a, out)
    BY <1>3 DEF OnConverse, ConverseLast
  <2>2. u \in Int /\ f \in Finishes
    BY <1>1 DEF Finishes
  <2>3. e.kind = "end" => u = e.usage /\ f = Finish(e.reason)
    OBVIOUS
  <2> HIDE DEF u, f
  <2>4. /\ out \in Seq(ChunkSet) /\ Carries(out, ts) /\ Words(out, 0) /\ out # <<>>
        /\ out[Len(out)].usage = u /\ out[Len(out)].finish = f
    BY <1>1, <2>2, GatheredLast
  <2> HIDE DEF out
  <2>5. Passes(e, out, ts)
    BY <1>3, <2>3, <2>4 DEF Passes, Silence
  <2>6. Meters(a, e, Yields(a, out))
    BY <1>1 DEF Meters, Yields
  <2>7. QED
    BY <1>3, <2>1, <2>5, <2>6 DEF Heard, Yields
<1>4. CASE e.kind \in {"think", "head", "call", "args", "stop"}
  <2> DEFINE b == IF e.kind = "call" THEN [a EXCEPT !.current = e.tool, !.input = 0]
                  ELSE IF e.kind = "args" THEN [a EXCEPT !.input = @ + 1]
                  ELSE IF e.kind = "stop"
                    THEN [a EXCEPT !.pending = Append(@, Tool(a.current, a.input)),
                                   !.current = 0, !.input = 0]
                  ELSE a
  <2>1. OnConverse(a, e) = Yields(b, <<>>)
    BY <1>4 DEF OnConverse
  <2>2. b \in AdapterSet /\ b.surfaced = a.surfaced
    <3>1. [a EXCEPT !.current = e.tool, !.input = 0] \in AdapterSet
      BY <1>1 DEF AdapterSet
    <3>2. [a EXCEPT !.input = @ + 1] \in AdapterSet
      <4>1. a.input + 1 \in Nat
        BY <1>1 DEF AdapterSet
      <4>2. QED
        BY <1>1, <4>1 DEF AdapterSet
    <3>3. Append(a.pending, Tool(a.current, a.input)) \in Seq(Calls)
      BY <1>1 DEF Calls, Tool
    <3>4. [a EXCEPT !.pending = Append(@, Tool(a.current, a.input)), !.current = 0, !.input = 0]
            \in AdapterSet
      BY <3>3 DEF AdapterSet
    <3>5. QED
      BY <3>1, <3>2, <3>4 DEF AdapterSet
  <2> HIDE DEF b
  <2>3. QED
    BY <1>1, <1>4, <2>1, <2>2, HeardNothing
<1>5. QED
  BY <1>1, <1>2, <1>3, <1>4 DEF Kinds

\* Gemini's calls come whole; whatever is neither text nor thought nor call ends the answer.
LEMMA GeminiHeard ==
    ASSUME NEW a \in AdapterSet, NEW e \in EventSet, streamed = "gemini"
    PROVE  Heard(a, e, OnGemini(a, e),
                 IF e.kind \in {"text", "think", "call"} THEN <<>> ELSE a.pending)
<1> DEFINE metered == IF e.usage = NoUsage THEN a
                      ELSE [a EXCEPT !.surfaced = TRUE, !.usage = e.usage]
           first == IF e.usage # NoUsage /\ ~a.surfaced THEN <<UsageChunk(e.usage)>> ELSE <<>>
           b == IF e.kind = "call"
                  THEN [metered EXCEPT !.pending = Append(@, Tool(Len(@) + 1, 1))]
                  ELSE metered
           ts == IF e.kind \in {"text", "think", "call"} THEN <<>> ELSE a.pending
           x == IF e.kind = "text" THEN e.token ELSE Silence
           body == CASE e.kind = "text" -> <<TextChunk(e.token)>>
                     [] e.kind = "think" -> <<ThinkChunk(e.token)>>
                     [] e.kind = "call" -> <<>>
                     [] OTHER -> GeminiLast(metered)
<1>1. /\ Tells(e) = (e.usage # NoUsage) /\ e.token \in Nat /\ e.usage \in Int
      /\ a.pending \in Seq(Calls) /\ a.surfaced \in BOOLEAN /\ e.kind \in Kinds /\ a.usage \in Int
  BY DEF Tells, EventSet, AdapterSet
<1>2. /\ metered \in AdapterSet /\ metered.surfaced = (a.surfaced \/ Tells(e))
      /\ metered.pending = a.pending
      /\ metered.usage = IF e.usage = NoUsage THEN a.usage ELSE e.usage
  BY <1>1 DEF AdapterSet
<1>3. /\ b \in AdapterSet /\ b.surfaced = metered.surfaced /\ b.usage = metered.usage
  <2>1. Len(a.pending) + 1 \in Nat
    BY <1>1, LenProperties
  <2>2. Append(a.pending, Tool(Len(a.pending) + 1, 1)) \in Seq(Calls)
    BY <1>1, <2>1 DEF Calls, Tool
  <2>3. CASE e.kind = "call"
    BY <1>2, <2>2, <2>3 DEF AdapterSet
  <2>4. CASE e.kind # "call"
    BY <1>2, <2>4
  <2>5. QED
    BY <2>3, <2>4
<1>4. /\ first \in Seq(ChunkSet) /\ Carries(first, <<>>) /\ Words(first, 0)
      /\ e.usage = NoUsage \/ e.usage >= 1 => Metered(first)
      /\ Tells(e) /\ ~a.surfaced => first # <<>> /\ first[1].usage = e.usage /\ ~first[1].done
  <2> DEFINE c == UsageChunk(e.usage)
  <2>1. c \in ChunkSet /\ c.text = 0 /\ c.tools = <<>> /\ c.usage = e.usage /\ ~c.done
    BY <1>1, ChunksTyped
  <2> HIDE DEF c
  <2>2. /\ <<c>> \in Seq(ChunkSet) /\ Carries(<<c>>, <<>>) /\ Words(<<c>>, 0) /\ <<c>> # <<>>
        /\ e.usage = NoUsage \/ e.usage >= 1 => Metered(<<c>>)
        /\ <<c>>[1] = c
    BY <2>1, OneChunk
  <2>3. CASE e.usage # NoUsage /\ ~a.surfaced
    <3>1. first = <<c>>
      BY <2>3 DEF c
    <3>2. QED
      BY <2>1, <2>2, <3>1
  <2>4. CASE ~(e.usage # NoUsage /\ ~a.surfaced)
    <3>1. first = <<>>
      BY <2>4
    <3>2. QED
      BY <1>1, <2>4, <3>1, NoChunk
  <2>5. QED
    BY <2>3, <2>4
<1>5. /\ body \in Seq(ChunkSet) /\ Carries(body, ts) /\ Words(body, x)
      /\ e.kind \in {"text", "think", "call"} => Metered(body)
      /\ e.kind \notin {"text", "think", "call"} =>
           /\ body # <<>> /\ body[Len(body)].usage = metered.usage
           /\ metered.usage = NoUsage \/ metered.usage >= 1 => Metered(body)
  <2> HIDE DEF metered
  <2>1. CASE e.kind = "text"
    <3> DEFINE c == TextChunk(e.token)
    <3>1. c \in ChunkSet /\ c.text = e.token /\ c.tools = <<>> /\ c.usage = NoUsage
      BY <1>1, ChunksTyped
    <3> HIDE DEF c
    <3>2. body = <<c>> /\ ts = <<>> /\ x = e.token
      BY <2>1 DEF c
    <3>3. QED
      BY <2>1, <3>1, <3>2, OneChunk
  <2>2. CASE e.kind = "think"
    <3> DEFINE c == ThinkChunk(e.token)
    <3>1. c \in ChunkSet /\ c.text = 0 /\ c.tools = <<>> /\ c.usage = NoUsage
      BY <1>1, ChunksTyped
    <3> HIDE DEF c
    <3>2. body = <<c>> /\ ts = <<>> /\ x = 0
      BY <2>2 DEF c, Silence
    <3>3. QED
      BY <2>2, <3>1, <3>2, OneChunk
  <2>3. CASE e.kind = "call"
    <3>1. body = <<>> /\ ts = <<>> /\ x = 0
      BY <2>3 DEF Silence
    <3>2. QED
      BY <2>3, <3>1, NoChunk
  <2>4. CASE e.kind \notin {"text", "think", "call"}
    <3> DEFINE u == metered.usage
               last == (IF a.pending # <<>> THEN <<ToolChunk(a.pending)>> ELSE <<>>)
                         \o <<LastChunk(u, "stop")>>
    <3>1. body = last
      BY <1>2, <2>4 DEF GeminiLast
    <3>2. ts = a.pending /\ x = 0
      BY <2>4 DEF Silence
    <3>3. u \in Int /\ "stop" \in Finishes
      BY <1>1, <1>2 DEF Finishes
    <3>4. /\ last \in Seq(ChunkSet) /\ Carries(last, a.pending) /\ Words(last, 0) /\ last # <<>>
          /\ last[Len(last)].usage = u
          /\ u = NoUsage \/ u >= 1 => Metered(last)
      <4> HIDE DEF u
      <4>1. QED
        BY <1>1, <3>3, GatheredLast
    <3> HIDE DEF last, body, ts, x
    <3>5. QED
      BY <2>4, <3>1, <3>2, <3>4
  <2>5. QED
    BY <2>1, <2>2, <2>3, <2>4
<1>6. OnGemini(a, e) = Yields(b, first \o body)
  <2>1. first \in Seq(ChunkSet)
    BY <1>4
  <2> HIDE DEF metered, first
  <2>2. CASE e.kind \in {"text", "think"}
    BY <2>2 DEF OnGemini, metered, first
  <2>3. CASE e.kind = "call"
    <3>1. OnGemini(a, e) = Yields([metered EXCEPT !.pending = Append(@, Tool(Len(@) + 1, 1))], first)
      BY <2>3 DEF OnGemini, metered, first
    <3>2. first \o <<>> = first
      BY <2>1, ConcatEmptySeq
    <3>3. QED
      BY <2>3, <3>1, <3>2
  <2>4. CASE e.kind \notin {"text", "think", "call"}
    BY <2>4 DEF OnGemini, metered, first
  <2>5. QED
    BY <2>2, <2>3, <2>4
<1> DEFINE out == first \o body
<1> HIDE DEF metered, first, body, b
<1>7. /\ out \in Seq(ChunkSet) /\ Carries(out, ts) /\ Words(out, x)
      /\ Metered(first) /\ Metered(body) => Metered(out)
      /\ body # <<>> => out # <<>> /\ out[Len(out)] = body[Len(body)]
      /\ first # <<>> => out # <<>> /\ out[1] = first[1]
  <2> HIDE DEF x, ts
  <2>1. QED
    BY <1>4, <1>5, Joined
<1> HIDE DEF out
<1>8. Passes(e, out, ts)
  <2>1. e.kind = "end" /\ e.usage # NoUsage => out # <<>> /\ out[Len(out)].usage = e.usage
    BY <1>2, <1>5, <1>7
  <2>2. QED
    BY <1>7, <2>1 DEF Passes
<1>9. Meters(a, e, Yields(b, out))
  <2>1. /\ Yields(b, out).adapter = b /\ Yields(b, out).chunks = out
    BY DEF Yields
  <2>2. b.surfaced = (a.surfaced \/ Tells(e)) 
    BY <1>2, <1>3
  <2>3. Tells(e) /\ ~a.surfaced => out # <<>> /\ out[1].usage = e.usage /\ ~out[1].done
    BY <1>4, <1>7
  <2>4. ASSUME e.usage = NoUsage \/ e.usage >= 1,
               e.kind \in {"head", "end"} => e.usage >= 1,
               e.kind \in {"cut", "args", "stop"} => a.surfaced,
               a.surfaced => a.usage >= 1
        PROVE  Metered(out) /\ (b.surfaced => b.usage >= 1)
    <3>1. e.kind \notin {"text", "think", "call"} => metered.usage >= 1
      <4>1. e.kind \notin {"text", "think", "call"} =>
              e.kind \in {"head", "end"} \/ e.kind \in {"cut", "args", "stop"}
        BY <1>1 DEF Kinds
      <4>2. QED
        BY <4>1, <1>1, <1>2, <2>4 DEF NoUsage
    <3>2. Metered(first) /\ Metered(body)
      BY <1>4, <1>5, <2>4, <3>1
    <3>3. b.surfaced => b.usage >= 1
      BY <1>1, <1>2, <1>3, <2>4 DEF NoUsage
    <3>4. QED
      BY <1>7, <3>2, <3>3
  <2>5. QED
    BY <2>1, <2>2, <2>3, <2>4 DEF Meters
<1>10. QED
  BY <1>3, <1>6, <1>8, <1>9 DEF Heard, Yields, out

\* The calls an adapter hands on with an event.
Handed(a, e) ==
    CASE streamed = "responses" ->
           IF e.kind = "stop" THEN <<Tool(IF e.tool \in a.calls THEN e.tool ELSE 0, e.args)>>
           ELSE <<>>
      [] streamed = "anthropic" ->
           IF e.kind = "stop" THEN <<Tool(a.current, a.input)>> ELSE <<>>
      [] streamed = "gemini" ->
           IF e.kind \in {"text", "think", "call"} THEN <<>> ELSE a.pending
      [] OTHER -> IF e.kind \in {"end", "cut"} THEN a.pending ELSE <<>>

\* Whatever the wire, an event's text, calls and usage are in the chunks made of it.
LEMMA AllHeard ==
    ASSUME NEW a \in AdapterSet, NEW e \in EventSet, streamed \in AllWires
    PROVE  Heard(a, e, OnEvent(a, e), Handed(a, e))
<1>1. CASE streamed = "responses"
  BY <1>1, ResponsesHeard DEF OnEvent, Handed
<1>2. CASE streamed = "completions"
  BY <1>2, CompletionsHeard DEF OnEvent, Handed
<1>3. CASE streamed = "gemini"
  BY <1>3, GeminiHeard DEF OnEvent, Handed
<1>4. CASE streamed = "converse"
  BY <1>4, ConverseHeard DEF OnEvent, Handed
<1>5. CASE streamed = "anthropic"
  BY <1>5, AnthropicHeard DEF OnEvent, Handed
<1>6. QED
  BY <1>1, <1>2, <1>3, <1>4, <1>5 DEF AllWires

StreamTypes ==
    /\ streamed \in AllWires /\ source \in {"unopened", "open", "over"}
    /\ said \in SaidSet /\ adapter \in AdapterSet
    /\ chunks \in Seq(ChunkSet) /\ chunk \in ChunkSet
    /\ em.usage \in Int /\ em.finish \in Finishes /\ reported \in Int
    /\ at \in {"input", "close"} => chunk.tools # <<>>

InChunk == {"think", "text", "tools", "input", "close"}

\* The last chunk has the usage the provider concluded with, the emitter takes it from
\* there, and tells it.
UsageTold ==
    /\ said.usage # NoUsage
    /\ chunks # <<>> => chunks[Len(chunks)].usage = said.usage
    /\ chunks = <<>> /\ at \in InChunk => chunk.usage = said.usage
    /\ chunks = <<>> /\ at \notin InChunk => em.usage = said.usage
    /\ at \in {"stop", "done"} => reported = em.usage

\* Usage that came ahead of the end is in the first chunk, or reported and remembered.
PromptTold ==
    \/ chunks # <<>> /\ chunks[1].usage >= 1 /\ ~chunks[1].done
    \/ reported >= 1 /\ (em.usage >= 1 \/ (at \in InChunk /\ chunk.usage >= 1))

UsageInv ==
    /\ StreamInv /\ StreamTypes
    /\ at = "begin" => source = "unopened"
    /\ source # "over" => said.reason = "none"
    /\ source = "over" /\ ended # "error" => said.reason # "none"
    /\ at \in {"stop", "done"} => source = "over" /\ chunks = <<>>
    /\ ended = "clean" => at = "done"
    /\ streamed = "gemini" => \A i \in DOMAIN said.tools : said.tools[i].closed
    /\ said.reason \in Noticed /\ ended # "error" => UsageTold
    /\ adapter.surfaced =>
         /\ streamed \in {"gemini", "anthropic"}
         /\ streamed = "gemini" => adapter.usage >= 1
         /\ ended # "error" => PromptTold
    /\ streamed \in {"gemini", "anthropic"} /\ (source # "over" \/ adapter.surfaced) =>
         Metered(chunks) /\ (chunk.usage = NoUsage \/ chunk.usage >= 1)

\* What the provider sends.
Speaks ==
    \/ SendsHead \/ SendsThought \/ SendsText \/ SendsCall \/ SendsArguments
    \/ EndsCall \/ Concludes \/ EndsIgnored \/ EndsUnsaid

\* The reasons as long as nothing that the adapter does not heed has ended the answer.
Followed == {"none"} \cup Noticed

\* What is noticed is a reason, and does not change.
LEMMA Noticing ==
    ASSUME UNCHANGED streamed
    PROVE  /\ Noticed' = Noticed /\ Followed' = Followed /\ Noticed \subseteq Reasons
           /\ "none" \notin Reasons
BY DEF Noticed, Followed, Reasons

\* An event as the wire allows it, and what the answer has become.
Fits(e, grown) ==
    /\ e \in EventSet /\ grown \in SaidSet
    /\ e.kind = "end" =>
         grown.reason = e.reason /\ e.reason \in Noticed /\ grown.usage = e.usage /\ e.usage # NoUsage
    /\ e.kind = "cut" => grown.reason \notin Followed /\ e.usage = NoUsage
    /\ e.kind \notin {"end", "cut"} => grown.reason = said.reason
    /\ streamed \in {"gemini", "anthropic"} =>
         /\ e.usage = NoUsage \/ e.usage >= 1
         /\ e.kind \in {"head", "end"} => e.usage >= 1
    /\ streamed = "gemini" =>
         e.kind \notin {"head", "args", "stop"} /\ \A i \in DOMAIN grown.tools : grown.tools[i].closed

\* What has been said of the answer after an event.
Grows(e, grown) ==
    /\ grown.text = IF e.kind = "text" THEN Append(said.text, e.token) ELSE said.text
    /\ e.kind = "text" => e.token >= 1
    /\ e.kind = "call" =>
         /\ e.tool = Len(said.tools) + 1
         /\ grown.tools = Append(said.tools,
                                 IF streamed = "gemini" THEN [args |-> 1, closed |-> TRUE]
                                 ELSE [args |-> 0, closed |-> FALSE])
    /\ e.kind = "args" =>
         e.tool \in OpenTools /\ grown.tools = [said.tools EXCEPT ![e.tool].args = @ + 1]
    /\ e.kind = "stop" =>
         /\ e.tool \in OpenTools /\ e.args = said.tools[e.tool].args
         /\ grown.tools = [said.tools EXCEPT ![e.tool].closed = TRUE]
         /\ streamed \in {"responses", "converse", "anthropic"}
    /\ e.kind \notin {"call", "args", "stop"} => grown.tools = said.tools
    /\ e.kind \in {"text", "call"} /\ streamed \in Sequential => OpenTools = {}
    /\ e.kind = "end" /\ streamed # "completions" => OpenTools = {}

\* The calls of an answer, when one is added or changes.
LEMMA ToolsGrow ==
    ASSUME NEW ts \in Seq(Progress)
    PROVE  /\ Append(ts, [args |-> 0, closed |-> FALSE]) \in Seq(Progress)
           /\ Append(ts, [args |-> 1, closed |-> TRUE]) \in Seq(Progress)
           /\ \A i \in DOMAIN ts :
                /\ i \in Nat /\ ts[i].args \in Nat
                /\ [ts EXCEPT ![i].args = @ + 1] \in Seq(Progress)
                /\ [ts EXCEPT ![i].closed = TRUE] \in Seq(Progress)
<1>1. /\ Append(ts, [args |-> 0, closed |-> FALSE]) \in Seq(Progress)
      /\ Append(ts, [args |-> 1, closed |-> TRUE]) \in Seq(Progress)
  BY DEF Progress
<1>2. ASSUME NEW i \in DOMAIN ts
      PROVE  /\ i \in Nat /\ ts[i].args \in Nat
             /\ [ts EXCEPT ![i].args = @ + 1] \in Seq(Progress)
             /\ [ts EXCEPT ![i].closed = TRUE] \in Seq(Progress)
  <2> DEFINE c == [ts[i] EXCEPT !.args = @ + 1]
             d == [ts[i] EXCEPT !.closed = TRUE]
  <2>1. i \in 1 .. Len(ts) /\ ts[i] \in Progress
    BY LenProperties, ElementOfSeq
  <2>2. c \in Progress /\ ts[i].args \in Nat
    BY <2>1 DEF Progress
  <2>3. d \in Progress
    BY <2>1 DEF Progress
  <2> HIDE DEF c, d
  <2>4. [ts EXCEPT ![i] = c] \in Seq(Progress) /\ [ts EXCEPT ![i] = d] \in Seq(Progress)
    BY <2>1, <2>2, <2>3, ExceptSeq
  <2>5. QED
    BY <2>1, <2>2, <2>4, LenProperties DEF c, d
<1>3. QED
  BY <1>1, <1>2

\* Whatever the provider sends is an event its wire allows.
LEMMA EventSpoken ==
    ASSUME UsageInv, Speaks
    PROVE  \E e, grown : Sends(e, grown) /\ Fits(e, grown) /\ Grows(e, grown)
<1> DEFINE goal == \E e, grown : Sends(e, grown) /\ Fits(e, grown) /\ Grows(e, grown)
<1>0. SUFFICES goal
  OBVIOUS
<1>1. /\ said \in SaidSet /\ said.pieces \in Nat /\ said.tools \in Seq(Progress)
      /\ said.text \in Seq(Nat) /\ said.thoughts \in Seq(Nat) /\ Len(said.tools) \in Nat
      /\ streamed = "gemini" => \A i \in DOMAIN said.tools : said.tools[i].closed
      /\ streamed = "gemini" => OpenTools = {}
      /\ Used >= 1 /\ Used \in Int /\ Token >= 1 /\ Token \in Nat /\ NoUsage \in Int
      /\ \A u \in Meta : u \in Int /\ (u = NoUsage \/ u >= 1)
  <2>1. said \in SaidSet /\ (streamed = "gemini" => \A i \in DOMAIN said.tools : said.tools[i].closed)
    BY DEF UsageInv, StreamTypes
  <2>2. /\ said.pieces \in Nat /\ said.tools \in Seq(Progress)
        /\ said.text \in Seq(Nat) /\ said.thoughts \in Seq(Nat)
    BY <2>1 DEF SaidSet
  <2>3. Used >= 1 /\ Used \in Int /\ Token >= 1 /\ Token \in Nat /\ NoUsage \in Int
    BY <2>2 DEF Used, Token, Pieces, NoUsage
  <2>4. \A u \in Meta : u \in Int /\ (u = NoUsage \/ u >= 1)
    BY <2>3 DEF Meta
  <2>5. Len(said.tools) \in Nat
    BY <2>2, LenProperties
  <2>6. QED
    BY <2>1, <2>2, <2>3, <2>4, <2>5 DEF OpenTools
<1>2. CASE SendsHead
  <2> DEFINE e == [Event("head") EXCEPT !.usage = 1]
  <2>1. Sends(e, said) /\ source = "open" /\ streamed # "gemini"
    BY <1>2 DEF SendsHead, Sends, Requested
  <2>2. e \in EventSet /\ e.kind = "head" /\ e.usage = 1
    BY DEF Event, EventSet, Kinds, NoUsage, Silence
  <2> HIDE DEF e
  <2>3. Fits(e, said) /\ Grows(e, said)
    BY <1>1, <2>1, <2>2 DEF Fits, Grows
  <2>4. QED
    BY <2>1, <2>3
<1>3. CASE SendsThought
  <2>1. PICK usage \in Meta :
          Sends([Event("think") EXCEPT !.token = Token, !.usage = usage],
                [said EXCEPT !.thoughts = Append(@, Token), !.pieces = @ + 1])
    BY <1>3 DEF SendsThought
  <2> DEFINE e == [Event("think") EXCEPT !.token = Token, !.usage = usage]
             grown == [said EXCEPT !.thoughts = Append(@, Token), !.pieces = @ + 1]
  <2>2. e \in EventSet /\ e.kind = "think" /\ e.usage = usage
    BY <1>1 DEF Event, EventSet, Kinds, NoUsage, Silence
  <2>3. /\ grown \in SaidSet /\ grown.text = said.text /\ grown.tools = said.tools
        /\ grown.reason = said.reason
    <3>1. Append(said.thoughts, Token) \in Seq(Nat) /\ said.pieces + 1 \in Nat
      BY <1>1
    <3>2. QED
      BY <1>1, <3>1 DEF SaidSet
  <2> HIDE DEF e, grown
  <2>4. Fits(e, grown) /\ Grows(e, grown)
    BY <1>1, <2>2, <2>3 DEF Fits, Grows
  <2>5. QED
    BY <2>1, <2>4 DEF e, grown
<1>4. CASE SendsText
  <2>1. PICK usage \in Meta :
          Sends([Event("text") EXCEPT !.token = Token, !.usage = usage],
                [said EXCEPT !.text = Append(@, Token), !.pieces = @ + 1])
    BY <1>4 DEF SendsText
  <2> DEFINE e == [Event("text") EXCEPT !.token = Token, !.usage = usage]
             grown == [said EXCEPT !.text = Append(@, Token), !.pieces = @ + 1]
  <2>2. e \in EventSet /\ e.kind = "text" /\ e.usage = usage /\ e.token = Token
    BY <1>1 DEF Event, EventSet, Kinds, NoUsage, Silence
  <2>3. /\ grown \in SaidSet /\ grown.text = Append(said.text, Token) /\ grown.tools = said.tools
        /\ grown.reason = said.reason
    <3>1. Append(said.text, Token) \in Seq(Nat) /\ said.pieces + 1 \in Nat
      BY <1>1
    <3>2. QED
      BY <1>1, <3>1 DEF SaidSet
  <2>4. streamed \in Sequential => OpenTools = {}
    BY <1>4 DEF SendsText
  <2> HIDE DEF e, grown
  <2>5. Fits(e, grown) /\ Grows(e, grown)
    BY <1>1, <2>2, <2>3, <2>4 DEF Fits, Grows
  <2>6. QED
    BY <2>1, <2>5 DEF e, grown
<1>5. CASE SendsCall
  <2> DEFINE new == IF streamed = "gemini" THEN [args |-> 1, closed |-> TRUE]
                    ELSE [args |-> 0, closed |-> FALSE]
             grown == [said EXCEPT !.tools = Append(@, new),
                                   !.pieces = @ + (IF streamed = "gemini" THEN 2 ELSE 1)]
  <2>1. PICK usage \in Meta :
          Sends([Event("call") EXCEPT !.tool = Len(said.tools) + 1, !.usage = usage], grown)
    BY <1>5 DEF SendsCall
  <2> DEFINE e == [Event("call") EXCEPT !.tool = Len(said.tools) + 1, !.usage = usage]
  <2>2. /\ e \in EventSet /\ e.kind = "call" /\ e.usage = usage /\ e.tool = Len(said.tools) + 1
    <3> DEFINE n == Len(said.tools) + 1
    <3>1. n \in Nat /\ usage \in Int
      BY <1>1
    <3> HIDE DEF n
    <3>2. LET x == [Event("call") EXCEPT !.tool = n, !.usage = usage] IN
          x \in EventSet /\ x.kind = "call" /\ x.usage = usage /\ x.tool = n
      BY <3>1 DEF Event, EventSet, Kinds, NoUsage, Silence
    <3>3. QED
      BY <3>2 DEF n
  <2>3. Append(said.tools, new) \in Seq(Progress)
    BY <1>1, ToolsGrow
  <2>4. /\ grown \in SaidSet /\ grown.text = said.text /\ grown.tools = Append(said.tools, new)
        /\ grown.reason = said.reason
    <3>1. said.pieces + (IF streamed = "gemini" THEN 2 ELSE 1) \in Nat
      BY <1>1
    <3>2. QED
      BY <1>1, <2>3, <3>1 DEF SaidSet
  <2>5. streamed = "gemini" => \A i \in DOMAIN grown.tools : grown.tools[i].closed
    BY <1>1, <2>4
  <2>6. streamed \in Sequential => OpenTools = {}
    BY <1>5 DEF SendsCall
  <2> HIDE DEF e, grown
  <2>7. Fits(e, grown)
    BY <1>1, <2>2, <2>4, <2>5 DEF Fits
  <2>8. Grows(e, grown)
    BY <1>1, <2>2, <2>4, <2>6 DEF Grows
  <2>9. QED
    BY <2>1, <2>7, <2>8 DEF e, grown
<1>6. CASE SendsArguments
  <2>1. PICK i \in OpenTools :
          Sends([Event("args") EXCEPT !.tool = i],
                [said EXCEPT !.tools[i].args = @ + 1, !.pieces = @ + 1])
    BY <1>6 DEF SendsArguments
  <2> DEFINE e == [Event("args") EXCEPT !.tool = i]
             ts == [said.tools EXCEPT ![i].args = @ + 1]
             grown == [said EXCEPT !.tools[i].args = @ + 1, !.pieces = @ + 1]
  <2>2. i \in DOMAIN said.tools /\ i \in Nat /\ ts \in Seq(Progress) /\ streamed # "gemini"
    BY <1>1, ToolsGrow DEF OpenTools
  <2>3. e \in EventSet /\ e.kind = "args" /\ e.usage = NoUsage /\ e.tool = i
    BY <2>2 DEF Event, EventSet, Kinds, NoUsage, Silence
  <2>4. /\ grown \in SaidSet /\ grown.text = said.text /\ grown.tools = ts
        /\ grown.reason = said.reason
    <3>1. said.pieces + 1 \in Nat
      BY <1>1
    <3>2. QED
      BY <1>1, <2>2, <3>1 DEF SaidSet
  <2> HIDE DEF e, grown
  <2>5. Fits(e, grown)
    BY <1>1, <2>2, <2>3, <2>4 DEF Fits
  <2>6. Grows(e, grown)
    BY <1>1, <2>2, <2>3, <2>4 DEF Grows
  <2>7. QED
    BY <2>1, <2>5, <2>6 DEF e, grown
<1>7. CASE EndsCall
  <2>1. PICK i \in OpenTools :
          Sends([Event("stop") EXCEPT !.tool = i, !.args = said.tools[i].args],
                [said EXCEPT !.tools[i].closed = TRUE])
    BY <1>7 DEF EndsCall
  <2> DEFINE e == [Event("stop") EXCEPT !.tool = i, !.args = said.tools[i].args]
             ts == [said.tools EXCEPT ![i].closed = TRUE]
             grown == [said EXCEPT !.tools[i].closed = TRUE]
  <2>2. /\ i \in DOMAIN said.tools /\ i \in Nat /\ ts \in Seq(Progress)
        /\ said.tools[i].args \in Nat /\ streamed \in {"responses", "converse", "anthropic"}
    <3>1. i \in DOMAIN said.tools
      BY DEF OpenTools
    <3>2. streamed \in {"responses", "converse", "anthropic"}
      BY <1>7 DEF EndsCall
    <3>3. /\ i \in Nat /\ said.tools[i].args \in Nat
          /\ [said.tools EXCEPT ![i].closed = TRUE] \in Seq(Progress)
      <4>1. said.tools \in Seq(Progress)
        BY <1>1
      <4>2. QED
        BY <3>1, <4>1, ToolsGrow
    <3>4. QED
      BY <3>1, <3>2, <3>3
  <2>3. /\ e \in EventSet /\ e.kind = "stop" /\ e.usage = NoUsage /\ e.tool = i
        /\ e.args = said.tools[i].args
    <3> DEFINE n == said.tools[i].args
    <3>1. n \in Nat /\ i \in Nat
      BY <2>2
    <3> HIDE DEF n
    <3>2. LET x == [Event("stop") EXCEPT !.tool = i, !.args = n] IN
          /\ x \in EventSet /\ x.kind = "stop" /\ x.usage = NoUsage /\ x.tool = i
          /\ x.args = n
      <4> DEFINE y == [Event("stop") EXCEPT !.tool = i]
      <4>1. /\ y \in EventSet /\ y.kind = "stop" /\ y.usage = NoUsage /\ y.tool = i
        BY <3>1 DEF Event, EventSet, Kinds, NoUsage, Silence
      <4>2. [Event("stop") EXCEPT !.tool = i, !.args = n] = [y EXCEPT !.args = n]
        OBVIOUS
      <4> HIDE DEF y
      <4>3. QED
        BY <3>1, <4>1, <4>2 DEF EventSet
    <3>3. QED
      BY <3>2 DEF n
  <2>4. /\ grown \in SaidSet /\ grown.text = said.text /\ grown.tools = ts
        /\ grown.reason = said.reason
    <3>1. said.pieces + 1 \in Nat
      BY <1>1
    <3>2. QED
      BY <1>1, <2>2, <3>1 DEF SaidSet
  <2> HIDE DEF e, grown
  <2>5. Fits(e, grown)
    BY <1>1, <2>2, <2>3, <2>4 DEF Fits
  <2>6. Grows(e, grown)
    BY <1>1, <2>2, <2>3, <2>4 DEF Grows
  <2>7. QED
    BY <2>1, <2>5, <2>6 DEF e, grown
<1>8. CASE Concludes
  <2>1. PICK reason \in Noticed, usage \in {Used} \cup (IF streamed = "completions" THEN {0} ELSE {}) :
          Sends([Event("end") EXCEPT !.reason = reason, !.usage = usage],
                [said EXCEPT !.reason = reason, !.usage = usage])
    BY <1>8 DEF Concludes
  <2> DEFINE e == [Event("end") EXCEPT !.reason = reason, !.usage = usage]
             grown == [said EXCEPT !.reason = reason, !.usage = usage]
  <2>2. /\ usage \in Int /\ usage # NoUsage
        /\ streamed \in {"gemini", "anthropic"} => usage >= 1
        /\ streamed # "completions" => OpenTools = {}
    BY <1>1, <1>8 DEF Concludes, NoUsage
  <2>7. reason \in Reasons
    BY DEF Noticed, Reasons
  <2>3. e \in EventSet /\ e.kind = "end" /\ e.usage = usage /\ e.reason = reason
    BY <2>2, <2>7 DEF Event, EventSet, Kinds, NoUsage, Silence
  <2>4. /\ grown \in SaidSet /\ grown.text = said.text /\ grown.tools = said.tools
        /\ grown.reason = reason /\ grown.usage = usage
    BY <1>1, <2>2, <2>7 DEF SaidSet
  <2> HIDE DEF e, grown
  <2>5. Fits(e, grown) /\ Grows(e, grown)
    BY <1>1, <2>2, <2>3, <2>4 DEF Fits, Grows
  <2>6. QED
    BY <2>1, <2>5 DEF e, grown
<1>9. CASE EndsUnsaid
  <2> DEFINE e == Event("cut")
             grown == [said EXCEPT !.reason = "unsaid"]
  <2>1. Sends(e, grown)
    BY <1>9 DEF EndsUnsaid
  <2>2. e \in EventSet /\ e.kind = "cut" /\ e.usage = NoUsage
    BY DEF Event, EventSet, Kinds, NoUsage, Silence
  <2>3. /\ grown \in SaidSet /\ grown.text = said.text /\ grown.tools = said.tools
        /\ grown.reason = "unsaid"
    BY <1>1 DEF SaidSet
  <2>6. "unsaid" \notin Followed
    BY DEF Followed, Noticed, Reasons
  <2> HIDE DEF e, grown
  <2>4. Fits(e, grown) /\ Grows(e, grown)
    BY <1>1, <2>2, <2>3, <2>6 DEF Fits, Grows
  <2>5. QED
    BY <2>1, <2>4
<1>11. CASE EndsIgnored
  <2>1. PICK reason \in {"length", "failed"} :
          Sends(Event("cut"), [said EXCEPT !.reason = reason, !.usage = Used])
    BY <1>11 DEF EndsIgnored
  <2> DEFINE e == Event("cut")
             grown == [said EXCEPT !.reason = reason, !.usage = Used]
  <2>2. e \in EventSet /\ e.kind = "cut" /\ e.usage = NoUsage
    BY DEF Event, EventSet, Kinds, NoUsage, Silence
  <2>3. Used \in Int /\ reason \in {"failed"} \cup Reasons
    BY <1>1 DEF Reasons
  <2>4. /\ grown \in SaidSet /\ grown.text = said.text /\ grown.tools = said.tools
        /\ grown.reason = reason
    BY <1>1, <2>3 DEF SaidSet
  <2>5. streamed = "responses" /\ reason \notin Followed
    BY <1>11 DEF EndsIgnored, Followed, Noticed
  <2> HIDE DEF e, grown
  <2>6. Fits(e, grown) /\ Grows(e, grown)
    BY <1>1, <2>2, <2>4, <2>5 DEF Fits, Grows
  <2>7. QED
    BY <2>1, <2>6 DEF e, grown
<1> HIDE DEF goal
<1>10. QED
  BY <1>2, <1>3, <1>4, <1>5, <1>6, <1>7, <1>8, <1>9, <1>11 DEF Speaks

\* Nothing is said, read or told at first.
LEMMA UsageStart == StreamInit => UsageInv
<1> SUFFICES ASSUME StreamInit PROVE UsageInv
  OBVIOUS
<1>1. StreamInv
  BY DEF StreamInit, StreamInv, Aligned, ViewFields, EmFields, Places
<1>2. StreamTypes
  <2>1. streamed \in AllWires /\ source = "unopened"
    BY AnswerAssumption DEF StreamInit
  <2>2. <<>> \in Seq(Nat) /\ <<>> \in Seq(Progress) /\ <<>> \in Seq(Calls) /\ {} \in SUBSET Nat
    OBVIOUS
  <2>3. said \in SaidSet
    BY <2>2 DEF StreamInit, SaidSet, NoUsage
  <2>4. adapter \in AdapterSet
    BY <2>2 DEF StreamInit, AdapterSet
  <2>5. chunks \in Seq(ChunkSet) /\ chunk \in ChunkSet
    BY ChunksTyped, NoChunk DEF StreamInit
  <2>6. em.usage \in Int /\ em.finish \in Finishes /\ reported \in Int
    BY DEF StreamInit, NoUsage, Finishes
  <2>7. at = "begin"
    BY DEF StreamInit
  <2>8. QED
    BY <2>1, <2>3, <2>4, <2>5, <2>6, <2>7 DEF StreamTypes
<1>3. /\ source = "unopened" /\ said.reason = "none" /\ ended = "no" /\ at = "begin"
      /\ said.tools = <<>> /\ ~adapter.surfaced /\ chunks = <<>> /\ chunk.usage = NoUsage
  BY ChunksTyped DEF StreamInit
<1>4. "none" \notin Noticed /\ Metered(chunks)
  BY <1>3, NoChunk DEF Noticed, Reasons
<1>5. QED
  BY <1>1, <1>2, <1>3, <1>4 DEF UsageInv

\* An event of the provider keeps the books.
LEMMA UsageSpeaks ==
    ASSUME UsageInv, Speaks
    PROVE  UsageInv'
<1>1. PICK e, grown : Sends(e, grown) /\ Fits(e, grown) /\ Grows(e, grown)
  BY EventSpoken
<1> DEFINE r == OnEvent(adapter, e)
<1>2. Heard(adapter, e, r, Handed(adapter, e))
  BY <1>1, AllHeard DEF Fits, UsageInv, StreamTypes
<1> HIDE DEF r
<1>3. /\ source = "open" /\ at = "fetch" /\ chunks = <<>> /\ ended = "no"
      /\ adapter' = r.adapter /\ chunks' = r.chunks /\ said' = grown
      /\ source' = (IF e.kind \in {"end", "cut"} THEN "over" ELSE source)
      /\ UNCHANGED <<streamed, opening, chunk, em, at, view, reported, ended>>
  BY <1>1 DEF Sends, Requested, r
<1>4. StreamInv'
  <2>1. Provider
    BY DEF Speaks, Provider
  <2>2. QED
    BY <2>1, ProviderStep DEF UsageInv
<1>5. StreamTypes'
  BY <1>1, <1>2, <1>3 DEF StreamTypes, UsageInv, Heard, Passes, Fits
<1>6. said.reason = "none" /\ "none" \notin Noticed /\ Noticed' = Noticed
  BY <1>3 DEF UsageInv, Noticed, Reasons
<1>7. /\ source' # "over" => said'.reason = "none"
      /\ source' = "over" => said'.reason # "none"
      /\ said'.reason \in Noticed' => e.kind = "end"
  BY <1>1, <1>3, <1>6 DEF Fits, Followed
<1>8. streamed' = "gemini" => \A i \in DOMAIN said'.tools : said'.tools[i].closed
  BY <1>1, <1>3 DEF Fits
<1>9. said'.reason \in Noticed' => UsageTold'
  BY <1>1, <1>2, <1>3, <1>7 DEF UsageTold, Fits, Heard, Passes, InChunk
<1>10. /\ streamed \in {"gemini", "anthropic"} /\ (source' # "over" \/ adapter'.surfaced) =>
            Metered(chunks')
       /\ streamed = "gemini" /\ adapter'.surfaced => adapter'.usage >= 1
  <2>1. Meters(adapter, e, r)
    BY <1>2 DEF Heard
  <2>2. /\ streamed \in {"gemini", "anthropic"} =>
             /\ e.usage = NoUsage \/ e.usage >= 1
             /\ e.kind \in {"head", "end"} => e.usage >= 1
        /\ streamed = "gemini" => e.kind \notin {"args", "stop"}
        /\ e.kind = "cut" => e.usage = NoUsage
    BY <1>1 DEF Fits
  <2>3. streamed = "gemini" /\ adapter.surfaced => adapter.usage >= 1
    BY DEF UsageInv
  <2>4. CASE streamed = "gemini" /\ e.kind = "cut" /\ ~adapter.surfaced
    <3>1. ~adapter'.surfaced /\ source' = "over"
      BY <1>3, <2>1, <2>2, <2>4 DEF Meters, Tells
    <3>2. QED
      BY <3>1
  <2>5. CASE ~(streamed = "gemini" /\ e.kind = "cut" /\ ~adapter.surfaced)
    BY <1>3, <2>1, <2>2, <2>3, <2>5 DEF Meters
  <2>6. QED
    BY <2>4, <2>5
<1>11. adapter'.surfaced => streamed \in {"gemini", "anthropic"} /\ PromptTold'
  <2>1. Meters(adapter, e, r)
    BY <1>2 DEF Heard
  <2>2. CASE adapter.surfaced
    <3>1. streamed \in {"gemini", "anthropic"} /\ PromptTold
      BY <1>3, <2>2 DEF UsageInv
    <3>2. reported >= 1 /\ em.usage >= 1
      BY <1>3, <3>1 DEF PromptTold, InChunk
    <3>3. QED
      BY <1>3, <3>1, <3>2 DEF PromptTold
  <2>3. CASE ~adapter.surfaced /\ Tells(e)
    <3>1. /\ r.chunks # <<>> /\ r.chunks[1].usage = e.usage /\ ~r.chunks[1].done
          /\ streamed \in {"gemini", "anthropic"}
      BY <2>1, <2>3 DEF Meters, Tells
    <3>2. e.usage >= 1
      BY <1>1, <2>3 DEF Tells, Fits
    <3>3. QED
      BY <1>3, <3>1, <3>2 DEF PromptTold
  <2>4. CASE ~adapter.surfaced /\ ~Tells(e)
    BY <1>3, <2>1, <2>4 DEF Meters
  <2>5. QED
    BY <2>2, <2>3, <2>4
<1>12. streamed \in {"gemini", "anthropic"} => chunk.usage = NoUsage \/ chunk.usage >= 1
  BY <1>3 DEF UsageInv
<1>13. QED
  BY <1>3, <1>4, <1>5, <1>7, <1>8, <1>9, <1>10, <1>11, <1>12, Noticing DEF UsageInv

\* Opening the stream, and the provider's failure.
LEMMA UsageOpens ==
    ASSUME UsageInv, Opens \/ Rewrites \/ CacheGone \/ ProviderRaises
    PROVE  UsageInv'
<1>1. StreamInv'
  BY ProviderStep DEF UsageInv, Provider
<1>2. CASE Opens \/ Rewrites \/ CacheGone
  <2>1. /\ source = "unopened" /\ at = "fetch" /\ ended = "no" /\ source' \in {"unopened", "open"}
        /\ UNCHANGED <<streamed, said, adapter, chunks, chunk, em, at, view, reported, ended>>
    BY <1>2 DEF Opens, Rewrites, CacheGone, MayOpen
  <2>2. StreamTypes'
    BY <2>1 DEF StreamTypes, UsageInv
  <2>3. UsageTold' = UsageTold /\ PromptTold' = PromptTold
    BY <2>1 DEF UsageTold, PromptTold
  <2>4. QED
    BY <1>1, <2>1, <2>2, <2>3, Noticing DEF UsageInv
<1>3. CASE ProviderRaises
  <2>1. /\ source \in {"unopened", "open"} /\ at = "fetch" /\ source' = "over"
        /\ reported' = NoUsage /\ ended' = "error"
        /\ UNCHANGED <<streamed, said, adapter, chunks, chunk, em, at>>
    BY <1>3 DEF ProviderRaises
  <2>2. StreamTypes'
    BY <2>1 DEF StreamTypes, UsageInv, NoUsage
  <2>3. QED
    BY <1>1, <2>1, <2>2, Noticing DEF UsageInv
<1>4. QED
  BY <1>2, <1>3

\* The first of a list of chunks, and the others.
LEMMA ChunksLeft ==
    ASSUME NEW cs \in Seq(ChunkSet), cs # <<>>
    PROVE  /\ Head(cs) \in ChunkSet /\ Head(cs) = cs[1] /\ Tail(cs) \in Seq(ChunkSet)
           /\ Tail(cs) # <<>> => Tail(cs)[Len(Tail(cs))] = cs[Len(cs)]
           /\ Tail(cs) = <<>> => Head(cs) = cs[Len(cs)]
           /\ Metered(cs) =>
                Metered(Tail(cs)) /\ (Head(cs).usage = NoUsage \/ Head(cs).usage >= 1)
<1>1. /\ Head(cs) \in ChunkSet /\ Head(cs) = cs[1] /\ Tail(cs) \in Seq(ChunkSet)
      /\ Len(Tail(cs)) = Len(cs) - 1 /\ Len(cs) \in Nat /\ Len(cs) >= 1
      /\ \A i \in 1 .. Len(Tail(cs)) : Tail(cs)[i] = cs[i + 1]
  BY HeadTailProperties, EmptySeq, LenProperties
<1> DEFINE t == Tail(cs)
           h == Head(cs)
<1>2. t \in Seq(ChunkSet) /\ (t = <<>> <=> Len(t) = 0) /\ h = cs[1]
  BY <1>1, EmptySeq
<1> HIDE DEF t, h
<1>3. /\ Len(t) = Len(cs) - 1 /\ \A i \in 1 .. Len(t) : t[i] = cs[i + 1]
  BY <1>1 DEF t
<1>4. t # <<>> => t[Len(t)] = cs[Len(cs)]
  <2> SUFFICES ASSUME t # <<>> PROVE t[Len(t)] = cs[Len(cs)]
    OBVIOUS
  <2>1. Len(t) \in 1 .. Len(t) /\ Len(t) + 1 = Len(cs)
    BY <1>1, <1>2, <1>3
  <2>2. QED
    BY <1>3, <2>1
<1>5. t = <<>> => h = cs[Len(cs)]
  <2>1. t = <<>> => Len(t) = 0
    BY <1>2
  <2>2. Len(t) = 0 => Len(cs) = 1
    <3>1. Len(t) = Len(cs) - 1 /\ Len(cs) \in Nat
      BY <1>1, <1>3
    <3>2. QED
      BY <3>1
  <2>3. QED
    BY <1>2, <2>1, <2>2
<1>6. Metered(cs) => Metered(t) /\ (h.usage = NoUsage \/ h.usage >= 1)
  <2> SUFFICES ASSUME Metered(cs) PROVE Metered(t) /\ (h.usage = NoUsage \/ h.usage >= 1)
    OBVIOUS
  <2>1. 1 \in 1 .. Len(cs)
    BY <1>1
  <2>2. \A i \in 1 .. Len(t) : i + 1 \in 1 .. Len(cs)
    BY <1>1, <1>3
  <2>3. QED
    BY <1>2, <1>3, <2>1, <2>2 DEF Metered
<1>7. QED
  BY <1>1, <1>4, <1>5, <1>6 DEF t, h

\* The emitter reads a chunk.
LEMMA UsageFetch ==
    ASSUME UsageInv, Fetch
    PROVE  UsageInv'
<1>1. /\ at = "fetch" /\ ended = "no" /\ chunks # <<>> /\ at' = "think"
      /\ chunk' = Head(chunks) /\ chunks' = Tail(chunks)
      /\ reported' = (IF Head(chunks).usage # NoUsage /\ ~Head(chunks).done
                      THEN Head(chunks).usage ELSE reported)
      /\ UNCHANGED <<em, view, streamed, opening, source, said, adapter, ended>>
  BY DEF Fetch, Flowing, Emitted
<1>2. /\ chunks \in Seq(ChunkSet) /\ chunk' \in ChunkSet /\ chunk' = chunks[1]
      /\ chunks' \in Seq(ChunkSet)
      /\ chunks' # <<>> => chunks'[Len(chunks')] = chunks[Len(chunks)]
      /\ chunks' = <<>> => chunk' = chunks[Len(chunks)]
      /\ Metered(chunks) => Metered(chunks') /\ (chunk'.usage = NoUsage \/ chunk'.usage >= 1)
  <2>1. chunks \in Seq(ChunkSet)
    BY DEF UsageInv, StreamTypes
  <2>2. QED
    BY <1>1, <2>1, ChunksLeft
<1>3. StreamInv'
  BY EmitterStep DEF UsageInv, Emitter
<1>4. chunk'.usage \in Int /\ reported' \in Int
      /\ reported' = (IF chunk'.usage # NoUsage /\ ~chunk'.done THEN chunk'.usage ELSE reported)
  <2>1. chunk'.usage \in Int /\ reported \in Int
    BY <1>2 DEF ChunkSet, UsageInv, StreamTypes
  <2>2. QED
    BY <1>1, <2>1
<1>5. StreamTypes'
  BY <1>1, <1>2, <1>4 DEF StreamTypes, UsageInv
<1>6. UsageTold => UsageTold'
  BY <1>1, <1>2 DEF UsageTold, InChunk
<1>7. adapter.surfaced => PromptTold'
  <2> SUFFICES ASSUME adapter.surfaced PROVE PromptTold'
    OBVIOUS
  <2>1. PromptTold /\ Metered(chunks)
    BY <1>1 DEF UsageInv
  <2>2. CASE chunks[1].usage >= 1 /\ ~chunks[1].done
    <3>1. reported' >= 1 /\ chunk'.usage >= 1
      BY <1>2, <1>4, <2>2 DEF NoUsage
    <3>2. QED
      BY <1>1, <3>1 DEF PromptTold, InChunk
  <2>3. CASE reported >= 1 /\ em.usage >= 1
    <3>1. reported' >= 1
      BY <1>2, <1>4, <2>1, <2>3
    <3>2. QED
      BY <1>1, <2>3, <3>1 DEF PromptTold
  <2>4. QED
    BY <1>1, <2>1, <2>2, <2>3 DEF PromptTold, InChunk
<1>8. QED
  BY <1>1, <1>2, <1>3, <1>5, <1>6, <1>7, Noticing DEF UsageInv

\* The chunk is done with.
LEMMA UsageTake ==
    ASSUME UsageInv, Take
    PROVE  UsageInv'
<1>1. /\ at = "tools" /\ ended = "no" /\ at' = "fetch"
      /\ em' = [em EXCEPT !.usage = IF chunk.usage # NoUsage THEN chunk.usage ELSE @,
                          !.finish = IF chunk.finish # "none" THEN chunk.finish ELSE @]
      /\ UNCHANGED <<chunks, chunk, view, reported, streamed, opening, source, said, adapter, ended>>
  BY DEF Take, Flowing, Emitted
<1>2. /\ DOMAIN em = EmFields /\ chunk.usage \in Int /\ chunk.finish \in Finishes
      /\ em.usage \in Int /\ em.finish \in Finishes
  BY DEF UsageInv, StreamInv, StreamTypes, ChunkSet
<1>3. /\ em'.usage = (IF chunk.usage # NoUsage THEN chunk.usage ELSE em.usage)
      /\ em'.finish = (IF chunk.finish # "none" THEN chunk.finish ELSE em.finish)
  BY <1>1, <1>2 DEF EmFields
<1>4. StreamInv'
  BY EmitterStep DEF UsageInv, Emitter
<1>5. StreamTypes'
  BY <1>1, <1>2, <1>3 DEF StreamTypes, UsageInv
<1>6. UsageTold => UsageTold'
  <2>1. "fetch" \notin InChunk /\ "tools" \in InChunk
    BY DEF InChunk
  <2>2. QED
    BY <1>1, <1>3, <2>1 DEF UsageTold
<1>7. adapter.surfaced => PromptTold'
  <2> SUFFICES ASSUME adapter.surfaced PROVE PromptTold'
    OBVIOUS
  <2>1. /\ PromptTold /\ streamed \in {"gemini", "anthropic"}
        /\ chunk.usage = NoUsage \/ chunk.usage >= 1
    BY <1>1 DEF UsageInv
  <2>2. QED
    BY <1>1, <1>2, <1>3, <2>1 DEF PromptTold, NoUsage
<1>8. QED
  BY <1>1, <1>4, <1>5, <1>6, <1>7, Noticing DEF UsageInv

\* The other steps of the emitter, and the client's leaving.
LEMMA UsageEmitted ==
    ASSUME UsageInv, Emitter \/ Leave, ~Fetch, ~Take
    PROVE  UsageInv'
<1>0. StreamInv'
  BY EmitterStep DEF UsageInv
<1> USE DEF Flowing, Emitted
<1>1. CASE Begin
  <2>1. /\ at = "begin" /\ at' = "fetch" /\ ended = "no" /\ source = "unopened"
        /\ UNCHANGED <<chunks, chunk, em, reported, streamed, opening, source, said, adapter, ended>>
    BY <1>1 DEF Begin, UsageInv
  <2>2. StreamTypes'
    BY <2>1 DEF StreamTypes, UsageInv
  <2>3. said.reason \notin Noticed
    BY <2>1 DEF UsageInv, Noticed, Reasons
  <2>4. PromptTold' = PromptTold
    BY <2>1 DEF PromptTold, InChunk
  <2>5. QED
    BY <1>0, <2>1, <2>2, <2>3, <2>4, Noticing DEF UsageInv
<1>2. CASE \/ OpenThinking \/ ThinkDelta \/ NoThought \/ OpenText \/ TextDelta \/ NoText
           \/ OpenTool \/ ToolDelta \/ CloseTool
           \/ (CloseThinking \/ CloseText) /\ at # "fetch"
  <2>1. /\ at \in InChunk /\ at' \in InChunk /\ ended = "no"
        /\ UNCHANGED <<chunks, reported, streamed, opening, source, said, adapter, ended>>
    BY <1>2 DEF InChunk, OpenThinking, ThinkDelta, NoThought, OpenText, TextDelta, NoText, OpenTool,
                ToolDelta, CloseTool, CloseThinking, CloseText, NeedsThinkingClosed
  <2>2. em'.usage = em.usage /\ em'.finish = em.finish
    <3>1. DOMAIN em = EmFields
      BY DEF UsageInv, StreamInv
    <3>2. QED
      BY <1>2, <3>1 DEF EmFields, OpenThinking, ThinkDelta, NoThought, OpenText, TextDelta, NoText,
                        OpenTool, ToolDelta, CloseTool, CloseThinking, CloseText
  <2>3. chunk' \in ChunkSet /\ chunk'.usage = chunk.usage
    <3>1. chunk \in ChunkSet
      BY DEF UsageInv, StreamTypes
    <3>2. CASE CloseTool
      <4>1. chunk' = [chunk EXCEPT !.tools = Tail(@)] /\ at = "close"
        BY <3>2 DEF CloseTool
      <4>2. Tail(chunk.tools) \in Seq(Calls)
        <5>1. chunk.tools # <<>> /\ chunk.tools \in Seq(Calls)
          BY <3>1, <4>1 DEF ChunkSet, UsageInv, StreamTypes
        <5>2. QED
          BY <5>1, HeadTailProperties
      <4>3. QED
        BY <3>1, <4>1, <4>2 DEF ChunkSet
    <3>3. CASE ~CloseTool
      BY <1>2, <3>1, <3>3 DEF OpenThinking, ThinkDelta, NoThought, OpenText, TextDelta, NoText,
                        OpenTool, ToolDelta, CloseThinking, CloseText
    <3>4. QED
      BY <3>2, <3>3
  <2>4. StreamTypes'
    <3>1. at' \in {"input", "close"} => chunk'.tools # <<>>
      BY <1>2 DEF UsageInv, StreamTypes, OpenThinking, ThinkDelta, NoThought, OpenText, TextDelta,
                  NoText, OpenTool, ToolDelta, CloseTool, CloseThinking, CloseText, NeedsThinkingClosed
    <3>2. QED
      BY <2>1, <2>2, <2>3, <3>1 DEF StreamTypes, UsageInv
  <2>5. UsageTold => UsageTold'
    BY <2>1, <2>2, <2>3 DEF UsageTold, InChunk
  <2>6. PromptTold => PromptTold'
    BY <2>1, <2>2, <2>3 DEF PromptTold
  <2>7. at' \notin {"begin", "stop", "done"}
    BY <2>1 DEF InChunk
  <2>8. QED
    BY <1>0, <2>1, <2>3, <2>4, <2>5, <2>6, <2>7, Noticing DEF UsageInv
<1>3. CASE (CloseThinking \/ CloseText) /\ at = "fetch"
  <2>1. /\ at' = at /\ ended = "no"
        /\ UNCHANGED <<chunks, chunk, reported, streamed, opening, source, said, adapter, ended>>
    BY <1>3 DEF CloseThinking, CloseText
  <2>2. em'.usage = em.usage /\ em'.finish = em.finish
    <3>1. DOMAIN em = EmFields
      BY DEF UsageInv, StreamInv
    <3>2. QED
      BY <1>3, <3>1 DEF EmFields, CloseThinking, CloseText
  <2>3. StreamTypes'
    BY <2>1, <2>2 DEF StreamTypes, UsageInv
  <2>4. UsageTold' = UsageTold /\ PromptTold' = PromptTold
    BY <2>1, <2>2 DEF UsageTold, PromptTold
  <2>5. QED
    BY <1>0, <2>1, <2>3, <2>4, Noticing DEF UsageInv
<1>4. CASE Conclude
  <2>1. /\ at = "fetch" /\ at' = "stop" /\ source = "over" /\ chunks = <<>> /\ ended = "no"
        /\ reported' = em.usage
        /\ UNCHANGED <<chunks, chunk, em, streamed, opening, source, said, adapter, ended>>
    BY <1>4 DEF Conclude
  <2>2. StreamTypes'
    BY <2>1 DEF StreamTypes, UsageInv
  <2>3. UsageTold => UsageTold'
    BY <2>1 DEF UsageTold, InChunk
  <2>4. adapter.surfaced => PromptTold'
    BY <2>1 DEF UsageInv, PromptTold, InChunk
  <2>5. QED
    BY <1>0, <2>1, <2>2, <2>3, <2>4, Noticing DEF UsageInv
<1>5. CASE Stop \/ Leave
  <2>1. /\ ended = "no" /\ ended' \in {"clean", "left"} /\ (ended' = "clean" => at' = "done")
        /\ \/ at = "stop" /\ at' = "done"
           \/ at # "begin" /\ at' = at
        /\ UNCHANGED <<chunks, chunk, em, reported, streamed, opening, source, said, adapter>>
    BY <1>5 DEF Stop, Leave
  <2>2. StreamTypes'
    BY <2>1 DEF StreamTypes, UsageInv
  <2>3. UsageTold => UsageTold'
    BY <2>1 DEF UsageTold, InChunk
  <2>4. PromptTold => PromptTold'
    BY <2>1 DEF PromptTold, InChunk
  <2>5. QED
    BY <1>0, <2>1, <2>2, <2>3, <2>4, Noticing DEF UsageInv
<1>6. QED
  BY <1>1, <1>2, <1>3, <1>4, <1>5 DEF Emitter

\* Every step keeps the books.
LEMMA UsageStep ==
    UsageInv /\ [Next]_vars => UsageInv'
<1> SUFFICES ASSUME UsageInv, [Next]_vars PROVE UsageInv'
  OBVIOUS
<1>1. CASE StreamNext
  BY <1>1, UsageSpeaks, UsageOpens, UsageFetch, UsageTake, UsageEmitted
     DEF StreamNext, Provider, Speaks, Emitter
<1>2. CASE UNCHANGED streamVars
  <2>1. UNCHANGED <<streamed, source, said, adapter, chunks, chunk, em, at, view, reported, ended>>
    BY <1>2 DEF streamVars
  <2>2. StreamTypes' /\ StreamInv'
    BY <2>1 DEF StreamTypes, StreamInv, UsageInv, Aligned
  <2>3. UsageTold' = UsageTold /\ PromptTold' = PromptTold
    BY <2>1 DEF UsageTold, PromptTold
  <2>4. QED
    BY <2>1, <2>2, <2>3, Noticing DEF UsageInv
<1>3. QED
  BY <1>1, <1>2 DEF Next, vars

\* What the edge reports is what is billed (translating_edge.py, emit.py): on every wire
\* and for an answer of any length, a stream read to its end reports the total the
\* provider concluded with, if an event that the adapter heeds concluded it, and one the
\* client abandons at least the prompt that the provider has told of, wherever it is
\* abandoned.
THEOREM UsageIsReported == Spec => []UsageReported
<1>1. Init => UsageInv
  BY UsageStart DEF Init
<1>2. UsageInv => UsageReported
  <2> SUFFICES ASSUME UsageInv PROVE UsageReported
    OBVIOUS
  <2>1. ASSUME ended = "clean", said.reason \in Noticed PROVE reported = said.usage
    <3>1. at = "done" /\ source = "over" /\ chunks = <<>>
      BY <2>1 DEF UsageInv
    <3>3. UsageTold
      BY <2>1 DEF UsageInv
    <3>4. QED
      BY <3>1, <3>3 DEF UsageTold, InChunk
  <2>2. ASSUME ended = "left", adapter.surfaced, chunks = <<>> PROVE reported >= 1
    BY <2>2 DEF UsageInv, PromptTold
  <2>3. QED
    BY <2>1, <2>2 DEF UsageReported
<1>3. QED
  BY <1>1, <1>2, UsageStep, PTL DEF Spec

-----------------------------------------------------------------------------
(* The whole answer: what the client has read, with what is on its way to   *)
(* it, is what the provider has said.                                       *)

\* What a client has of the answer itself.
Kept(v, w) ==
    w.text = v.text /\ w.tools = v.tools /\ w.reason = v.reason /\ w.usage = v.usage

\* The arguments of the last call, filled in.
Filled(ts, x) == [ts EXCEPT ![Len(ts)].args = @ + x]

\* Text x is added, a call x is begun, the call's arguments x are filled in, and the
\* answer is concluded with the reason r and the usage u.
TextAdded(v, w, x) ==
    /\ w.tools = v.tools /\ w.reason = v.reason /\ w.usage = v.usage
    /\ w.text = Append(v.text, x)

CallAdded(v, w, x) ==
    /\ w.text = v.text /\ w.reason = v.reason /\ w.usage = v.usage
    /\ w.tools = Append(v.tools, Tool(x, 0))

InputAdded(v, w, x) ==
    /\ w.text = v.text /\ w.reason = v.reason /\ w.usage = v.usage
    /\ w.tools = Filled(v.tools, x)

EndAdded(v, w, r, u) ==
    w.text = v.text /\ w.tools = v.tools /\ w.reason = r /\ w.usage = u

\* The events that add nothing to it, whether or not the client waits for them.
LEMMA ReadingKeeps ==
    ASSUME NEW v, DOMAIN v = ViewFields
    PROVE  /\ Kept(v, ReadStart(v)) /\ Kept(v, ReadStop(v))
           /\ \A i : Kept(v, ReadBlockStop(v, i))
           /\ \A i, x : Kept(v, ReadDelta(v, i, "thinking", x))
           /\ \A i : Kept(v, ReadBlockStart(v, i, "thinking", 0))
           /\ \A i : Kept(v, ReadBlockStart(v, i, "text", 0))
<1> USE DEF ViewFields, Kept
<1>1. Kept(v, ReadStart(v)) /\ Kept(v, ReadStop(v))
  BY DEF ReadStart, ReadStop, Broken
<1>2. \A i : Kept(v, ReadBlockStop(v, i))
  BY DEF ReadBlockStop, Broken
<1>3. \A i, x : Kept(v, ReadDelta(v, i, "thinking", x))
  BY DEF ReadDelta, Broken
<1>4. /\ \A i : Kept(v, ReadBlockStart(v, i, "thinking", 0))
      /\ \A i : Kept(v, ReadBlockStart(v, i, "text", 0))
  BY DEF ReadBlockStart, Broken
<1> HIDE DEF Kept
<1>5. QED
  BY <1>1, <1>2, <1>3, <1>4

\* The events that add to it.
LEMMA ReadingText ==
    ASSUME NEW v, DOMAIN v = ViewFields, NEW i, NEW x,
           v.phase = "started", v.open = i, v.kind = "text"
    PROVE  TextAdded(v, ReadDelta(v, i, "text", x), x)
BY DEF ReadDelta, ViewFields, TextAdded

\* A block that starts is read as a call begun.
LEMMA ReadingCall ==
    ASSUME NEW v, DOMAIN v = ViewFields, NEW i, NEW x,
           v.phase = "started", v.open = -1, i = v.next
    PROVE  CallAdded(v, ReadBlockStart(v, i, "tool", x), x)
BY DEF ReadBlockStart, ViewFields, CallAdded

\* Input is read into the last call.
LEMMA ReadingInput ==
    ASSUME NEW v, DOMAIN v = ViewFields, NEW i, NEW x,
           v.phase = "started", v.open = i, v.kind = "tool"
    PROVE  InputAdded(v, ReadDelta(v, i, "tool", x), x)
BY DEF ReadDelta, ViewFields, Filled, InputAdded

\* The conclusion is read.
LEMMA ReadingEnd ==
    ASSUME NEW v, DOMAIN v = ViewFields, NEW r, NEW u, v.phase = "started", v.open = -1
    PROVE  EndAdded(v, ReadConclusion(v, r, u), r, u)
BY DEF ReadConclusion, ViewFields, EndAdded

\* What a step of the emitter adds to the client's answer.
LEMMA EmitterAdds ==
    ASSUME StreamInv, Emitter \/ Leave
    PROVE  /\ TextDelta => TextAdded(view, view', chunk.text)
           /\ OpenTool => CallAdded(view, view', Head(chunk.tools).id)
           /\ ToolDelta => InputAdded(view, view', Head(chunk.tools).args)
           /\ Conclude => EndAdded(view, view', StopReason(em.tool, em.finish), em.usage)
           /\ ~TextDelta /\ ~OpenTool /\ ~ToolDelta /\ ~Conclude => Kept(view, view')
<1>1. /\ DOMAIN view = ViewFields /\ em.next \in Nat /\ view.next = em.next
      /\ at \in Places /\ Aligned /\ ended = "no"
  BY DEF StreamInv, Emitter, Begin, Fetch, OpenThinking, ThinkDelta, NoThought, CloseThinking,
         OpenText, TextDelta, NoText, CloseText, OpenTool, ToolDelta, CloseTool, Take, Conclude,
         Stop, Leave, Flowing
<1>2. TextDelta => TextAdded(view, view', chunk.text)
  <2> SUFFICES ASSUME TextDelta PROVE TextAdded(view, view', chunk.text)
    OBVIOUS
  <2>1. view' = ReadDelta(view, em.textAt, "text", chunk.text) /\ em.text /\ at = "text"
    BY DEF TextDelta
  <2>2. view.phase = "started" /\ view.open = em.textAt /\ view.kind = "text"
    BY <1>1, <2>1 DEF Aligned
  <2>3. QED
    BY <1>1, <2>1, <2>2, ReadingText
<1>3. OpenTool => CallAdded(view, view', Head(chunk.tools).id)
  <2> SUFFICES ASSUME OpenTool PROVE CallAdded(view, view', Head(chunk.tools).id)
    OBVIOUS
  <2>1. /\ view' = ReadBlockStart(view, em.next, "tool", Head(chunk.tools).id)
        /\ at = "tools" /\ ~em.thinking /\ ~em.text
    BY DEF OpenTool
  <2>2. view.phase = "started" /\ view.open = -1
    BY <1>1, <2>1 DEF Aligned
  <2>3. QED
    BY <1>1, <2>1, <2>2, ReadingCall
<1>4. ToolDelta => InputAdded(view, view', Head(chunk.tools).args)
  <2> SUFFICES ASSUME ToolDelta PROVE InputAdded(view, view', Head(chunk.tools).args)
    OBVIOUS
  <2>1. /\ view' = ReadDelta(view, em.next - 1, "tool", Head(chunk.tools).args) /\ at = "input"
    BY DEF ToolDelta
  <2>2. view.phase = "started" /\ view.open = em.next - 1 /\ view.kind = "tool"
    BY <1>1, <2>1 DEF Aligned
  <2>3. QED
    BY <1>1, <2>1, <2>2, ReadingInput
<1>5. Conclude => EndAdded(view, view', StopReason(em.tool, em.finish), em.usage)
  <2> SUFFICES ASSUME Conclude PROVE EndAdded(view, view', StopReason(em.tool, em.finish), em.usage)
    OBVIOUS
  <2>1. /\ view' = ReadConclusion(view, StopReason(em.tool, em.finish), em.usage)
        /\ at = "fetch" /\ ~em.thinking /\ ~em.text
    BY DEF Conclude
  <2>2. view.phase = "started" /\ view.open = -1
    BY <1>1, <2>1 DEF Aligned
  <2>3. QED
    BY <1>1, <2>1, <2>2, ReadingEnd
<1>6. ~TextDelta /\ ~OpenTool /\ ~ToolDelta /\ ~Conclude => Kept(view, view')
  <2> SUFFICES ASSUME ~TextDelta, ~OpenTool, ~ToolDelta, ~Conclude PROVE Kept(view, view')
    OBVIOUS
  <2>1. CASE Begin \/ Stop
    BY <1>1, <2>1, ReadingKeeps DEF Begin, Stop
  <2>2. CASE OpenThinking \/ OpenText
    BY <1>1, <2>2, ReadingKeeps DEF OpenThinking, OpenText
  <2>3. CASE ThinkDelta
    BY <1>1, <2>3, ReadingKeeps DEF ThinkDelta
  <2>4. CASE CloseThinking \/ CloseText \/ CloseTool
    BY <1>1, <2>4, ReadingKeeps DEF CloseThinking, CloseText, CloseTool
  <2>5. CASE Fetch \/ NoThought \/ NoText \/ Take \/ Leave
    <3>1. view' = view
      BY <2>5 DEF Fetch, NoThought, NoText, Take, Leave
    <3>2. QED
      BY <3>1 DEF Kept
  <2>6. QED
    BY <2>1, <2>2, <2>3, <2>4, <2>5 DEF Emitter
<1>7. QED
  BY <1>2, <1>3, <1>4, <1>5, <1>6

\* The text still on its way when cs is not read yet and the emitter is at p with the text
\* t: what has been said, st, is what the client has, vt, and that.
TextDue(cs, t, p) ==
    IF cs # <<>> THEN cs[Len(cs)].text ELSE IF p \in {"think", "text"} THEN t ELSE Silence

Extended(ws, t) == IF t = Silence THEN ws ELSE Append(ws, t)

TextFlows(st, vt, cs, t, p) ==
    /\ \A i \in 1 .. Len(cs) : i < Len(cs) => cs[i].text = Silence
    /\ cs # <<>> /\ p \in {"think", "text"} => t = Silence
    /\ st = Extended(vt, TextDue(cs, t, p))

TextTold == TextFlows(said.text, view.text, chunks, chunk.text, at)

\* A chunk is read.
LEMMA TextFetched ==
    ASSUME NEW st, NEW vt, NEW cs \in Seq(ChunkSet), NEW t, cs # <<>>,
           TextFlows(st, vt, cs, t, "fetch")
    PROVE  TextFlows(st, vt, Tail(cs), Head(cs).text, "think")
<1> DEFINE rest == Tail(cs)
           c == Head(cs)
<1>1. /\ rest \in Seq(ChunkSet) /\ Len(rest) = Len(cs) - 1 /\ Len(cs) \in Nat /\ Len(cs) >= 1
      /\ \A i \in 1 .. Len(rest) : rest[i] = cs[i + 1]
      /\ c = cs[1]
      /\ rest # <<>> => rest[Len(rest)] = cs[Len(cs)]
      /\ rest = <<>> => c = cs[Len(cs)]
      /\ rest # <<>> => Len(rest) # 0
  <2>1. /\ rest \in Seq(ChunkSet) /\ Len(rest) = Len(cs) - 1 /\ Len(cs) \in Nat /\ Len(cs) >= 1
        /\ \A i \in 1 .. Len(rest) : rest[i] = cs[i + 1]
        /\ c = cs[1]
    BY HeadTailProperties, EmptySeq, LenProperties
  <2>2. /\ rest # <<>> => rest[Len(rest)] = cs[Len(cs)]
        /\ rest = <<>> => c = cs[Len(cs)]
    BY ChunksLeft
  <2>3. rest # <<>> => Len(rest) # 0
    BY <2>1, EmptySeq
  <2>4. QED
    BY <2>1, <2>2, <2>3
<1> HIDE DEF rest, c
<1>2. \A i \in 1 .. Len(cs) : i < Len(cs) => cs[i].text = Silence
  BY DEF TextFlows
<1>3. \A i \in 1 .. Len(rest) : i < Len(rest) => rest[i].text = Silence
  <2> SUFFICES ASSUME NEW i \in 1 .. Len(rest), i < Len(rest) PROVE rest[i].text = Silence
    OBVIOUS
  <2>1. i + 1 \in 1 .. Len(cs) /\ i + 1 < Len(cs)
    BY <1>1
  <2>2. QED
    BY <1>1, <1>2, <2>1
<1>4. rest # <<>> => c.text = Silence
  <2> SUFFICES ASSUME rest # <<>> PROVE c.text = Silence
    OBVIOUS
  <2>1. 1 \in 1 .. Len(cs) /\ 1 < Len(cs)
    BY <1>1
  <2>2. QED
    BY <1>1, <1>2, <2>1
<1>5. st = Extended(vt, cs[Len(cs)].text)
  BY DEF TextFlows, TextDue
<1>6. TextDue(rest, c.text, "think") = cs[Len(cs)].text
  BY <1>1 DEF TextDue
<1>7. TextFlows(st, vt, rest, c.text, "think")
  BY <1>3, <1>4, <1>5, <1>6 DEF TextFlows
<1>8. QED
  BY <1>7 DEF rest, c

\* What the emitter does to a text on its way.
LEMMA TextEmitted ==
    ASSUME UsageInv, TextTold, Emitter \/ Leave
    PROVE  TextTold'
<1>1. StreamInv /\ chunks \in Seq(ChunkSet) /\ chunk \in ChunkSet /\ said' = said
  <2>1. StreamInv /\ chunks \in Seq(ChunkSet) /\ chunk \in ChunkSet
    BY DEF UsageInv, StreamTypes
  <2>2. said' = said
    BY DEF Emitter, Begin, Fetch, OpenThinking, ThinkDelta, NoThought, CloseThinking,
           OpenText, TextDelta, NoText, CloseText, OpenTool, ToolDelta, CloseTool, Take, Conclude,
           Stop, Leave, Emitted
  <2>3. QED
    BY <2>1, <2>2
<1>2. CASE Fetch
  <2>1. /\ at = "fetch" /\ at' = "think" /\ chunks # <<>>
        /\ chunk' = Head(chunks) /\ chunks' = Tail(chunks) /\ view' = view
    BY <1>2 DEF Fetch
  <2>2. TextFlows(said.text, view.text, Tail(chunks), Head(chunks).text, "think")
    BY <1>1, <2>1, TextFetched DEF TextTold
  <2>3. QED
    BY <1>1, <2>1, <2>2 DEF TextTold
<1>3. CASE TextDelta
  <2>1. /\ at = "text" /\ at' = "tools" /\ chunk.text # Silence
        /\ chunks' = chunks /\ chunk' = chunk
    BY <1>3 DEF TextDelta
  <2>2. view'.text = Append(view.text, chunk.text)
    BY <1>1, <1>3, EmitterAdds DEF TextAdded
  <2>3. chunks = <<>> /\ said.text = Append(view.text, chunk.text)
    BY <2>1 DEF TextTold, TextFlows, TextDue, Extended
  <2>4. TextFlows(said.text, view'.text, chunks, chunk.text, "tools")
    BY <2>2, <2>3 DEF TextFlows, TextDue, Extended
  <2>5. QED
    BY <1>1, <2>1, <2>4 DEF TextTold
<1>4. CASE ~Fetch /\ ~TextDelta
  <2>1. chunks' = chunks /\ chunk'.text = chunk.text
    <3>1. CASE CloseTool
      <4>1. chunk' = [chunk EXCEPT !.tools = Tail(@)] /\ chunks' = chunks
        BY <3>1 DEF CloseTool
      <4>2. QED
        BY <1>1, <4>1 DEF ChunkSet
    <3>2. CASE ~CloseTool
      BY <1>4, <3>2 DEF Emitter, Begin, OpenThinking, ThinkDelta, NoThought, CloseThinking,
           OpenText, NoText, CloseText, OpenTool, ToolDelta, Take, Conclude, Stop, Leave
    <3>3. QED
      BY <3>1, <3>2
  <2>2. view'.text = view.text
    BY <1>1, EmitterAdds, <1>4 DEF Kept, CallAdded, InputAdded, EndAdded
  <2>3. \/ at \in {"think", "text"} /\ at' \in {"think", "text"}
        \/ at \notin {"think", "text"} /\ at' \notin {"think", "text"}
        \/ at = "text" /\ chunk.text = Silence /\ at' \notin {"think", "text"}
    BY <1>4 DEF Emitter, Begin, OpenThinking, ThinkDelta, NoThought, CloseThinking,
           OpenText, NoText, CloseText, OpenTool, ToolDelta, CloseTool, Take, Conclude, Stop, Leave,
           NeedsThinkingClosed
  <2>4. TextFlows(said.text, view.text, chunks, chunk.text, at)
    BY DEF TextTold
  <2>5. TextFlows(said.text, view.text, chunks, chunk.text, at')
    BY <2>3, <2>4 DEF TextFlows, TextDue, Extended
  <2>6. QED
    BY <1>1, <2>1, <2>2, <2>5 DEF TextTold
<1>5. QED
  BY <1>2, <1>3, <1>4

\* What the provider says is on its way.
LEMMA TextSpeaks ==
    ASSUME UsageInv, TextTold, Speaks
    PROVE  TextTold'
<1>1. PICK e, grown : Sends(e, grown) /\ Fits(e, grown) /\ Grows(e, grown)
  BY EventSpoken
<1> DEFINE r == OnEvent(adapter, e)
<1>2. Heard(adapter, e, r, Handed(adapter, e))
  BY <1>1, AllHeard DEF Fits, UsageInv, StreamTypes
<1> HIDE DEF r
<1>3. /\ at = "fetch" /\ chunks = <<>> /\ chunks' = r.chunks /\ said' = grown
      /\ UNCHANGED <<chunk, at, view>>
  BY <1>1 DEF Sends, Requested, r
<1>4. said.text = view.text
  BY <1>3 DEF TextTold, TextFlows, TextDue, Extended
<1> DEFINE t == IF e.kind = "text" THEN e.token ELSE Silence
<1>5. /\ \A i \in 1 .. Len(r.chunks) : i < Len(r.chunks) => r.chunks[i].text = Silence
      /\ IF r.chunks = <<>> THEN t = Silence ELSE r.chunks[Len(r.chunks)].text = t
  BY <1>2 DEF Heard, Passes, Words
<1>6. grown.text = Extended(view.text, t)
  BY <1>1, <1>4 DEF Grows, Extended, Silence
<1> HIDE DEF t
<1>7. TextFlows(grown.text, view.text, r.chunks, chunk.text, "fetch")
  BY <1>5, <1>6 DEF TextFlows, TextDue
<1>8. QED
  BY <1>3, <1>7 DEF TextTold

\* The calls q are those the client has whole, those of the chunk the emitter is at, of
\* which the client may have begun the first, and those of the chunks to come.
CallsFlow(q, vt, cs, ct, p) ==
    \E done \in Seq(Calls), due \in Seq(Calls) :
      /\ Carries(cs, due)
      /\ p = "input" => vt = Append(done, Tool(Head(ct).id, 0))
      /\ p = "close" => vt = Append(done, Head(ct))
      /\ p \notin {"input", "close"} => vt = done
      /\ q = (done \o (IF p \in InChunk THEN ct ELSE <<>>)) \o due

\* The calls of the first of a list of chunks, and of the others.
LEMMA CarriedOn ==
    ASSUME NEW cs \in Seq(ChunkSet), NEW ts, cs # <<>>, Carries(cs, ts)
    PROVE  \/ Head(cs).tools = ts /\ Carries(Tail(cs), <<>>)
           \/ Head(cs).tools = <<>> /\ Carries(Tail(cs), ts)
<1> DEFINE rest == Tail(cs)
           c == Head(cs)
<1>1. /\ rest \in Seq(ChunkSet) /\ Len(rest) = Len(cs) - 1 /\ Len(cs) \in Nat /\ Len(cs) >= 1
      /\ \A i \in 1 .. Len(rest) : rest[i] = cs[i + 1]
      /\ c = cs[1]
  BY HeadTailProperties, EmptySeq, LenProperties
<1> HIDE DEF rest, c
<1>2. \A i \in 1 .. Len(rest) : i + 1 \in 1 .. Len(cs) /\ i + 1 # 1 /\ i \in Nat
  BY <1>1
<1>3. 1 \in 1 .. Len(cs) /\ (c.tools = <<>> \/ c.tools = ts)
  BY <1>1 DEF Carries
<1>4. CASE c.tools # <<>>
  <2>1. \A i \in 1 .. Len(rest) : rest[i].tools = <<>>
    BY <1>1, <1>2, <1>3, <1>4 DEF Carries
  <2>2. Carries(rest, <<>>)
    BY <2>1 DEF Carries
  <2>3. QED
    BY <1>3, <1>4, <2>2 DEF rest, c
<1>5. CASE c.tools = <<>>
  <2>1. \A i \in 1 .. Len(rest) : rest[i].tools = <<>> \/ rest[i].tools = ts
    BY <1>1, <1>2 DEF Carries
  <2>2. \A i, j \in 1 .. Len(rest) : rest[i].tools # <<>> /\ rest[j].tools # <<>> => i = j
    <3> SUFFICES ASSUME NEW i \in 1 .. Len(rest), NEW j \in 1 .. Len(rest),
                        rest[i].tools # <<>>, rest[j].tools # <<>>
                 PROVE  i = j
      OBVIOUS
    <3>1. i + 1 = j + 1
      BY <1>1, <1>2 DEF Carries
    <3>2. QED
      BY <1>2, <3>1
  <2>3. ASSUME ts # <<>> PROVE \E i \in 1 .. Len(rest) : rest[i].tools = ts
    <3>1. PICK k \in 1 .. Len(cs) : cs[k].tools = ts
      BY <2>3 DEF Carries
    <3>2. k # 1
      BY <1>1, <1>5, <2>3, <3>1
    <3>3. k - 1 \in 1 .. Len(rest) /\ k - 1 + 1 = k
      BY <1>1, <3>2
    <3>4. QED
      BY <1>1, <3>1, <3>3
  <2>4. QED
    BY <1>5, <2>1, <2>2, <2>3 DEF Carries, rest, c
<1>6. QED
  BY <1>4, <1>5

\* Nothing after, and the first of a list moved to the one before it.
LEMMA Moved ==
    /\ \A s \in Seq(Calls) : s \o <<>> = s /\ <<>> \o s = s
    /\ \A s, t \in Seq(Calls) :
         t # <<>> => Append(s, Head(t)) \o Tail(t) = s \o t
    /\ \A s, t \in Seq(Calls) : s \o t \in Seq(Calls)
<1>1. \A s \in Seq(Calls) : s \o <<>> = s /\ <<>> \o s = s
  OBVIOUS
<1>2. ASSUME NEW s \in Seq(Calls), NEW t \in Seq(Calls), t # <<>>
      PROVE  Append(s, Head(t)) \o Tail(t) = s \o t
  <2>1. /\ Head(t) \in Calls /\ Tail(t) \in Seq(Calls) /\ Len(Tail(t)) = Len(t) - 1
        /\ Head(t) = t[1] /\ \A i \in 1 .. Len(Tail(t)) : Tail(t)[i] = t[i + 1]
        /\ Len(s) \in Nat /\ Len(t) \in Nat /\ Len(t) >= 1
    BY <1>2, HeadTailProperties, EmptySeq, LenProperties
  <2> DEFINE h == Head(t)
             r == Tail(t)
             a == Append(s, h)
  <2>2. h \in Calls /\ r \in Seq(Calls)
    BY <2>1
  <2>3. /\ a \in Seq(Calls) /\ Len(a) = Len(s) + 1 /\ a[Len(s) + 1] = h
        /\ \A i \in 1 .. Len(s) : a[i] = s[i]
    BY <2>2, AppendProperties
  <2> HIDE DEF h, r, a
  <2>4. /\ a \o r \in Seq(Calls) /\ s \o t \in Seq(Calls)
        /\ Len(a \o r) = Len(a) + Len(r) /\ Len(s \o t) = Len(s) + Len(t)
        /\ \A i \in 1 .. Len(a) + Len(r) : (a \o r)[i] = IF i <= Len(a) THEN a[i] ELSE r[i - Len(a)]
        /\ \A i \in 1 .. Len(s) + Len(t) : (s \o t)[i] = IF i <= Len(s) THEN s[i] ELSE t[i - Len(s)]
    BY <2>2, <2>3, ConcatProperties
  <2>5. Len(r) = Len(t) - 1 /\ h = t[1] /\ \A i \in 1 .. Len(r) : r[i] = t[i + 1]
    BY <2>1 DEF h, r
  <2>6. ASSUME NEW i \in 1 .. Len(s) + Len(t) PROVE (a \o r)[i] = (s \o t)[i]
    <3>1. CASE i <= Len(s)
      BY <2>1, <2>3, <2>4, <2>5, <3>1
    <3>2. CASE i = Len(s) + 1
      <4>1. i - Len(s) = 1 /\ i <= Len(a) /\ ~(i <= Len(s)) /\ i \in 1 .. Len(a) + Len(r)
        BY <2>1, <2>3, <2>5, <3>2
      <4>2. (a \o r)[i] = h
        BY <2>3, <2>4, <3>2, <4>1
      <4>3. (s \o t)[i] = t[1]
        BY <2>4, <4>1
      <4>4. QED
        BY <2>5, <4>2, <4>3
    <3>3. CASE i > Len(s) + 1
      <4>1. /\ ~(i <= Len(a)) /\ ~(i <= Len(s)) /\ i \in 1 .. Len(a) + Len(r)
            /\ i - Len(a) \in 1 .. Len(r) /\ i - Len(a) + 1 = i - Len(s)
        BY <2>1, <2>3, <2>5, <3>3
      <4>2. (a \o r)[i] = r[i - Len(a)]
        BY <2>4, <4>1
      <4>3. (s \o t)[i] = t[i - Len(s)]
        BY <2>4, <4>1
      <4>4. QED
        BY <2>5, <4>1, <4>2, <4>3
    <3>4. i <= Len(s) \/ i = Len(s) + 1 \/ i > Len(s) + 1
      BY <2>1
    <3>5. QED
      BY <3>1, <3>2, <3>3, <3>4
  <2>7. a \o r = s \o t
    <3>1. Len(a \o r) = Len(s \o t) /\ Len(s \o t) = Len(s) + Len(t)
      BY <2>1, <2>3, <2>4, <2>5
    <3>2. QED
      BY <2>4, <2>6, <3>1, SeqEqual
  <2>8. QED
    BY <2>7 DEF a, h, r
<1>3. \A s, t \in Seq(Calls) : s \o t \in Seq(Calls)
  OBVIOUS
<1>4. QED
  BY <1>1, <1>2, <1>3

\* The calls a client has after a begun one is filled in.
LEMMA FilledIn ==
    ASSUME NEW done \in Seq(Calls), NEW c \in Calls
    PROVE  Filled(Append(done, Tool(c.id, 0)), c.args) = Append(done, c)
<1> DEFINE b == Tool(c.id, 0)
           s == Append(done, b)
           n == Len(done) + 1
<1>1. b \in Calls /\ b.args = 0 /\ c.args \in Nat /\ [b EXCEPT !.args = @ + c.args] = c
  BY DEF Tool, Calls
<1> HIDE DEF b
<1>2. /\ s \in Seq(Calls) /\ Len(s) = n /\ s[n] = b /\ n \in Nat
      /\ \A i \in 1 .. Len(done) : s[i] = done[i]
  BY <1>1, AppendProperties, LenProperties
<1> DEFINE t == [s EXCEPT ![n] = c]
           u == Append(done, c)
<1>3. /\ u \in Seq(Calls) /\ Len(u) = n /\ u[n] = c
      /\ \A i \in 1 .. Len(done) : u[i] = done[i]
  BY AppendProperties
<1>4. n \in 1 .. Len(s)
  BY <1>2
<1> HIDE DEF s, u
<1>5. t \in Seq(Calls) /\ Len(t) = Len(s) /\ \A i \in 1 .. Len(s) : t[i] = IF i = n THEN c ELSE s[i]
  BY <1>2, <1>4, ExceptSeq
<1>6. \A i \in 1 .. n : i = n \/ i \in 1 .. Len(done)
  BY <1>2
<1> HIDE DEF t, n
<1>7. t = u
  <2>1. Len(t) = Len(u) /\ \A i \in 1 .. Len(t) : t[i] = u[i]
    BY <1>2, <1>3, <1>5, <1>6
  <2>2. QED
    BY <1>3, <1>5, <2>1, SeqEqual
<1>8. Filled(s, c.args) = t
  <2>1. Filled(s, c.args) = [s EXCEPT ![n] = [s[n] EXCEPT !.args = @ + c.args]]
    BY <1>2 DEF Filled
  <2>2. QED
    BY <1>1, <1>2, <2>1 DEF t
<1>9. QED
  BY <1>7, <1>8 DEF s, b, u

\* A chunk is read, a call is begun, filled in and closed.
LEMMA CallsFetched ==
    ASSUME NEW q, NEW vt, NEW cs \in Seq(ChunkSet), NEW ct, cs # <<>>,
           CallsFlow(q, vt, cs, ct, "fetch")
    PROVE  CallsFlow(q, vt, Tail(cs), Head(cs).tools, "think")
<1>1. PICK done \in Seq(Calls), due \in Seq(Calls) :
        Carries(cs, due) /\ vt = done /\ q = (done \o <<>>) \o due
  BY DEF CallsFlow, InChunk
<1>2. done \o <<>> = done /\ <<>> \in Seq(Calls) /\ done \o due \in Seq(Calls)
  BY Moved
<1>3. q = done \o due
  BY <1>1, <1>2
<1>4. CASE Head(cs).tools = due /\ Carries(Tail(cs), <<>>)
  <2>1. q = (done \o due) \o <<>>
    BY <1>2, <1>3, Moved
  <2>2. QED
    BY <1>1, <1>2, <1>4, <2>1 DEF CallsFlow, InChunk
<1>5. CASE Head(cs).tools = <<>> /\ Carries(Tail(cs), due)
  BY <1>1, <1>2, <1>3, <1>5 DEF CallsFlow, InChunk
<1>6. QED
  BY <1>1, <1>4, <1>5, CarriedOn

\* The client is shown the first of the chunk's calls, piece by piece.
LEMMA CallsShown ==
    ASSUME NEW q, NEW vt, NEW cs, NEW ct \in Seq(Calls), ct # <<>>
    PROVE  /\ CallsFlow(q, vt, cs, ct, "tools") =>
                CallsFlow(q, Append(vt, Tool(Head(ct).id, 0)), cs, ct, "input")
           /\ CallsFlow(q, vt, cs, ct, "input") =>
                CallsFlow(q, Filled(vt, Head(ct).args), cs, ct, "close")
           /\ CallsFlow(q, vt, cs, ct, "close") =>
                CallsFlow(q, vt, cs, Tail(ct), "tools")
<1>1. Head(ct) \in Calls /\ Tail(ct) \in Seq(Calls)
  BY HeadTailProperties
<1>2. CallsFlow(q, vt, cs, ct, "tools") =>
        CallsFlow(q, Append(vt, Tool(Head(ct).id, 0)), cs, ct, "input")
  BY DEF CallsFlow, InChunk
<1>3. ASSUME CallsFlow(q, vt, cs, ct, "input")
      PROVE  CallsFlow(q, Filled(vt, Head(ct).args), cs, ct, "close")
  <2>1. PICK done \in Seq(Calls), due \in Seq(Calls) :
          /\ Carries(cs, due) /\ vt = Append(done, Tool(Head(ct).id, 0))
          /\ q = (done \o ct) \o due
    BY <1>3 DEF CallsFlow, InChunk
  <2>2. Filled(vt, Head(ct).args) = Append(done, Head(ct))
    BY <1>1, <2>1, FilledIn
  <2>3. QED
    BY <2>1, <2>2 DEF CallsFlow, InChunk
<1>4. ASSUME CallsFlow(q, vt, cs, ct, "close")
      PROVE  CallsFlow(q, vt, cs, Tail(ct), "tools")
  <2>1. PICK done \in Seq(Calls), due \in Seq(Calls) :
          /\ Carries(cs, due) /\ vt = Append(done, Head(ct))
          /\ q = (done \o ct) \o due
    BY <1>4 DEF CallsFlow, InChunk
  <2>2. vt \in Seq(Calls)
    BY <1>1, <2>1
  <2>3. vt \o Tail(ct) = done \o ct
    BY <2>1, Moved
  <2>4. QED
    BY <2>1, <2>2, <2>3 DEF CallsFlow, InChunk
<1>5. QED
  BY <1>2, <1>3, <1>4

\* What the emitter does to calls on their way.
LEMMA CallsEmitted ==
    ASSUME UsageInv, Emitter \/ Leave, NEW q,
           CallsFlow(q, view.tools, chunks, chunk.tools, at)
    PROVE  CallsFlow(q, view'.tools, chunks', chunk'.tools, at')
<1>1. /\ StreamInv /\ chunks \in Seq(ChunkSet) /\ chunk \in ChunkSet /\ chunk.tools \in Seq(Calls)
      /\ at \in {"input", "close"} => chunk.tools # <<>>
  BY DEF UsageInv, StreamTypes, ChunkSet
<1>2. CASE Fetch
  <2>1. /\ at = "fetch" /\ at' = "think" /\ chunks # <<>>
        /\ chunk' = Head(chunks) /\ chunks' = Tail(chunks) /\ view' = view
    BY <1>2 DEF Fetch
  <2>2. QED
    BY <1>1, <2>1, CallsFetched
<1>3. CASE OpenTool
  <2>1. /\ at = "tools" /\ at' = "input" /\ chunk.tools # <<>> /\ chunks' = chunks /\ chunk' = chunk
    BY <1>3 DEF OpenTool
  <2>2. view'.tools = Append(view.tools, Tool(Head(chunk.tools).id, 0))
    BY <1>1, <1>3, EmitterAdds DEF CallAdded
  <2>3. QED
    BY <1>1, <2>1, <2>2, CallsShown
<1>4. CASE ToolDelta
  <2>1. /\ at = "input" /\ at' = "close" /\ chunks' = chunks /\ chunk' = chunk
    BY <1>4 DEF ToolDelta
  <2>2. view'.tools = Filled(view.tools, Head(chunk.tools).args)
    BY <1>1, <1>4, EmitterAdds DEF InputAdded
  <2>3. QED
    BY <1>1, <2>1, <2>2, CallsShown
<1>5. CASE CloseTool
  <2>1. /\ at = "close" /\ at' = "tools" /\ chunks' = chunks
        /\ chunk' = [chunk EXCEPT !.tools = Tail(@)] /\ view' = ReadBlockStop(view, em.next - 1)
    BY <1>5 DEF CloseTool
  <2>2. chunk'.tools = Tail(chunk.tools)
    BY <1>1, <2>1 DEF ChunkSet
  <2>3. view'.tools = view.tools
    BY <1>1, <2>1, ReadingKeeps DEF StreamInv, Kept
  <2>4. QED
    BY <1>1, <2>1, <2>2, <2>3, CallsShown
<1>6. CASE ~Fetch /\ ~OpenTool /\ ~ToolDelta /\ ~CloseTool
  <2>1. chunks' = chunks /\ chunk' = chunk
    BY <1>6 DEF Emitter, Begin, OpenThinking, ThinkDelta, NoThought, CloseThinking,
           OpenText, TextDelta, NoText, CloseText, Take, Conclude, Stop, Leave
  <2>2. view'.tools = view.tools
    BY <1>1, <1>6, EmitterAdds DEF Kept, TextAdded, EndAdded
  <2>3. \/ at' = at
        \/ at \in {"think", "text", "tools"} /\ at' \in {"think", "text", "tools"}
        \/ at \notin InChunk /\ at' \notin InChunk
        \/ at = "tools" /\ chunk.tools = <<>> /\ at' = "fetch"
    BY <1>6 DEF InChunk, Emitter, Begin, OpenThinking, ThinkDelta, NoThought, CloseThinking,
           OpenText, TextDelta, NoText, CloseText, Take, Conclude, Stop, Leave
  <2>4. CallsFlow(q, view.tools, chunks, chunk.tools, at')
    BY <2>3 DEF CallsFlow, InChunk
  <2>5. QED
    BY <2>1, <2>2, <2>4
<1>7. QED
  BY <1>2, <1>3, <1>4, <1>5, <1>6

\* The calls an adapter hands on are on their way.
LEMMA CallsHanded ==
    ASSUME NEW q, NEW vt, NEW cs, NEW ct, NEW ts \in Seq(Calls),
           CallsFlow(q, vt, <<>>, ct, "fetch"), Carries(cs, ts)
    PROVE  q = vt /\ q \in Seq(Calls) /\ CallsFlow(q \o ts, vt, cs, ct, "fetch")
<1>1. PICK done \in Seq(Calls), due \in Seq(Calls) :
        Carries(<<>>, due) /\ vt = done /\ q = (done \o <<>>) \o due
  BY DEF CallsFlow, InChunk
<1>2. due = <<>>
  <2>1. ~ \E i \in 1 .. Len(<<>>) : TRUE
    OBVIOUS
  <2>2. QED
    BY <1>1, <2>1 DEF Carries
<1>3. q = done /\ done \o <<>> = done
  BY <1>1, <1>2, Moved
<1>4. QED
  BY <1>1, <1>3 DEF CallsFlow, InChunk

\* The calls q are those of the answer as far as it goes, in its order.
Gathered(q, ts) == Len(q) = Len(ts) /\ \A i \in 1 .. Len(q) : q[i] = Tool(i, ts[i].args)

\* They are the closed ones; the one that may be open is the last, and is the adapter's
\* current one.
Sequenced(q, ts, a) ==
    /\ Len(q) = Len(ts) \/ Len(q) + 1 = Len(ts)
    /\ \A i \in 1 .. Len(q) : q[i] = Tool(i, ts[i].args) /\ ts[i].closed
    /\ Len(q) + 1 = Len(ts) =>
         ~ts[Len(ts)].closed /\ a.current = Len(ts) /\ a.input = ts[Len(ts)].args

\* They are the closed ones, each once, in any order, and the adapter knows all.
Completed(q, ts, a) ==
    /\ 1 .. Len(ts) \subseteq a.calls
    /\ \A k \in 1 .. Len(q) :
         /\ q[k].id \in 1 .. Len(ts) /\ ts[q[k].id].closed
         /\ q[k] = Tool(q[k].id, ts[q[k].id].args)
    /\ \A i \in 1 .. Len(ts) : ts[i].closed => \E k \in 1 .. Len(q) : q[k].id = i
    /\ \A j, k \in 1 .. Len(q) : q[j].id = q[k].id => j = k

\* The calls q an adapter has handed on by now are those its wire hands on as they are
\* closed, none on a wire that keeps them for the end, and all at the end.
Given(w, q, ts, a, over) ==
    IF over
    THEN IF w = "responses" THEN Completed(q, ts, a) /\ \A i \in 1 .. Len(ts) : ts[i].closed
         ELSE Gathered(q, ts)
    ELSE CASE w = "responses" -> Completed(q, ts, a)
           [] w = "anthropic" -> Sequenced(q, ts, a)
           [] w = "converse" -> q = <<>> /\ Sequenced(a.pending, ts, a)
           [] OTHER -> q = <<>> /\ Gathered(a.pending, ts)

\* One more at the end of a list.
LEMMA OneMore ==
    ASSUME NEW S, NEW s \in Seq(S), NEW x \in S
    PROVE  /\ Append(s, x) \in Seq(S) /\ Len(s) \in Nat /\ Len(Append(s, x)) = Len(s) + 1
           /\ \A i \in 1 .. Len(Append(s, x)) :
                \/ i \in 1 .. Len(s) /\ i # Len(s) + 1 /\ Append(s, x)[i] = s[i]
                \/ i = Len(s) + 1 /\ i \notin 1 .. Len(s) /\ Append(s, x)[i] = x
           /\ \A i \in 1 .. Len(s) : i \in 1 .. Len(Append(s, x))
           /\ Len(s) + 1 \in 1 .. Len(Append(s, x))
<1> DEFINE t == Append(s, x)
<1>1. /\ t \in Seq(S) /\ Len(s) \in Nat /\ Len(t) = Len(s) + 1
      /\ \A i \in 1 .. Len(s) : t[i] = s[i]
      /\ t[Len(s) + 1] = x
  BY AppendProperties, LenProperties
<1> HIDE DEF t
<1>2. \A i \in 1 .. Len(t) :
        \/ i \in 1 .. Len(s) /\ i # Len(s) + 1
        \/ i = Len(s) + 1 /\ i \notin 1 .. Len(s)
  <2> DEFINE n == Len(s)
  <2>1. n \in Nat /\ Len(t) = n + 1
    BY <1>1
  <2> HIDE DEF n
  <2>2. \A i \in 1 .. n + 1 :
          \/ i \in 1 .. n /\ i # n + 1
          \/ i = n + 1 /\ i \notin 1 .. n
    BY <2>1
  <2>3. QED
    BY <2>1, <2>2 DEF n
<1>3. (\A i \in 1 .. Len(s) : i \in 1 .. Len(t)) /\ Len(s) + 1 \in 1 .. Len(t)
  BY <1>1
<1>4. QED
  BY <1>1, <1>2, <1>3 DEF t

\* One of a list is filled in, and the others are as they were.
LEMMA OneFilled ==
    ASSUME NEW q \in Seq(Calls), NEW i \in 1 .. Len(q)
    PROVE  LET r == [q EXCEPT ![i].args = @ + 1] IN
           /\ r \in Seq(Calls) /\ Len(r) = Len(q)
           /\ \A j \in 1 .. Len(q) :
                r[j] = IF j = i THEN Tool(q[i].id, q[i].args + 1) ELSE q[j]
<1> DEFINE c == Tool(q[i].id, q[i].args + 1)
<1>1. q[i] \in Calls /\ c \in Calls
  <2>1. q[i] \in Calls
    BY ElementOfSeq
  <2>2. QED
    BY <2>1 DEF Calls, Tool
<1>2. [q[i] EXCEPT !.args = @ + 1] = c
  BY <1>1 DEF Calls, Tool
<1> HIDE DEF c
<1>3. /\ [q EXCEPT ![i] = c] \in Seq(Calls) /\ Len([q EXCEPT ![i] = c]) = Len(q)
      /\ \A j \in 1 .. Len(q) : [q EXCEPT ![i] = c][j] = IF j = i THEN c ELSE q[j]
  BY <1>1, ExceptSeq
<1>4. [q EXCEPT ![i].args = @ + 1] = [q EXCEPT ![i] = c]
  BY <1>2
<1>5. QED
  BY <1>3, <1>4 DEF c

\* One of a list is filled in or closed, and the others are as they were.
LEMMA OneChanged ==
    ASSUME NEW ts \in Seq(Progress), NEW i \in 1 .. Len(ts)
    PROVE  /\ LET us == [ts EXCEPT ![i].args = @ + 1] IN
              /\ us \in Seq(Progress) /\ Len(us) = Len(ts)
              /\ \A j \in 1 .. Len(ts) :
                   /\ us[j].args = (IF j = i THEN ts[i].args + 1 ELSE ts[j].args)
                   /\ us[j].closed = ts[j].closed
           /\ LET us == [ts EXCEPT ![i].closed = TRUE] IN
              /\ us \in Seq(Progress) /\ Len(us) = Len(ts)
              /\ us[i].args = ts[i].args /\ us[i].closed
              /\ \A j \in 1 .. Len(ts) : j # i => us[j] = ts[j]
<1> DEFINE c == [ts[i] EXCEPT !.args = @ + 1]
           d == [ts[i] EXCEPT !.closed = TRUE]
<1>1. ts[i] \in Progress
  BY ElementOfSeq
<1>2. c \in Progress /\ c.args = ts[i].args + 1 /\ c.closed = ts[i].closed
  BY <1>1 DEF Progress
<1>3. d \in Progress /\ d.args = ts[i].args /\ d.closed = TRUE
  BY <1>1 DEF Progress
<1> HIDE DEF c, d
<1>4. /\ [ts EXCEPT ![i] = c] \in Seq(Progress) /\ Len([ts EXCEPT ![i] = c]) = Len(ts)
      /\ \A j \in 1 .. Len(ts) : [ts EXCEPT ![i] = c][j] = IF j = i THEN c ELSE ts[j]
  BY <1>2, ExceptSeq
<1>5. /\ [ts EXCEPT ![i] = d] \in Seq(Progress) /\ Len([ts EXCEPT ![i] = d]) = Len(ts)
      /\ \A j \in 1 .. Len(ts) : [ts EXCEPT ![i] = d][j] = IF j = i THEN d ELSE ts[j]
  BY <1>3, ExceptSeq
<1>6. LET us == [ts EXCEPT ![i].args = @ + 1] IN
      /\ us \in Seq(Progress) /\ Len(us) = Len(ts)
      /\ \A j \in 1 .. Len(ts) :
           /\ us[j].args = (IF j = i THEN ts[i].args + 1 ELSE ts[j].args)
           /\ us[j].closed = ts[j].closed
  <2>1. [ts EXCEPT ![i].args = @ + 1] = [ts EXCEPT ![i] = c]
    BY DEF c
  <2>2. QED
    BY <1>2, <1>4, <2>1
<1>7. LET us == [ts EXCEPT ![i].closed = TRUE] IN
      /\ us \in Seq(Progress) /\ Len(us) = Len(ts)
      /\ us[i].args = ts[i].args /\ us[i].closed
      /\ \A j \in 1 .. Len(ts) : j # i => us[j] = ts[j]
  <2>1. [ts EXCEPT ![i].closed = TRUE] = [ts EXCEPT ![i] = d]
    BY DEF d
  <2>2. QED
    BY <1>3, <1>5, <2>1
<1>8. QED
  BY <1>6, <1>7

\* One of a list of calls is longer by a fragment, and one is closed.
Longer(s, i) == [s EXCEPT ![i].args = @ + 1]
Shut(ts, i) == [ts EXCEPT ![i].closed = TRUE]
Begun(n, shut) == [args |-> n, closed |-> shut]

\* Gathering by index.
LEMMA GatheredCall ==
    ASSUME NEW q \in Seq(Calls), NEW ts \in Seq(Progress), NEW n \in Nat, NEW shut \in BOOLEAN,
           Gathered(q, ts)
    PROVE  Gathered(Append(q, Tool(Len(ts) + 1, n)), Append(ts, Begun(n, shut)))
<1> DEFINE c == Tool(Len(ts) + 1, n)
           p == Begun(n, shut)
           r == Append(q, c)
           us == Append(ts, p)
<1>1. Len(ts) \in Nat /\ Len(q) = Len(ts)
  BY LenProperties DEF Gathered
<1>2. c \in Calls /\ p \in Progress /\ p.args = n
  BY <1>1 DEF Tool, Calls, Begun, Progress
<1> HIDE DEF p
<1>3. /\ Len(r) = Len(q) + 1
      /\ \A i \in 1 .. Len(r) :
           \/ i \in 1 .. Len(q) /\ i # Len(q) + 1 /\ r[i] = q[i]
           \/ i = Len(q) + 1 /\ i \notin 1 .. Len(q) /\ r[i] = c
  BY <1>2, OneMore
<1>4. /\ Len(us) = Len(ts) + 1
      /\ \A i \in 1 .. Len(us) :
           \/ i \in 1 .. Len(ts) /\ i # Len(ts) + 1 /\ us[i] = ts[i]
           \/ i = Len(ts) + 1 /\ i \notin 1 .. Len(ts) /\ us[i] = p
  BY <1>2, OneMore
<1> HIDE DEF r, us
<1>5. \A i \in 1 .. Len(r) : r[i] = Tool(i, us[i].args)
  BY <1>1, <1>2, <1>3, <1>4 DEF Gathered
<1>6. Gathered(r, us)
  BY <1>1, <1>3, <1>4, <1>5 DEF Gathered
<1>7. QED
  BY <1>6 DEF r, us, p

\* A fragment is gathered into the call it belongs to.
LEMMA GatheredFragment ==
    ASSUME NEW q \in Seq(Calls), NEW ts \in Seq(Progress), NEW i \in 1 .. Len(ts), Gathered(q, ts)
    PROVE  Gathered(Longer(q, i), Longer(ts, i))
<1> DEFINE r == Longer(q, i)
           us == Longer(ts, i)
<1>1. i \in 1 .. Len(q) /\ Len(q) = Len(ts) /\ q[i] = Tool(i, ts[i].args)
  BY DEF Gathered
<1>2. /\ Len(r) = Len(q)
      /\ \A j \in 1 .. Len(q) : r[j] = IF j = i THEN Tool(q[i].id, q[i].args + 1) ELSE q[j]
  BY <1>1, OneFilled DEF Longer
<1>3. /\ Len(us) = Len(ts)
      /\ \A j \in 1 .. Len(ts) :
           /\ us[j].args = (IF j = i THEN ts[i].args + 1 ELSE ts[j].args)
           /\ us[j].closed = ts[j].closed
  BY OneChanged DEF Longer
<1> HIDE DEF r, us
<1>4. q[i].id = i /\ q[i].args = ts[i].args
  BY <1>1 DEF Tool
<1>5. Gathered(r, us)
  BY <1>1, <1>2, <1>3, <1>4 DEF Gathered
<1>6. QED
  BY <1>5 DEF r, us

\* One call after the other.
LEMMA SequencedCall ==
    ASSUME NEW q \in Seq(Calls), NEW ts \in Seq(Progress), NEW a, NEW b, Sequenced(q, ts, a),
           \A i \in 1 .. Len(ts) : ts[i].closed,
           b.current = Len(ts) + 1, b.input = 0
    PROVE  Sequenced(q, Append(ts, Begun(0, FALSE)), b)
<1> DEFINE p == Begun(0, FALSE)
           us == Append(ts, p)
<1>1. Len(ts) \in Nat /\ Len(q) \in Nat /\ Len(q) = Len(ts)
  <2>1. Len(ts) \in Nat /\ Len(q) \in Nat
    BY LenProperties
  <2>2. Len(q) + 1 = Len(ts) => Len(ts) \in 1 .. Len(ts)
    BY <2>1
  <2>3. QED
    BY <2>1, <2>2 DEF Sequenced
<1>2. p \in Progress /\ p.args = 0 /\ p.closed = FALSE
  BY DEF Begun, Progress
<1> HIDE DEF p
<1>3. /\ Len(us) = Len(ts) + 1
      /\ \A i \in 1 .. Len(us) :
           \/ i \in 1 .. Len(ts) /\ i # Len(ts) + 1 /\ us[i] = ts[i]
           \/ i = Len(ts) + 1 /\ i \notin 1 .. Len(ts) /\ us[i] = p
      /\ \A i \in 1 .. Len(ts) : i \in 1 .. Len(us)
      /\ Len(ts) + 1 \in 1 .. Len(us)
  BY <1>2, OneMore
<1> HIDE DEF us
<1>4. \A i \in 1 .. Len(q) : q[i] = Tool(i, us[i].args) /\ us[i].closed
  BY <1>1, <1>3 DEF Sequenced
<1>5. us[Len(us)] = p
  BY <1>3
<1>6. Sequenced(q, us, b)
  BY <1>1, <1>2, <1>3, <1>4, <1>5 DEF Sequenced
<1>7. QED
  BY <1>6 DEF us, p

\* The call that is open is the last.
LEMMA OpenIsLast ==
    ASSUME NEW q \in Seq(Calls), NEW ts \in Seq(Progress), NEW a, NEW i \in 1 .. Len(ts),
           Sequenced(q, ts, a), ~ts[i].closed
    PROVE  /\ Len(q) \in Nat /\ Len(ts) \in Nat
           /\ i = Len(ts) /\ i = Len(q) + 1 /\ i \notin 1 .. Len(q)
           /\ a.current = i /\ a.input = ts[i].args
<1>1. Len(q) \in Nat /\ Len(ts) \in Nat
  BY LenProperties
<1>2. i \notin 1 .. Len(q)
  BY DEF Sequenced
<1>3. i = Len(q) + 1 /\ i = Len(ts)
  BY <1>1, <1>2 DEF Sequenced
<1>4. QED
  BY <1>1, <1>2, <1>3 DEF Sequenced

\* A fragment belongs to the call that is open.
LEMMA SequencedFragment ==
    ASSUME NEW q \in Seq(Calls), NEW ts \in Seq(Progress), NEW a, NEW b, NEW i \in 1 .. Len(ts),
           Sequenced(q, ts, a), ~ts[i].closed,
           b.current = a.current, b.input = a.input + 1
    PROVE  Sequenced(q, Longer(ts, i), b)
<1> DEFINE us == Longer(ts, i)
<1>1. /\ Len(q) \in Nat /\ Len(ts) \in Nat
      /\ i = Len(ts) /\ i = Len(q) + 1 /\ i \notin 1 .. Len(q)
      /\ a.current = i /\ a.input = ts[i].args
  BY OpenIsLast
<1>2. /\ Len(us) = Len(ts)
      /\ \A j \in 1 .. Len(ts) :
           /\ us[j].args = (IF j = i THEN ts[i].args + 1 ELSE ts[j].args)
           /\ us[j].closed = ts[j].closed
  BY OneChanged DEF Longer
<1> HIDE DEF us
<1>3. \A j \in 1 .. Len(q) : j \in 1 .. Len(ts) /\ j # i
  BY <1>1
<1>4. \A j \in 1 .. Len(q) : q[j] = Tool(j, us[j].args) /\ us[j].closed
  BY <1>2, <1>3 DEF Sequenced
<1>5. Sequenced(q, us, b)
  BY <1>1, <1>2, <1>4 DEF Sequenced
<1>6. QED
  BY <1>5 DEF us

\* The open call is closed and handed on.
LEMMA SequencedStop ==
    ASSUME NEW q \in Seq(Calls), NEW ts \in Seq(Progress), NEW a, NEW b, NEW i \in 1 .. Len(ts),
           Sequenced(q, ts, a), ~ts[i].closed, a.current \in Nat, a.input \in Nat
    PROVE  Sequenced(Append(q, Tool(a.current, a.input)), Shut(ts, i), b)
<1> DEFINE us == Shut(ts, i)
           c == Tool(a.current, a.input)
           r == Append(q, c)
<1>1. /\ Len(q) \in Nat /\ Len(ts) \in Nat
      /\ i = Len(ts) /\ i = Len(q) + 1 /\ i \notin 1 .. Len(q)
      /\ a.current = i /\ a.input = ts[i].args
  BY OpenIsLast
<1>2. /\ Len(us) = Len(ts) /\ us[i].args = ts[i].args /\ us[i].closed
      /\ \A j \in 1 .. Len(ts) : j # i => us[j] = ts[j]
  BY OneChanged DEF Shut
<1>3. c \in Calls
  BY DEF Tool, Calls
<1>4. /\ Len(r) = Len(q) + 1
      /\ \A j \in 1 .. Len(r) :
           \/ j \in 1 .. Len(q) /\ j # Len(q) + 1 /\ r[j] = q[j]
           \/ j = Len(q) + 1 /\ j \notin 1 .. Len(q) /\ r[j] = c
  BY <1>3, OneMore
<1>5. c = Tool(i, ts[i].args)
  BY <1>1
<1> HIDE DEF us, r, c
<1>6. \A j \in 1 .. Len(q) : j \in 1 .. Len(ts) /\ j # i
  BY <1>1
<1>7. \A j \in 1 .. Len(r) : r[j] = Tool(j, us[j].args) /\ us[j].closed
  <2> SUFFICES ASSUME NEW j \in 1 .. Len(r) PROVE r[j] = Tool(j, us[j].args) /\ us[j].closed
    OBVIOUS
  <2>1. CASE j \in 1 .. Len(q) /\ r[j] = q[j]
    BY <1>2, <1>6, <2>1 DEF Sequenced
  <2>2. CASE j = Len(q) + 1 /\ r[j] = c
    BY <1>1, <1>2, <1>5, <2>2
  <2>3. QED
    BY <1>4, <2>1, <2>2
<1>8. Len(r) = Len(us) /\ Len(us) \in Nat
  BY <1>1, <1>2, <1>4
<1>9. Sequenced(r, us, b)
  BY <1>7, <1>8 DEF Sequenced
<1>10. QED
  BY <1>9 DEF us, r, c

\* Nothing happens to the calls, and none is open at the end.
LEMMA SequencedStays ==
    ASSUME NEW q \in Seq(Calls), NEW ts \in Seq(Progress), NEW a, Sequenced(q, ts, a)
    PROVE  /\ \A b : b.current = a.current /\ b.input = a.input => Sequenced(q, ts, b)
           /\ (\A i \in 1 .. Len(ts) : ts[i].closed) => Gathered(q, ts)
<1>1. \A b : b.current = a.current /\ b.input = a.input => Sequenced(q, ts, b)
  BY DEF Sequenced
<1>2. ASSUME \A i \in 1 .. Len(ts) : ts[i].closed PROVE Gathered(q, ts)
  <2>1. Len(ts) \in Nat /\ Len(q) \in Nat
    BY LenProperties
  <2>2. Len(q) + 1 = Len(ts) => Len(ts) \in 1 .. Len(ts)
    BY <2>1
  <2>3. Len(q) = Len(ts)
    BY <1>2, <2>1, <2>2 DEF Sequenced
  <2>4. QED
    BY <2>3 DEF Sequenced, Gathered
<1>3. QED
  BY <1>1, <1>2

\* As they are closed.
LEMMA CompletedCall ==
    ASSUME NEW q \in Seq(Calls), NEW ts \in Seq(Progress), NEW a, NEW b, Completed(q, ts, a),
           b.calls = a.calls \cup {Len(ts) + 1}
    PROVE  Completed(q, Append(ts, Begun(0, FALSE)), b)
<1> DEFINE p == Begun(0, FALSE)
           us == Append(ts, p)
<1>2. p \in Progress /\ p.args = 0 /\ p.closed = FALSE
  BY DEF Begun, Progress
<1> HIDE DEF p
<1>3. /\ Len(us) = Len(ts) + 1
      /\ \A i \in 1 .. Len(us) :
           \/ i \in 1 .. Len(ts) /\ i # Len(ts) + 1 /\ us[i] = ts[i]
           \/ i = Len(ts) + 1 /\ i \notin 1 .. Len(ts) /\ us[i] = p
      /\ \A i \in 1 .. Len(ts) : i \in 1 .. Len(us)
  BY <1>2, OneMore
<1> HIDE DEF us
<1>4. \A i \in 1 .. Len(ts) : us[i] = ts[i]
  BY <1>3
<1>5. 1 .. Len(us) \subseteq b.calls
  BY <1>3 DEF Completed
<1>6. \A k \in 1 .. Len(q) :
         /\ q[k].id \in 1 .. Len(us) /\ us[q[k].id].closed
         /\ q[k] = Tool(q[k].id, us[q[k].id].args)
  BY <1>3, <1>4 DEF Completed
<1>7. \A i \in 1 .. Len(us) : us[i].closed => \E k \in 1 .. Len(q) : q[k].id = i
  BY <1>2, <1>3 DEF Completed
<1>8. Completed(q, us, b)
  BY <1>5, <1>6, <1>7 DEF Completed
<1>9. QED
  BY <1>8 DEF us, p

\* A fragment goes to a call that is not closed yet.
LEMMA CompletedFragment ==
    ASSUME NEW q \in Seq(Calls), NEW ts \in Seq(Progress), NEW a, NEW b, NEW i \in 1 .. Len(ts),
           Completed(q, ts, a), ~ts[i].closed, b.calls = a.calls
    PROVE  Completed(q, Longer(ts, i), b)
<1> DEFINE us == Longer(ts, i)
<1>1. /\ Len(us) = Len(ts)
      /\ \A j \in 1 .. Len(ts) :
           /\ us[j].args = (IF j = i THEN ts[i].args + 1 ELSE ts[j].args)
           /\ us[j].closed = ts[j].closed
  BY OneChanged DEF Longer
<1> HIDE DEF us
<1>2. \A k \in 1 .. Len(q) :
         /\ q[k].id \in 1 .. Len(us) /\ us[q[k].id].closed
         /\ q[k] = Tool(q[k].id, us[q[k].id].args)
  <2> SUFFICES ASSUME NEW k \in 1 .. Len(q)
               PROVE  /\ q[k].id \in 1 .. Len(us) /\ us[q[k].id].closed
                      /\ q[k] = Tool(q[k].id, us[q[k].id].args)
    OBVIOUS
  <2>1. /\ q[k].id \in 1 .. Len(ts) /\ ts[q[k].id].closed
        /\ q[k] = Tool(q[k].id, ts[q[k].id].args)
    BY DEF Completed
  <2>2. q[k].id # i
    BY <2>1
  <2>3. us[q[k].id].args = ts[q[k].id].args /\ us[q[k].id].closed = ts[q[k].id].closed
    BY <1>1, <2>1, <2>2
  <2>4. QED
    BY <1>1, <2>1, <2>3
<1>3. Completed(q, us, b)
  BY <1>1, <1>2 DEF Completed
<1>4. QED
  BY <1>3 DEF us

\* A call is closed and handed on, wherever it is.
LEMMA CompletedStop ==
    ASSUME NEW q \in Seq(Calls), NEW ts \in Seq(Progress), NEW a, NEW b, NEW i \in 1 .. Len(ts),
           Completed(q, ts, a), ~ts[i].closed, b.calls = a.calls
    PROVE  Completed(Append(q, Tool(i, ts[i].args)), Shut(ts, i), b)
<1> DEFINE us == Shut(ts, i)
           c == Tool(i, ts[i].args)
           r == Append(q, c)
<1>1. /\ Len(us) = Len(ts) /\ us[i].args = ts[i].args /\ us[i].closed
      /\ \A j \in 1 .. Len(ts) : j # i => us[j] = ts[j]
  BY OneChanged DEF Shut
<1>2. c \in Calls /\ c.id = i
  <2>1. ts[i] \in Progress /\ i \in Nat
    BY ElementOfSeq, LenProperties
  <2>2. QED
    BY <2>1 DEF Tool, Calls, Progress
<1>3. /\ Len(r) = Len(q) + 1 /\ Len(q) \in Nat
      /\ \A j \in 1 .. Len(r) :
           \/ j \in 1 .. Len(q) /\ j # Len(q) + 1 /\ r[j] = q[j]
           \/ j = Len(q) + 1 /\ j \notin 1 .. Len(q) /\ r[j] = c
      /\ \A j \in 1 .. Len(q) : j \in 1 .. Len(r)
      /\ Len(q) + 1 \in 1 .. Len(r)
  BY <1>2, OneMore
<1>4. c = Tool(i, us[i].args)
  BY <1>1
<1> HIDE DEF us, r, c
<1>5. \A k \in 1 .. Len(q) :
        /\ q[k].id \in 1 .. Len(ts) /\ q[k].id # i /\ us[q[k].id] = ts[q[k].id]
        /\ us[q[k].id].closed /\ q[k] = Tool(q[k].id, us[q[k].id].args)
  BY <1>1 DEF Completed
<1>6. \A k \in 1 .. Len(r) :
         /\ r[k].id \in 1 .. Len(us) /\ us[r[k].id].closed
         /\ r[k] = Tool(r[k].id, us[r[k].id].args)
  <2> SUFFICES ASSUME NEW k \in 1 .. Len(r)
               PROVE  /\ r[k].id \in 1 .. Len(us) /\ us[r[k].id].closed
                      /\ r[k] = Tool(r[k].id, us[r[k].id].args)
    OBVIOUS
  <2>1. CASE k \in 1 .. Len(q) /\ r[k] = q[k]
    BY <1>1, <1>5, <2>1
  <2>2. CASE r[k] = c
    BY <1>1, <1>2, <1>4, <2>2
  <2>3. QED
    BY <1>3, <2>1, <2>2
<1>7. \A j \in 1 .. Len(us) : us[j].closed => \E k \in 1 .. Len(r) : r[k].id = j
  <2> SUFFICES ASSUME NEW j \in 1 .. Len(us), us[j].closed PROVE \E k \in 1 .. Len(r) : r[k].id = j
    OBVIOUS
  <2>1. CASE j = i
    <3>1. Len(q) + 1 \in 1 .. Len(r) /\ r[Len(q) + 1] = c
      BY <1>3
    <3>2. QED
      BY <1>2, <2>1, <3>1
  <2>2. CASE j # i
    <3>1. j \in 1 .. Len(ts) /\ ts[j].closed
      BY <1>1, <2>2
    <3>2. PICK k \in 1 .. Len(q) : q[k].id = j
      BY <3>1 DEF Completed
    <3>3. k \in 1 .. Len(r) /\ r[k] = q[k]
      BY <1>3
    <3>4. QED
      BY <3>2, <3>3
  <2>3. QED
    BY <2>1, <2>2
<1>8. \A j, k \in 1 .. Len(r) : r[j].id = r[k].id => j = k
  <2> SUFFICES ASSUME NEW j \in 1 .. Len(r), NEW k \in 1 .. Len(r), r[j].id = r[k].id
               PROVE  j = k
    OBVIOUS
  <2>1. \A l \in 1 .. Len(r) :
          \/ l \in 1 .. Len(q) /\ r[l] = q[l] /\ r[l].id # i
          \/ l = Len(q) + 1 /\ r[l].id = i
    BY <1>2, <1>3, <1>5
  <2>2. QED
    BY <2>1 DEF Completed
<1>9. 1 .. Len(us) \subseteq b.calls
  BY <1>1 DEF Completed
<1>10. Completed(r, us, b)
  BY <1>6, <1>7, <1>8, <1>9 DEF Completed
<1>11. QED
  BY <1>10 DEF us, r, c

AllShut(ts) == \A i \in 1 .. Len(ts) : ts[i].closed

\* What an event makes of the calls said.
LEMMA EventTools ==
    ASSUME UsageInv, NEW e, NEW grown, Fits(e, grown), Grows(e, grown)
    PROVE  LET ts == said.tools IN
           /\ ts \in Seq(Progress) /\ grown.tools \in Seq(Progress) /\ e.kind \in Kinds
           /\ adapter \in AdapterSet /\ adapter.pending \in Seq(Calls)
           /\ adapter.current \in Nat /\ adapter.input \in Nat
           /\ e.kind = "call" =>
                /\ e.tool = Len(ts) + 1
                /\ streamed # "gemini" => grown.tools = Append(ts, Begun(0, FALSE))
                /\ streamed = "gemini" => grown.tools = Append(ts, Begun(1, TRUE))
                /\ streamed \in Sequential => AllShut(ts)
           /\ e.kind = "args" =>
                e.tool \in 1 .. Len(ts) /\ ~ts[e.tool].closed /\ grown.tools = Longer(ts, e.tool)
           /\ e.kind = "stop" =>
                /\ e.tool \in 1 .. Len(ts) /\ ~ts[e.tool].closed /\ grown.tools = Shut(ts, e.tool)
                /\ e.args = ts[e.tool].args /\ streamed \in {"responses", "converse", "anthropic"}
           /\ e.kind \notin {"call", "args", "stop"} => grown.tools = ts
           /\ e.kind = "end" /\ streamed # "completions" => AllShut(ts)
<1>1. said \in SaidSet /\ adapter \in AdapterSet /\ e \in EventSet /\ grown \in SaidSet
  BY DEF UsageInv, StreamTypes, Fits
<1>2. /\ said.tools \in Seq(Progress) /\ grown.tools \in Seq(Progress) /\ e.kind \in Kinds
      /\ adapter.pending \in Seq(Calls) /\ adapter.current \in Nat /\ adapter.input \in Nat
  BY <1>1 DEF SaidSet, EventSet, AdapterSet
<1>3. /\ DOMAIN said.tools = 1 .. Len(said.tools)
      /\ OpenTools = {} => AllShut(said.tools)
      /\ \A i \in OpenTools : i \in 1 .. Len(said.tools) /\ ~said.tools[i].closed
  <2>1. DOMAIN said.tools = 1 .. Len(said.tools)
    BY <1>2, LenProperties
  <2>2. QED
    BY <2>1 DEF OpenTools, AllShut
<1>4. QED
  BY <1>1, <1>2, <1>3 DEF Grows, Begun, Longer, Shut

\* The Responses API: a call is handed on as its item is done.
LEMMA ResponsesGiven ==
    ASSUME UsageInv, NEW e, NEW grown, Fits(e, grown), Grows(e, grown), e.kind # "cut",
           streamed = "responses", NEW q \in Seq(Calls), Completed(q, said.tools, adapter)
    PROVE  /\ Completed(q \o Handed(adapter, e), grown.tools, OnResponses(adapter, e).adapter)
           /\ e.kind = "end" => AllShut(grown.tools)
<1> DEFINE ts == said.tools
           b == OnResponses(adapter, e).adapter
<1>1. b.calls = IF e.kind = "call" THEN adapter.calls \cup {e.tool} ELSE adapter.calls
  <2>1. adapter \in AdapterSet /\ e.kind \in Kinds
    BY EventTools
  <2>2. CASE e.kind = "call"
    <3>1. b = [adapter EXCEPT !.calls = @ \cup {e.tool}]
      BY <2>2 DEF OnResponses, Yields
    <3>2. QED
      BY <2>1, <2>2, <3>1 DEF AdapterSet
  <2>3. CASE e.kind # "call"
    <3>1. b = adapter
      BY <2>1, <2>3 DEF OnResponses, Yields, Kinds
    <3>2. QED
      BY <2>3, <3>1
  <2>4. QED
    BY <2>2, <2>3
<1>2. CASE e.kind = "call"
  <2>1. Handed(adapter, e) = <<>> /\ q \o <<>> = q
    BY <1>2, Moved DEF Handed
  <2>2. /\ ts \in Seq(Progress) /\ grown.tools = Append(ts, Begun(0, FALSE))
        /\ b.calls = adapter.calls \cup {Len(ts) + 1}
    BY <1>1, <1>2, EventTools
  <2> HIDE DEF b
  <2>3. Completed(q, grown.tools, b)
    BY <2>2, CompletedCall
  <2>4. QED
    BY <1>2, <2>1, <2>3 DEF b
<1>3. CASE e.kind = "args"
  <2>1. Handed(adapter, e) = <<>> /\ q \o <<>> = q
    BY <1>3, Moved DEF Handed
  <2>2. /\ ts \in Seq(Progress) /\ e.tool \in 1 .. Len(ts) /\ ~ts[e.tool].closed
        /\ grown.tools = Longer(ts, e.tool) /\ b.calls = adapter.calls
    BY <1>1, <1>3, EventTools
  <2> HIDE DEF b
  <2>3. Completed(q, grown.tools, b)
    BY <2>2, CompletedFragment
  <2>4. QED
    BY <1>3, <2>1, <2>3 DEF b
<1>4. CASE e.kind = "stop"
  <2>1. /\ ts \in Seq(Progress) /\ e.tool \in 1 .. Len(ts) /\ ~ts[e.tool].closed
        /\ grown.tools = Shut(ts, e.tool) /\ b.calls = adapter.calls /\ e.args = ts[e.tool].args
    BY <1>1, <1>4, EventTools
  <2>2. e.tool \in adapter.calls
    BY <2>1 DEF Completed
  <2>3. Handed(adapter, e) = <<Tool(e.tool, ts[e.tool].args)>>
    BY <1>4, <2>1, <2>2 DEF Handed
  <2>4. Tool(e.tool, ts[e.tool].args) \in Calls
    <3>1. ts[e.tool] \in Progress /\ e.tool \in Nat
      BY <2>1, ElementOfSeq, LenProperties
    <3>2. QED
      BY <3>1 DEF Tool, Calls, Progress
  <2>5. q \o Handed(adapter, e) = Append(q, Tool(e.tool, ts[e.tool].args))
    BY <2>3, <2>4, AppendIsConcat
  <2> HIDE DEF b
  <2>6. Completed(Append(q, Tool(e.tool, ts[e.tool].args)), grown.tools, b)
    BY <2>1, CompletedStop
  <2>7. QED
    BY <1>4, <2>5, <2>6 DEF b
<1>5. CASE e.kind \notin {"call", "args", "stop"}
  <2>1. Handed(adapter, e) = <<>> /\ q \o <<>> = q
    BY <1>5, Moved DEF Handed
  <2>2. grown.tools = ts /\ b.calls = adapter.calls /\ (e.kind = "end" => AllShut(ts))
    BY <1>1, <1>5, EventTools
  <2> HIDE DEF b
  <2>3. Completed(q, ts, b)
    BY <2>2 DEF Completed
  <2>4. QED
    BY <2>1, <2>2, <2>3 DEF b
<1>6. QED
  BY <1>2, <1>3, <1>4, <1>5

\* Converse gathers the calls, and Anthropic hands them on, one after the other.
LEMMA BlocksGrow ==
    ASSUME UsageInv, NEW e, NEW grown, Fits(e, grown), Grows(e, grown),
           streamed \in {"converse", "anthropic"},
           NEW q \in Seq(Calls), Sequenced(q, said.tools, adapter), NEW b,
           e.kind = "call" => b.current = e.tool /\ b.input = 0,
           e.kind = "args" => b.current = adapter.current /\ b.input = adapter.input + 1,
           e.kind \notin {"call", "args", "stop"} =>
             b.current = adapter.current /\ b.input = adapter.input
    PROVE  /\ e.kind # "stop" => Sequenced(q, grown.tools, b)
           /\ e.kind = "stop" =>
                Sequenced(Append(q, Tool(adapter.current, adapter.input)), grown.tools, b)
           /\ e.kind = "end" => Gathered(q, grown.tools)
<1> DEFINE ts == said.tools
<1>1. CASE e.kind = "call"
  <2>1. /\ ts \in Seq(Progress) /\ grown.tools = Append(ts, Begun(0, FALSE))
        /\ \A i \in 1 .. Len(ts) : ts[i].closed
        /\ b.current = Len(ts) + 1 /\ b.input = 0
    BY <1>1, EventTools DEF Sequential, AllShut
  <2>2. Sequenced(q, grown.tools, b)
    BY <2>1, SequencedCall
  <2>3. QED
    BY <1>1, <2>2
<1>2. CASE e.kind = "args"
  <2>1. /\ ts \in Seq(Progress) /\ e.tool \in 1 .. Len(ts) /\ ~ts[e.tool].closed
        /\ grown.tools = Longer(ts, e.tool)
        /\ b.current = adapter.current /\ b.input = adapter.input + 1
    BY <1>2, EventTools
  <2>2. Sequenced(q, grown.tools, b)
    BY <2>1, SequencedFragment
  <2>3. QED
    BY <1>2, <2>2
<1>3. CASE e.kind = "stop"
  <2>1. /\ ts \in Seq(Progress) /\ e.tool \in 1 .. Len(ts) /\ ~ts[e.tool].closed
        /\ grown.tools = Shut(ts, e.tool)
        /\ adapter.current \in Nat /\ adapter.input \in Nat
    BY <1>3, EventTools
  <2>2. Sequenced(Append(q, Tool(adapter.current, adapter.input)), grown.tools, b)
    BY <2>1, SequencedStop
  <2>3. QED
    BY <1>3, <2>2
<1>4. CASE e.kind \notin {"call", "args", "stop"}
  <2>1. /\ ts \in Seq(Progress) /\ grown.tools = ts
        /\ e.kind = "end" => \A i \in 1 .. Len(ts) : ts[i].closed
    BY <1>4, EventTools DEF AllShut
  <2>2. Sequenced(q, ts, b) /\ (e.kind = "end" => Gathered(q, ts))
    BY <1>4, <2>1, SequencedStays
  <2>3. QED
    BY <1>4, <2>1, <2>2
<1>5. QED
  BY <1>1, <1>2, <1>3, <1>4

\* Anthropic: a call is handed on as its block stops.
LEMMA AnthropicGiven ==
    ASSUME UsageInv, NEW e, NEW grown, Fits(e, grown), Grows(e, grown), e.kind # "cut",
           streamed = "anthropic", NEW q \in Seq(Calls), Sequenced(q, said.tools, adapter)
    PROVE  /\ Sequenced(q \o Handed(adapter, e), grown.tools, OnAnthropic(adapter, e).adapter)
           /\ e.kind = "end" => Gathered(q \o Handed(adapter, e), grown.tools)
<1> DEFINE b == OnAnthropic(adapter, e).adapter
<1>1. /\ adapter \in AdapterSet /\ e.kind \in Kinds
      /\ adapter.current \in Nat /\ adapter.input \in Nat
  BY EventTools
<1>2. /\ e.kind = "call" => b.current = e.tool /\ b.input = 0
      /\ e.kind = "args" => b.current = adapter.current /\ b.input = adapter.input + 1
      /\ e.kind \notin {"call", "args", "stop"} =>
           b.current = adapter.current /\ b.input = adapter.input
  BY <1>1 DEF OnAnthropic, Yields, Kinds, AdapterSet
<1> HIDE DEF b
<1>3. /\ e.kind # "stop" => Sequenced(q, grown.tools, b)
      /\ e.kind = "stop" =>
           Sequenced(Append(q, Tool(adapter.current, adapter.input)), grown.tools, b)
      /\ e.kind = "end" => Gathered(q, grown.tools)
  BY <1>2, BlocksGrow
<1>4. CASE e.kind = "stop"
  <2>1. Tool(adapter.current, adapter.input) \in Calls
    BY <1>1 DEF Tool, Calls
  <2>2. Handed(adapter, e) = <<Tool(adapter.current, adapter.input)>>
    BY <1>4 DEF Handed
  <2>3. q \o Handed(adapter, e) = Append(q, Tool(adapter.current, adapter.input))
    BY <2>1, <2>2, AppendIsConcat
  <2>4. QED
    BY <1>3, <1>4, <2>3 DEF b
<1>5. CASE e.kind # "stop"
  <2>1. Handed(adapter, e) = <<>> /\ q \o <<>> = q
    BY <1>5, Moved DEF Handed
  <2>2. QED
    BY <1>3, <1>5, <2>1 DEF b
<1>6. QED
  BY <1>4, <1>5

\* Converse: the calls are handed on at the end.
LEMMA ConverseGiven ==
    ASSUME UsageInv, NEW e, NEW grown, Fits(e, grown), Grows(e, grown), e.kind # "cut",
           streamed = "converse", Sequenced(adapter.pending, said.tools, adapter)
    PROVE  /\ e.kind # "end" =>
                /\ Handed(adapter, e) = <<>>
                /\ Sequenced(OnConverse(adapter, e).adapter.pending, grown.tools,
                             OnConverse(adapter, e).adapter)
           /\ e.kind = "end" => Gathered(Handed(adapter, e), grown.tools)
<1> DEFINE b == OnConverse(adapter, e).adapter
           p == adapter.pending
<1>1. /\ adapter \in AdapterSet /\ e.kind \in Kinds /\ p \in Seq(Calls)
      /\ adapter.current \in Nat /\ adapter.input \in Nat
  BY EventTools
<1>2. /\ e.kind = "call" => b.current = e.tool /\ b.input = 0
      /\ e.kind = "args" => b.current = adapter.current /\ b.input = adapter.input + 1
      /\ e.kind \notin {"call", "args", "stop"} =>
           b.current = adapter.current /\ b.input = adapter.input
      /\ e.kind # "stop" => b.pending = p
      /\ e.kind = "stop" => b.pending = Append(p, Tool(adapter.current, adapter.input))
  <2>1. CASE e.kind = "call"
    BY <1>1, <2>1 DEF OnConverse, Yields, AdapterSet
  <2>2. CASE e.kind = "args"
    BY <1>1, <2>2 DEF OnConverse, Yields, AdapterSet
  <2>3. CASE e.kind = "stop"
    <3> DEFINE x == Append(p, Tool(adapter.current, adapter.input))
    <3>1. b = [adapter EXCEPT !.pending = x, !.current = 0, !.input = 0]
      BY <2>3 DEF OnConverse, Yields
    <3> HIDE DEF x, b
    <3>2. b.pending = x
      BY <1>1, <3>1 DEF AdapterSet
    <3>3. QED
      BY <2>3, <3>2 DEF x
  <2>4. CASE e.kind \notin {"call", "args", "stop"}
    <3>1. b = adapter
      BY <1>1, <2>4 DEF OnConverse, ConverseLast, Yields, Kinds
    <3>2. QED
      BY <2>4, <3>1
  <2>5. QED
    BY <2>1, <2>2, <2>3, <2>4
<1> HIDE DEF b, p
<1>3. /\ e.kind # "stop" => Sequenced(p, grown.tools, b)
      /\ e.kind = "stop" =>
           Sequenced(Append(p, Tool(adapter.current, adapter.input)), grown.tools, b)
      /\ e.kind = "end" => Gathered(p, grown.tools)
  <2>1. Sequenced(p, said.tools, adapter)
    BY DEF p
  <2>2. QED
    BY <1>1, <1>2, <2>1, BlocksGrow
<1>4. Sequenced(b.pending, grown.tools, b)
  BY <1>2, <1>3
<1>5. e.kind # "end" => Handed(adapter, e) = <<>>
  BY DEF Handed
<1>6. e.kind = "end" => Handed(adapter, e) = p
  BY DEF Handed, p
<1>7. QED
  BY <1>3, <1>4, <1>5, <1>6 DEF b

\* Chat completions and Gemini: calls are gathered by index, or as they come, and handed
\* on at the end.
LEMMA GatheredGiven ==
    ASSUME UsageInv, NEW e, NEW grown, Fits(e, grown), Grows(e, grown), e.kind # "cut",
           streamed \in {"completions", "gemini"}, Gathered(adapter.pending, said.tools)
    PROVE  /\ e.kind # "end" =>
                /\ Handed(adapter, e) = <<>>
                /\ Gathered(OnEvent(adapter, e).adapter.pending, grown.tools)
           /\ e.kind = "end" => Gathered(Handed(adapter, e), grown.tools)
<1> DEFINE b == OnEvent(adapter, e).adapter
           p == adapter.pending
           ts == said.tools
<1>1. /\ adapter \in AdapterSet /\ e.kind \in Kinds /\ p \in Seq(Calls) /\ ts \in Seq(Progress)
      /\ e.kind # "stop" /\ Len(p) = Len(ts)
  BY EventTools DEF Gathered
<1>2. streamed = "gemini" => e.kind \notin {"head", "args", "stop"}
  BY DEF Fits
<1>3. /\ e.kind \notin {"call", "args"} => b.pending = p
      /\ e.kind = "args" => b.pending = Longer(p, e.tool)
      /\ e.kind = "call" /\ streamed = "completions" => b.pending = Append(p, Tool(e.tool, 0))
      /\ e.kind = "call" /\ streamed = "gemini" => b.pending = Append(p, Tool(Len(p) + 1, 1))
  <2>1. CASE streamed = "completions"
    <3>1. b = OnCompletions(adapter, e).adapter
      BY <2>1 DEF OnEvent
    <3>2. CASE e.kind = "call"
      <4> DEFINE x == Append(p, Tool(e.tool, 0))
      <4>1. b = [adapter EXCEPT !.pending = x]
        BY <3>1, <3>2 DEF OnCompletions, Yields
      <4> HIDE DEF x, b
      <4>2. b.pending = x
        BY <1>1, <4>1 DEF AdapterSet
      <4>3. QED
        BY <2>1, <3>2, <4>2 DEF x
    <3>3. CASE e.kind = "args"
      <4> DEFINE x == Longer(p, e.tool)
      <4>1. b = [adapter EXCEPT !.pending = x]
        BY <3>1, <3>3 DEF OnCompletions, Yields, Longer
      <4> HIDE DEF x, b
      <4>2. b.pending = x
        BY <1>1, <4>1 DEF AdapterSet
      <4>3. QED
        BY <2>1, <3>3, <4>2 DEF x
    <3>4. CASE e.kind \notin {"call", "args"}
      <4>1. b = adapter
        BY <1>1, <3>1, <3>4 DEF OnCompletions, CompletionsLast, Yields, Kinds
      <4>2. QED
        BY <3>4, <4>1
    <3>5. QED
      BY <3>2, <3>3, <3>4
  <2>2. CASE streamed = "gemini"
    <3> DEFINE metered == IF e.usage = NoUsage THEN adapter
                          ELSE [adapter EXCEPT !.surfaced = TRUE, !.usage = e.usage]
    <3>1. metered.pending = p /\ DOMAIN metered = DOMAIN adapter
      BY <1>1 DEF AdapterSet
    <3>2. b = IF e.kind = "call"
              THEN [metered EXCEPT !.pending = Append(@, Tool(Len(@) + 1, 1))] ELSE metered
      BY <1>1, <1>2, <2>2 DEF OnEvent, OnGemini, Yields, Kinds
    <3> HIDE DEF metered, b
    <3>3. CASE e.kind = "call"
      <4> DEFINE x == Append(p, Tool(Len(p) + 1, 1))
      <4>1. b = [metered EXCEPT !.pending = x]
        BY <3>1, <3>2, <3>3
      <4> HIDE DEF x
      <4>2. b.pending = x
        BY <1>1, <3>1, <4>1 DEF AdapterSet
      <4>3. QED
        BY <2>2, <3>3, <4>2 DEF x
    <3>4. CASE e.kind # "call"
      BY <1>2, <2>2, <3>1, <3>2, <3>4
    <3>5. QED
      BY <3>3, <3>4
  <2>3. QED
    BY <2>1, <2>2
<1> HIDE DEF b, p
<1>4. Gathered(p, ts)
  BY DEF p
<1>5. Gathered(b.pending, grown.tools)
  <2>1. CASE e.kind = "call" /\ streamed = "completions"
    <3>1. grown.tools = Append(ts, Begun(0, FALSE)) /\ b.pending = Append(p, Tool(Len(ts) + 1, 0))
      BY <1>3, <2>1, EventTools
    <3>2. QED
      BY <1>1, <1>4, <3>1, GatheredCall
  <2>2. CASE e.kind = "call" /\ streamed = "gemini"
    <3>1. grown.tools = Append(ts, Begun(1, TRUE)) /\ b.pending = Append(p, Tool(Len(ts) + 1, 1))
      BY <1>1, <1>3, <2>2, EventTools
    <3>2. QED
      BY <1>1, <1>4, <3>1, GatheredCall
  <2>3. CASE e.kind = "args"
    <3>1. e.tool \in 1 .. Len(ts) /\ grown.tools = Longer(ts, e.tool)
      BY <2>3, EventTools
    <3>2. QED
      BY <1>1, <1>3, <1>4, <2>3, <3>1, GatheredFragment
  <2>4. CASE e.kind \notin {"call", "args"}
    <3>1. grown.tools = ts
      BY <1>1, <2>4, EventTools
    <3>2. QED
      BY <1>3, <1>4, <2>4, <3>1
  <2>5. QED
    BY <2>1, <2>2, <2>3, <2>4
<1>6. e.kind # "end" => Handed(adapter, e) = <<>>
  BY <1>1, <1>2 DEF Handed, Kinds
<1>7. e.kind = "end" => Handed(adapter, e) = p /\ grown.tools = ts
  <2>1. e.kind = "end" => grown.tools = ts
    BY EventTools
  <2>2. QED
    BY <2>1 DEF Handed, p
<1>8. QED
  BY <1>4, <1>5, <1>6, <1>7 DEF b

\* The calls handed on are on their way, and are those the wire has handed on by now.
CallsTold ==
    \E q \in Seq(Calls) :
      /\ CallsFlow(q, view.tools, chunks, chunk.tools, at)
      /\ said.reason \in Followed /\ ended # "error" =>
           Given(streamed, q, said.tools, adapter, source = "over")

\* The last chunk has the reason, the emitter takes it from there, and knows whether there
\* was a call; it concludes with that.
FinishTold ==
    /\ chunks # <<>> => chunks[Len(chunks)].finish = Finish(said.reason)
    /\ chunks = <<>> /\ at \in InChunk => chunk.finish = Finish(said.reason)
    /\ chunks = <<>> /\ at \notin InChunk => em.finish = Finish(said.reason)

EndTold ==
    /\ said.reason \in Noticed /\ streamed # "gemini" /\ ended # "error" => FinishTold
    /\ em.tool <=> view.tools # <<>>
    /\ at \in {"stop", "done"} =>
         view.reason = StopReason(em.tool, em.finish) /\ view.usage = em.usage

\* The arguments of a call of Gemini come whole.
WholeCalls == streamed = "gemini" => \A i \in 1 .. Len(said.tools) : said.tools[i].args = 1

WholeInv == UsageInv /\ TextTold /\ CallsTold /\ EndTold /\ WholeCalls

\* An event is heard, and the calls given grow by those handed on.
LEMMA GivenGrows ==
    ASSUME UsageInv, NEW e, NEW grown, Fits(e, grown), Grows(e, grown), e.kind # "cut",
           NEW q \in Seq(Calls), Given(streamed, q, said.tools, adapter, FALSE)
    PROVE  Given(streamed, q \o Handed(adapter, e), grown.tools, OnEvent(adapter, e).adapter,
                 e.kind = "end")
<1> DEFINE h == Handed(adapter, e)
           b == OnEvent(adapter, e).adapter
<1>0. streamed \in AllWires
  BY DEF UsageInv, StreamTypes
<1>1. CASE streamed = "responses"
  <2>1. b = OnResponses(adapter, e).adapter
    BY <1>1 DEF OnEvent
  <2>2. Completed(q, said.tools, adapter)
    BY <1>1 DEF Given
  <2>3. Completed(q \o h, grown.tools, b) /\ (e.kind = "end" => AllShut(grown.tools))
    BY <1>1, <2>1, <2>2, ResponsesGiven
  <2> HIDE DEF h, b
  <2>4. Given(streamed, q \o h, grown.tools, b, e.kind = "end")
    BY <1>1, <2>3 DEF Given, AllShut
  <2>5. QED
    BY <2>4 DEF h, b
<1>2. CASE streamed = "anthropic"
  <2>1. b = OnAnthropic(adapter, e).adapter
    BY <1>2 DEF OnEvent
  <2>2. Sequenced(q, said.tools, adapter)
    BY <1>2 DEF Given
  <2>3. Sequenced(q \o h, grown.tools, b) /\ (e.kind = "end" => Gathered(q \o h, grown.tools))
    BY <1>2, <2>1, <2>2, AnthropicGiven
  <2> HIDE DEF h, b
  <2>4. Given(streamed, q \o h, grown.tools, b, e.kind = "end")
    BY <1>2, <2>3 DEF Given
  <2>5. QED
    BY <2>4 DEF h, b
<1>3. CASE streamed = "converse"
  <2>1. b = OnConverse(adapter, e).adapter
    BY <1>3 DEF OnEvent
  <2>2. q = <<>> /\ Sequenced(adapter.pending, said.tools, adapter)
    BY <1>3 DEF Given
  <2>3. /\ e.kind # "end" => h = <<>> /\ Sequenced(b.pending, grown.tools, b)
        /\ e.kind = "end" => Gathered(h, grown.tools)
    BY <1>3, <2>1, <2>2, ConverseGiven
  <2>4. q \o h = h
    <3>1. h = <<>> \/ h = adapter.pending
      BY <1>3 DEF Handed
    <3>2. adapter.pending \in Seq(Calls) /\ <<>> \in Seq(Calls)
      <4>1. <<>> \in Seq(Calls)
        OBVIOUS
      <4>2. QED
        BY <4>1 DEF UsageInv, StreamTypes, AdapterSet
    <3> HIDE DEF h
    <3>3. h \in Seq(Calls)
      BY <3>1, <3>2
    <3>4. QED
      BY <2>2, <3>1, <3>3, Moved
  <2> HIDE DEF h, b
  <2>5. Given(streamed, h, grown.tools, b, e.kind = "end")
    BY <1>3, <2>3 DEF Given
  <2>6. QED
    BY <2>4, <2>5 DEF h, b
<1>4. CASE streamed \in {"completions", "gemini"}
  <2>1. q = <<>> /\ Gathered(adapter.pending, said.tools)
    BY <1>4 DEF Given
  <2>2. /\ e.kind # "end" => h = <<>> /\ Gathered(b.pending, grown.tools)
        /\ e.kind = "end" => Gathered(h, grown.tools)
    BY <1>4, <2>1, GatheredGiven
  <2>3. q \o h = h
    <3>1. h = <<>> \/ h = adapter.pending
      BY <1>4 DEF Handed
    <3>2. adapter.pending \in Seq(Calls) /\ <<>> \in Seq(Calls)
      <4>1. <<>> \in Seq(Calls)
        OBVIOUS
      <4>2. QED
        BY <4>1 DEF UsageInv, StreamTypes, AdapterSet
    <3> HIDE DEF h
    <3>3. h \in Seq(Calls)
      BY <3>1, <3>2
    <3>4. QED
      BY <2>1, <3>1, <3>3, Moved
  <2> HIDE DEF h, b
  <2>4. Given(streamed, h, grown.tools, b, e.kind = "end")
    BY <1>4, <2>2 DEF Given
  <2>5. QED
    BY <2>3, <2>4 DEF h, b
<1>5. QED
  BY <1>0, <1>1, <1>2, <1>3, <1>4 DEF AllWires

\* Whatever is handed on is calls.
LEMMA HandedTyped ==
    ASSUME NEW a \in AdapterSet, NEW e \in EventSet, streamed \in AllWires
    PROVE  Handed(a, e) \in Seq(Calls)
<1>1. /\ a.pending \in Seq(Calls) /\ a.current \in Nat /\ a.input \in Nat
      /\ e.tool \in Nat /\ e.args \in Nat
  BY DEF AdapterSet, EventSet
<1>2. \A i, n \in Nat : <<Tool(i, n)>> \in Seq(Calls)
  BY DEF Tool, Calls
<1>3. <<>> \in Seq(Calls)
  OBVIOUS
<1>4. QED
  BY <1>1, <1>2, <1>3 DEF Handed, AllWires

\* A call that is begun is there.
LEMMA BegunThere ==
    ASSUME NEW q, NEW vt, NEW cs, NEW ct \in Seq(Calls), ct # <<>>, NEW p \in {"input", "close"},
           CallsFlow(q, vt, cs, ct, p)
    PROVE  vt # <<>>
<1>1. Head(ct) \in Calls /\ Tool(Head(ct).id, 0) \in Calls
  <2>1. Head(ct) \in Calls
    BY HeadTailProperties
  <2>2. QED
    BY <2>1 DEF Tool, Calls
<1>2. \E done \in Seq(Calls), c \in Calls : vt = Append(done, c)
  BY <1>1 DEF CallsFlow
<1>3. QED
  BY <1>2, AppendProperties

\* What the provider says, once more.
LEMMA WholeSpeaks ==
    ASSUME WholeInv, Speaks
    PROVE  WholeInv'
<1>1. PICK e, grown : Sends(e, grown) /\ Fits(e, grown) /\ Grows(e, grown)
  BY EventSpoken DEF WholeInv
<1> DEFINE r == OnEvent(adapter, e)
           h == Handed(adapter, e)
<1>2. Heard(adapter, e, r, h) /\ h \in Seq(Calls)
  BY <1>1, AllHeard, HandedTyped DEF Fits, WholeInv, UsageInv, StreamTypes
<1> HIDE DEF r, h
<1>3. /\ source = "open" /\ at = "fetch" /\ chunks = <<>> /\ ended = "no"
      /\ adapter' = r.adapter /\ chunks' = r.chunks /\ said' = grown
      /\ source' = (IF e.kind \in {"end", "cut"} THEN "over" ELSE source)
      /\ UNCHANGED <<streamed, opening, chunk, em, at, view, reported, ended>>
  BY <1>1 DEF Sends, Requested, r
<1>4. UsageInv' /\ TextTold'
  BY UsageSpeaks, TextSpeaks DEF WholeInv
<1>5. said.reason = "none" /\ UsageInv
  BY <1>3 DEF WholeInv, UsageInv
<1>6. CallsTold'
  <2>1. PICK q \in Seq(Calls) :
          /\ CallsFlow(q, view.tools, chunks, chunk.tools, at)
          /\ said.reason \in Followed /\ ended # "error" =>
               Given(streamed, q, said.tools, adapter, source = "over")
    BY DEF WholeInv, CallsTold
  <2>2. Carries(r.chunks, h)
    BY <1>2 DEF Heard, Passes
  <2>3. CallsFlow(q \o h, view.tools, r.chunks, chunk.tools, "fetch") /\ q \o h \in Seq(Calls)
    BY <1>2, <1>3, <2>1, <2>2, CallsHanded
  <2>4. grown.reason \in Followed' => e.kind # "cut"
    BY <1>1, <1>3, Noticing DEF Fits
  <2>5. Given(streamed, q, said.tools, adapter, FALSE)
    BY <1>3, <1>5, <2>1 DEF Given, Followed
  <2>6. e.kind # "cut" => Given(streamed, q \o h, grown.tools, r.adapter, e.kind = "end")
    BY <1>1, <1>5, <2>5, GivenGrows DEF r, h
  <2>7. e.kind # "cut" => Given(streamed', q \o h, said'.tools, adapter', source' = "over")
    BY <1>3, <2>6 DEF Given
  <2>8. QED
    BY <1>3, <2>3, <2>4, <2>7, Noticing DEF CallsTold
<1>7. EndTold'
  <2>1. view' = view /\ em' = em /\ at' = at /\ at = "fetch"
    BY <1>3
  <2>2. said'.reason \in Noticed' /\ streamed' # "gemini" => FinishTold'
    <3> SUFFICES ASSUME grown.reason \in Noticed, streamed # "gemini" PROVE FinishTold'
      BY <1>3, Noticing
    <3>1. e.kind = "end" /\ e.usage # NoUsage /\ grown.reason = e.reason /\ grown.tools = said.tools
      BY <1>1, <1>3, <1>5, Noticing DEF Fits, Grows, Followed
    <3>2. r.chunks # <<>> /\ r.chunks[Len(r.chunks)].finish = Finish(e.reason)
      BY <1>2, <3>1 DEF Heard, Passes
    <3>3. Finish(said.reason)' = Finish(e.reason)
      BY <1>3, <3>1 DEF Finish
    <3>4. QED
      BY <1>3, <3>2, <3>3 DEF FinishTold
  <2>3. em.tool <=> view.tools # <<>>
    BY DEF WholeInv, EndTold
  <2>4. QED
    BY <2>1, <2>2, <2>3, Noticing DEF EndTold
<1>8. WholeCalls'
  <2> SUFFICES ASSUME streamed = "gemini", NEW i \in 1 .. Len(grown.tools)
               PROVE  grown.tools[i].args = 1
    BY <1>3 DEF WholeCalls
  <2>1. said.tools \in Seq(Progress) /\ \A j \in 1 .. Len(said.tools) : said.tools[j].args = 1
    BY DEF WholeInv, WholeCalls, UsageInv, StreamTypes, SaidSet
  <2>2. e.kind \notin {"args", "stop"}
    BY <1>1 DEF Fits
  <2>3. CASE e.kind = "call"
    <3> DEFINE p == Begun(1, TRUE)
    <3>1. grown.tools = Append(said.tools, p) /\ p \in Progress /\ p.args = 1
      BY <1>1, <1>5, <2>3, EventTools DEF Begun, Progress
    <3> HIDE DEF p
    <3>2. \/ i \in 1 .. Len(said.tools) /\ grown.tools[i] = said.tools[i]
          \/ grown.tools[i] = p
      BY <2>1, <3>1, OneMore
    <3>3. QED
      BY <2>1, <3>1, <3>2
  <2>4. CASE e.kind # "call"
    BY <1>1, <2>1, <2>2, <2>4 DEF Grows
  <2>5. QED
    BY <2>3, <2>4
<1>9. QED
  BY <1>4, <1>6, <1>7, <1>8 DEF WholeInv

\* Nothing is said or shown at first.
LEMMA WholeStart == StreamInit => WholeInv
<1> SUFFICES ASSUME StreamInit PROVE WholeInv
  OBVIOUS
<1>1. /\ streamed \in AllWires /\ source = "unopened" /\ ended = "no" /\ at = "begin"
      /\ said.text = <<>> /\ said.tools = <<>> /\ said.reason = "none"
      /\ adapter.pending = <<>> /\ chunks = <<>>
      /\ view.text = <<>> /\ view.tools = <<>> /\ em.tool = FALSE
  BY AnswerAssumption DEF StreamInit
<1>2. TextTold
  BY <1>1 DEF TextTold, TextFlows, TextDue, Extended
<1>3. CallsTold
  <2>1. <<>> \in Seq(Calls) /\ <<>> \o <<>> = <<>> /\ Carries(<<>>, <<>>)
    <3>1. <<>> \in Seq(Calls)
      OBVIOUS
    <3>2. QED
      BY <3>1, Moved, NoChunk
  <2>2. CallsFlow(<<>>, <<>>, <<>>, chunk.tools, "begin")
    BY <2>1 DEF CallsFlow, InChunk
  <2>3. /\ Gathered(<<>>, <<>>) /\ Sequenced(<<>>, <<>>, adapter) /\ Completed(<<>>, <<>>, adapter)
    BY DEF Gathered, Sequenced, Completed
  <2>4. Given(streamed, <<>>, <<>>, adapter, FALSE)
    BY <1>1, <2>3 DEF Given
  <2>5. CallsFlow(<<>>, view.tools, chunks, chunk.tools, at)
    BY <1>1, <2>2
  <2>6. Given(streamed, <<>>, said.tools, adapter, source = "over")
    BY <1>1, <2>4 DEF Given
  <2>7. QED
    BY <2>1, <2>5, <2>6 DEF CallsTold
<1>4. EndTold /\ WholeCalls
  BY <1>1 DEF EndTold, WholeCalls, Noticed, Reasons
<1>5. QED
  BY <1>2, <1>3, <1>4, UsageStart DEF WholeInv

\* Opening the stream, and the provider's failure.
LEMMA WholeOpens ==
    ASSUME WholeInv, Opens \/ Rewrites \/ CacheGone \/ ProviderRaises
    PROVE  WholeInv'
<1>1. UsageInv'
  BY UsageOpens DEF WholeInv
<1>2. CASE Opens \/ Rewrites \/ CacheGone
  <2>1. /\ source' # "over" /\ source # "over"
        /\ UNCHANGED <<streamed, said, adapter, chunks, chunk, em, at, view, reported, ended>>
    BY <1>2 DEF Opens, Rewrites, CacheGone, MayOpen
  <2>2. TextTold'
    BY <2>1 DEF WholeInv, TextTold
  <2>3. CallsTold'
    BY <2>1, Noticing DEF WholeInv, CallsTold, Given
  <2>4. EndTold' /\ WholeCalls'
    BY <2>1, Noticing DEF WholeInv, EndTold, FinishTold, WholeCalls, Finish
  <2>5. QED
    BY <1>1, <2>2, <2>3, <2>4 DEF WholeInv
<1>3. CASE ProviderRaises
  <2>1. /\ ended' = "error" /\ view' = [view EXCEPT !.phase = "error"] /\ at = "fetch"
        /\ UNCHANGED <<streamed, said, adapter, chunks, chunk, em, at>>
    BY <1>3 DEF ProviderRaises
  <2>2. view'.text = view.text /\ view'.tools = view.tools
    BY <2>1 DEF WholeInv, UsageInv, StreamInv, ViewFields
  <2>3. TextTold'
    BY <2>1, <2>2 DEF WholeInv, TextTold
  <2>4. CallsTold'
    BY <2>1, <2>2, Noticing DEF WholeInv, CallsTold
  <2>5. EndTold' /\ WholeCalls'
    BY <2>1, <2>2, Noticing DEF WholeInv, EndTold, WholeCalls
  <2>6. QED
    BY <1>1, <2>3, <2>4, <2>5 DEF WholeInv
<1>4. QED
  BY <1>2, <1>3

\* The emitter's steps, and the client's leaving, and the end of the answer.
LEMMA EndEmitted ==
    ASSUME WholeInv, Emitter \/ Leave, CallsTold'
    PROVE  EndTold'
<1>1. /\ UsageInv /\ StreamInv /\ EndTold /\ DOMAIN em = EmFields /\ chunk \in ChunkSet
      /\ chunk.finish \in Finishes /\ chunk.tools \in Seq(Calls) /\ chunks \in Seq(ChunkSet)
      /\ at \in {"input", "close"} => chunk.tools # <<>>
  BY DEF WholeInv, UsageInv, StreamInv, StreamTypes, ChunkSet
<1>2. /\ UNCHANGED <<streamed, opening, source, said, adapter>>
      /\ ended = "no"
  BY DEF Emitter, Begin, Fetch, OpenThinking, ThinkDelta, NoThought, CloseThinking,
         OpenText, TextDelta, NoText, CloseText, OpenTool, ToolDelta, CloseTool, Take, Conclude,
         Stop, Leave, Emitted, Flowing
<1>3. Finish(said.reason)' = Finish(said.reason)
  BY <1>2 DEF Finish
<1>4. said.reason \in Reasons => Finish(said.reason) # "none"
  BY DEF Finish, Reasons
<1>5. CASE Fetch
  <2>1. /\ at = "fetch" /\ chunks # <<>> /\ at' = "think"
        /\ chunk' = Head(chunks) /\ chunks' = Tail(chunks) /\ em' = em /\ view' = view
    BY <1>5 DEF Fetch
  <2>2. /\ chunks' # <<>> => chunks'[Len(chunks')] = chunks[Len(chunks)]
        /\ chunks' = <<>> => chunk' = chunks[Len(chunks)]
    BY <1>1, <2>1, ChunksLeft
  <2>3. FinishTold => FinishTold'
    BY <1>3, <2>1, <2>2 DEF FinishTold, InChunk
  <2>4. QED
    BY <1>1, <1>2, <2>1, <2>3, Noticing DEF EndTold
<1>6. CASE Take
  <2>1. /\ at = "tools" /\ at' = "fetch"
        /\ em' = [em EXCEPT !.usage = IF chunk.usage # NoUsage THEN chunk.usage ELSE @,
                            !.finish = IF chunk.finish # "none" THEN chunk.finish ELSE @]
        /\ UNCHANGED <<chunks, chunk, view>>
    BY <1>6 DEF Take
  <2>2. em'.finish = (IF chunk.finish # "none" THEN chunk.finish ELSE em.finish) /\ em'.tool = em.tool
    BY <1>1, <2>1 DEF EmFields
  <2>3. said.reason \in Reasons /\ FinishTold => FinishTold'
    BY <1>3, <1>4, <2>1, <2>2 DEF FinishTold, InChunk
  <2>4. QED
    BY <1>1, <1>2, <2>1, <2>2, <2>3, Noticing DEF EndTold
<1>7. CASE Conclude
  <2>1. /\ at = "fetch" /\ at' = "stop" /\ chunks = <<>> /\ UNCHANGED <<chunks, chunk, em>>
    BY <1>7 DEF Conclude
  <2>2. EndAdded(view, view', StopReason(em.tool, em.finish), em.usage)
    BY <1>1, <1>7, EmitterAdds
  <2>3. FinishTold => FinishTold'
    BY <1>3, <2>1 DEF FinishTold, InChunk
  <2>4. StopReason(em.tool, em.finish)' = StopReason(em.tool, em.finish)
    BY <2>1
  <2>5. QED
    BY <1>1, <1>2, <2>1, <2>2, <2>3, <2>4, Noticing DEF EndTold, EndAdded
<1>8. CASE OpenTool
  <2>1. /\ at = "tools" /\ at' = "input" /\ chunks' = chunks /\ chunk' = chunk
        /\ em' = [em EXCEPT !.tool = TRUE, !.visible = TRUE, !.next = @ + 1]
    BY <1>8 DEF OpenTool
  <2>2. em'.tool /\ em'.finish = em.finish
    BY <1>1, <2>1 DEF EmFields
  <2>3. view'.tools # <<>>
    <3>1. PICK q \in Seq(Calls) : CallsFlow(q, view'.tools, chunks', chunk'.tools, at')
      BY DEF CallsTold
    <3>2. chunk'.tools \in Seq(Calls) /\ chunk'.tools # <<>>
      BY <1>1, <1>8, <2>1 DEF OpenTool
    <3>3. QED
      BY <2>1, <3>1, <3>2, BegunThere
  <2>4. FinishTold => FinishTold'
    BY <1>3, <2>1, <2>2 DEF FinishTold, InChunk
  <2>5. QED
    BY <1>1, <1>2, <2>1, <2>2, <2>3, <2>4, Noticing DEF EndTold
<1>9. CASE ToolDelta
  <2>1. at = "input" /\ at' = "close" /\ chunks' = chunks /\ chunk' = chunk /\ em' = em
    BY <1>9 DEF ToolDelta
  <2>2. view'.tools # <<>> /\ view.tools # <<>>
    <3>1. PICK q \in Seq(Calls) : CallsFlow(q, view'.tools, chunks', chunk'.tools, at')
      BY DEF CallsTold
    <3>2. PICK p \in Seq(Calls) : CallsFlow(p, view.tools, chunks, chunk.tools, at)
      BY DEF WholeInv, CallsTold
    <3>3. chunk.tools \in Seq(Calls) /\ chunk.tools # <<>> /\ chunk'.tools = chunk.tools
      BY <1>1, <2>1
    <3>4. view'.tools # <<>>
      BY <2>1, <3>1, <3>3, BegunThere
    <3>5. view.tools # <<>>
      BY <2>1, <3>2, <3>3, BegunThere
    <3>6. QED
      BY <3>4, <3>5
  <2>3. FinishTold => FinishTold'
    BY <1>3, <2>1 DEF FinishTold, InChunk
  <2>4. QED
    BY <1>1, <1>2, <2>1, <2>2, <2>3, Noticing DEF EndTold
<1>10. CASE ~Fetch /\ ~Take /\ ~Conclude /\ ~OpenTool /\ ~ToolDelta
  <2>1. /\ chunks' = chunks /\ chunk'.finish = chunk.finish
        /\ em'.tool = em.tool /\ em'.finish = em.finish /\ em'.usage = em.usage
    <3>1. CASE CloseTool
      <4>1. chunk' = [chunk EXCEPT !.tools = Tail(@)] /\ chunks' = chunks /\ em' = em
        BY <3>1 DEF CloseTool
      <4>2. chunk'.finish = chunk.finish
        BY <1>1, <4>1 DEF ChunkSet
      <4>3. QED
        BY <4>1, <4>2
    <3>2. CASE ~CloseTool
      BY <1>1, <1>10, <3>2 DEF EmFields, Emitter, Begin, OpenThinking, ThinkDelta, NoThought,
         CloseThinking, OpenText, TextDelta, NoText, CloseText, Stop, Leave
    <3>3. QED
      BY <3>1, <3>2
  <2>2. view'.tools = view.tools /\ view'.reason = view.reason /\ view'.usage = view.usage
    BY <1>1, <1>10, EmitterAdds DEF Kept, TextAdded
  <2>3. \/ at \in InChunk /\ at' \in InChunk
        \/ at \notin InChunk /\ at' \notin InChunk
    BY <1>10 DEF InChunk, Emitter, Begin, OpenThinking, ThinkDelta, NoThought,
         CloseThinking, OpenText, TextDelta, NoText, CloseText, CloseTool, Stop, Leave
  <2>4. at' \in {"stop", "done"} => at \in {"stop", "done"}
    BY <1>10 DEF InChunk, Emitter, Begin, OpenThinking, ThinkDelta, NoThought,
         CloseThinking, OpenText, TextDelta, NoText, CloseText, CloseTool, Stop, Leave
  <2>5. FinishTold => FinishTold'
    BY <1>3, <2>1, <2>3 DEF FinishTold
  <2>6. StopReason(em.tool, em.finish)' = StopReason(em.tool, em.finish)
    BY <2>1 DEF StopReason
  <2>7. QED
    BY <1>1, <1>2, <2>1, <2>2, <2>4, <2>5, <2>6, Noticing DEF EndTold
<1>11. QED
  BY <1>5, <1>6, <1>7, <1>8, <1>9, <1>10

\* The emitter's steps, and the client's leaving.
LEMMA WholeEmitted ==
    ASSUME WholeInv, Emitter \/ Leave
    PROVE  WholeInv'
<1>1. /\ UNCHANGED <<streamed, source, said, adapter>> /\ ended = "no" /\ ended' # "error"
  BY DEF Emitter, Begin, Fetch, OpenThinking, ThinkDelta, NoThought, CloseThinking,
         OpenText, TextDelta, NoText, CloseText, OpenTool, ToolDelta, CloseTool, Take, Conclude,
         Stop, Leave, Emitted, Flowing
<1>2. UsageInv'
  BY UsageFetch, UsageTake, UsageEmitted DEF WholeInv, Emitter
<1>3. TextTold'
  BY TextEmitted DEF WholeInv
<1>4. CallsTold'
  <2>1. PICK q \in Seq(Calls) :
          /\ CallsFlow(q, view.tools, chunks, chunk.tools, at)
          /\ said.reason \in Followed /\ ended # "error" =>
               Given(streamed, q, said.tools, adapter, source = "over")
    BY DEF WholeInv, CallsTold
  <2>2. CallsFlow(q, view'.tools, chunks', chunk'.tools, at')
    BY <2>1, CallsEmitted DEF WholeInv
  <2>3. QED
    BY <1>1, <2>1, <2>2, Noticing DEF CallsTold
<1>5. EndTold'
  BY <1>4, EndEmitted
<1>6. WholeCalls'
  BY <1>1 DEF WholeInv, WholeCalls
<1>7. QED
  BY <1>2, <1>3, <1>4, <1>5, <1>6 DEF WholeInv

\* Every step keeps the invariant.
LEMMA WholeStep ==
    WholeInv /\ [Next]_vars => WholeInv'
<1> SUFFICES ASSUME WholeInv, [Next]_vars PROVE WholeInv'
  OBVIOUS
<1>1. CASE StreamNext
  BY <1>1, WholeSpeaks, WholeOpens, WholeEmitted DEF StreamNext, Provider, Speaks
<1>2. CASE UNCHANGED streamVars
  <2>1. UNCHANGED <<streamed, source, said, adapter, chunks, chunk, em, at, view, reported, ended>>
    BY <1>2 DEF streamVars
  <2>2. UsageInv'
    BY <1>2, UsageStep DEF WholeInv, Next, vars
  <2>3. TextTold' /\ CallsTold' /\ WholeCalls'
    BY <2>1, Noticing DEF WholeInv, TextTold, CallsTold, WholeCalls
  <2>4. EndTold'
    BY <2>1, Noticing DEF WholeInv, EndTold, FinishTold, Finish
  <2>5. QED
    BY <2>2, <2>3, <2>4 DEF WholeInv
<1>3. QED
  BY <1>1, <1>2 DEF Next, vars

\* How many numbers there are from one to n.
LEMMA CountTo ==
    ASSUME NEW n \in Nat
    PROVE  IsFiniteSet(1 .. n) /\ Cardinality(1 .. n) = n
<1>1. 1 \in Int /\ n \in Int
  OBVIOUS
<1>2. IsFiniteSet(1 .. n) /\ Cardinality(1 .. n) = IF 1 > n THEN 0 ELSE n - 1 + 1
  BY <1>1, FS_Interval
<1>3. (IF 1 > n THEN 0 ELSE n - 1 + 1) = n
  OBVIOUS
<1>4. QED
  BY <1>2, <1>3

\* Calls completed in any order are the calls said.
LEMMA InAnyOrder ==
    ASSUME NEW q \in Seq(Calls), NEW ts \in Seq(Progress), NEW a, Completed(q, ts, a), AllShut(ts)
    PROVE  /\ Len(q) = Len(ts)
           /\ ToSet(q) = {Tool(i, ts[i].args) : i \in 1 .. Len(ts)}
<1>1. Len(q) \in Nat /\ Len(ts) \in Nat /\ DOMAIN q = 1 .. Len(q)
  BY LenProperties
<1>2. Len(q) = Len(ts)
  <2> DEFINE D == 1 .. Len(q)
             E == 1 .. Len(ts)
             f == [k \in D |-> q[k].id]
  <2>1. \A k \in D : q[k].id \in E
    BY DEF Completed
  <2>2. \A j, k \in D : q[j].id = q[k].id => j = k
    BY DEF Completed
  <2>3. \A i \in E : \E k \in D : q[k].id = i
    BY DEF Completed, AllShut
  <2>4. /\ IsFiniteSet(D) /\ IsFiniteSet(E)
        /\ Cardinality(D) = Len(q) /\ Cardinality(E) = Len(ts)
    BY <1>1, CountTo
  <2> HIDE DEF D, E
  <2>5. f \in Bijection(D, E)
    BY <2>1, <2>2, <2>3 DEF Bijection, Injection, IsInjective, Surjection
  <2>6. ExistsBijection(D, E)
    BY <2>5 DEF ExistsBijection
  <2>7. QED
    BY <2>4, <2>6, FS_Bijection
<1> DEFINE R == {Tool(i, ts[i].args) : i \in 1 .. Len(ts)}
<1>3. ASSUME NEW x \in ToSet(q) PROVE x \in R
  <2>1. PICK k \in 1 .. Len(q) : x = q[k]
    BY <1>1, <1>3 DEF ToSet
  <2>2. q[k].id \in 1 .. Len(ts) /\ x = Tool(q[k].id, ts[q[k].id].args)
    BY <2>1 DEF Completed
  <2>3. QED
    BY <2>2
<1>4. ASSUME NEW x \in R PROVE x \in ToSet(q)
  <2>1. PICK i \in 1 .. Len(ts) : x = Tool(i, ts[i].args)
    BY <1>4
  <2>2. PICK k \in 1 .. Len(q) : q[k].id = i
    BY DEF Completed, AllShut
  <2>3. q[k] = x
    BY <2>1, <2>2 DEF Completed
  <2>4. QED
    BY <1>1, <2>3 DEF ToSet
<1>5. QED
  BY <1>2, <1>3, <1>4

\* The calls of the not streaming answer are those said.
LEMMA AnswerTools ==
    ASSUME said.tools \in Seq(Progress), streamed \in AllWires, WholeCalls
    PROVE  /\ DOMAIN ChatAnswer.tools = 1 .. Len(said.tools)
           /\ \A i \in 1 .. Len(said.tools) : ChatAnswer.tools[i] = Tool(i, said.tools[i].args)
           /\ ChatAnswer.tools \in Seq(Calls) /\ Len(ChatAnswer.tools) = Len(said.tools)
           /\ ChatAnswer.text = said.text /\ ChatAnswer.usage = said.usage
           /\ streamed # "gemini" =>
                ChatAnswer.reason = StopReason(ChatAnswer.tools # <<>>, Finish(said.reason))
<1> DEFINE ts == said.tools
<1>1. DOMAIN ts = 1 .. Len(ts) /\ Len(ts) \in Nat /\ \A i \in 1 .. Len(ts) : ts[i] \in Progress
  BY LenProperties, ElementOfSeq
<1>2. ASSUME streamed # "gemini"
      PROVE  /\ ChatAnswer.tools = SaidTools /\ ChatAnswer.text = said.text
             /\ ChatAnswer.usage = said.usage
             /\ ChatAnswer.reason = StopReason(SaidTools # <<>>, Finish(said.reason))
  BY <1>2 DEF ChatAnswer, ResponsesAnswer, CompletionsAnswer, ConverseAnswer, AnthropicAnswer,
              Assembled, AllWires
<1>3. ASSUME streamed = "gemini"
      PROVE  /\ ChatAnswer.tools = [i \in 1 .. Len(ts) |-> Tool(i, 1)]
             /\ ChatAnswer.text = said.text /\ ChatAnswer.usage = said.usage
  BY <1>1, <1>3 DEF ChatAnswer, GeminiAnswer, Assembled
<1>4. DOMAIN SaidTools = 1 .. Len(ts) /\ \A i \in 1 .. Len(ts) : SaidTools[i] = Tool(i, ts[i].args)
  BY <1>1 DEF SaidTools
<1>5. /\ DOMAIN ChatAnswer.tools = 1 .. Len(ts)
      /\ \A i \in 1 .. Len(ts) : ChatAnswer.tools[i] = Tool(i, ts[i].args)
  <2>1. CASE streamed # "gemini"
    BY <1>2, <1>4, <2>1
  <2>2. CASE streamed = "gemini"
    BY <1>3, <2>2 DEF WholeCalls
  <2>3. QED
    BY <2>1, <2>2
<1>6. ChatAnswer.tools \in Seq(Calls) /\ Len(ChatAnswer.tools) = Len(ts)
  <2> DEFINE s == [i \in 1 .. Len(ts) |-> Tool(i, ts[i].args)]
  <2>1. \A i \in 1 .. Len(ts) : Tool(i, ts[i].args) \in Calls
    BY <1>1 DEF Tool, Calls, Progress
  <2>2. s \in Seq(Calls) /\ Len(s) = Len(ts)
    BY <1>1, <2>1
  <2>3. CASE streamed # "gemini"
    BY <1>1, <1>2, <2>2, <2>3 DEF SaidTools
  <2>4. CASE streamed = "gemini"
    <3>1. [i \in 1 .. Len(ts) |-> Tool(i, 1)] = s
      BY <2>4 DEF WholeCalls
    <3>2. QED
      BY <1>3, <2>2, <2>4, <3>1
  <2>5. QED
    BY <2>3, <2>4
<1>7. QED
  BY <1>2, <1>3, <1>5, <1>6

\* A client that has read a stream to its end has the text, and if an event that the
\* adapter heeds concluded it (of the Responses API response.completed alone) the whole
\* answer: on every wire and for an answer of any length, with thoughts, text and tool
\* calls in any order and fragments of several calls mixed where the wire mixes them, it
\* has the calls with their whole arguments, the usage and (but of Gemini) the stop reason
\* that chat() of the same adapter would have answered with (adapters/,
\* services/messages_v2/emit.py).
THEOREM StreamedAnswerIsWhole == Spec => []AnswerWhole
<1>1. Init => WholeInv
  BY WholeStart DEF Init
<1>2. WholeInv => AnswerWhole
  <2> SUFFICES ASSUME WholeInv, ended = "clean" PROVE AnswerWhole
    BY DEF AnswerWhole
  <2> DEFINE ts == said.tools
             w == ChatAnswer.tools
  <2>1. /\ at = "done" /\ source = "over" /\ chunks = <<>> /\ said.reason # "none"
        /\ ts \in Seq(Progress) /\ streamed \in AllWires
    <3>1. at = "done" /\ source = "over" /\ chunks = <<>> /\ said.reason # "none"
      BY DEF WholeInv, UsageInv
    <3>2. QED
      BY <3>1 DEF WholeInv, UsageInv, StreamTypes, SaidSet
  <2>2. /\ DOMAIN w = 1 .. Len(ts)
        /\ \A i \in 1 .. Len(ts) : w[i] = Tool(i, ts[i].args)
        /\ w \in Seq(Calls) /\ Len(w) = Len(ts)
        /\ ChatAnswer.text = said.text /\ ChatAnswer.usage = said.usage
        /\ streamed # "gemini" => ChatAnswer.reason = StopReason(w # <<>>, Finish(said.reason))
    BY <2>1, AnswerTools DEF WholeInv
  <2> HIDE DEF w
  <2>3. view.text = said.text
    BY <2>1 DEF WholeInv, TextTold, TextFlows, TextDue, Extended
  <2> SUFFICES ASSUME said.reason \in Noticed
               PROVE  /\ ToSet(view.tools) = ToSet(ChatAnswer.tools)
                      /\ Len(view.tools) = Len(ChatAnswer.tools)
                      /\ streamed # "responses" => view.tools = ChatAnswer.tools
                      /\ view.usage = ChatAnswer.usage
                      /\ streamed # "gemini" => view.reason = ChatAnswer.reason
    BY <2>2, <2>3 DEF AnswerWhole
  <2>4. view.tools \in Seq(Calls) /\ Given(streamed, view.tools, ts, adapter, TRUE)
    <3>1. PICK q \in Seq(Calls) :
            /\ CallsFlow(q, view.tools, <<>>, chunk.tools, "done")
            /\ Given(streamed, q, ts, adapter, TRUE)
      BY <2>1 DEF WholeInv, CallsTold, Given, Followed
    <3>2. CallsFlow(q, view.tools, <<>>, chunk.tools, "fetch")
      BY <3>1 DEF CallsFlow, InChunk
    <3>3. Carries(<<>>, <<>>) /\ <<>> \in Seq(Calls)
      <4>1. <<>> \in Seq(Calls)
        OBVIOUS
      <4>2. QED
        BY <4>1, NoChunk
    <3>4. q = view.tools
      BY <3>2, <3>3, CallsHanded
    <3>5. QED
      BY <3>1, <3>4
  <2>5. streamed # "responses" => view.tools = w
    <3> SUFFICES ASSUME streamed # "responses" PROVE view.tools = w
      OBVIOUS
    <3>1. Len(view.tools) = Len(w) /\ \A i \in 1 .. Len(view.tools) : view.tools[i] = w[i]
      BY <2>2, <2>4 DEF Given, Gathered
    <3>2. QED
      BY <2>2, <2>4, <3>1, SeqEqual
  <2>6. Len(view.tools) = Len(w) /\ ToSet(view.tools) = ToSet(w)
    <3>1. CASE streamed # "responses"
      BY <2>5, <3>1
    <3>2. CASE streamed = "responses"
      <4>1. Completed(view.tools, ts, adapter) /\ AllShut(ts)
        BY <2>4, <3>2 DEF Given, AllShut
      <4>2. /\ Len(view.tools) = Len(ts)
            /\ ToSet(view.tools) = {Tool(i, ts[i].args) : i \in 1 .. Len(ts)}
        BY <2>1, <2>4, <4>1, InAnyOrder
      <4>3. ToSet(w) = {Tool(i, ts[i].args) : i \in 1 .. Len(ts)}
        BY <2>2 DEF ToSet
      <4>4. QED
        BY <2>2, <4>2, <4>3
    <3>3. QED
      BY <3>1, <3>2
  <2>7. view.usage = said.usage
    <3>1. view.usage = em.usage
      BY <2>1 DEF WholeInv, EndTold
    <3>2. UsageTold
      BY <2>1 DEF WholeInv, UsageInv
    <3>3. em.usage = said.usage
      BY <2>1, <3>2 DEF UsageTold, InChunk
    <3>4. QED
      BY <3>1, <3>3
  <2>8. streamed # "gemini" => view.reason = ChatAnswer.reason
    <3> SUFFICES ASSUME streamed # "gemini" PROVE view.reason = ChatAnswer.reason
      OBVIOUS
    <3>1. view.reason = StopReason(em.tool, em.finish) /\ (em.tool <=> view.tools # <<>>)
      BY <2>1 DEF WholeInv, EndTold
    <3>2. em.finish = Finish(said.reason)
      BY <2>1 DEF WholeInv, EndTold, FinishTold, InChunk
    <3>3. view.tools # <<>> <=> w # <<>>
      BY <2>2, <2>4, <2>6, EmptySeq
    <3>4. QED
      BY <2>2, <3>1, <3>2, <3>3 DEF StopReason
  <2>9. QED
    BY <2>2, <2>5, <2>6, <2>7, <2>8 DEF w
<1>3. QED
  BY <1>1, <1>2, WholeStep, PTL DEF Spec
-----------------------------------------------------------------------------
(* Images, speech, transcriptions and embeddings, and their bill.          *)

\* The message of a request is in the queue, or somebody has received it.
Mailed(r) == r \in queue \/ r \in visible \/ \E c \in Consumers : r \in consumer[c].batch

\* The requests LedgerTellsCharge speaks of.
Plain(r) == ~Is(r, "speech") /\ ~call[r].blank

Kind == {"success", "error"}

\* Who holds which messages: what is about to be deleted is in the usage log.
MailInv ==
    /\ queue \subseteq Requests \cup {Alien} /\ visible \subseteq Requests \cup {Alien}
    /\ DOMAIN consumer = Consumers
    /\ \A c \in Consumers :
         /\ DOMAIN consumer[c] = {"pc", "batch"}
         /\ consumer[c].batch \subseteq Requests \cup {Alien}
         /\ consumer[c].pc = "stored" =>
              \A m \in consumer[c].batch : m \in Requests /\ copies[m] > 0

ServingShape ==
    /\ DOMAIN phase = Requests /\ DOMAIN call = Requests /\ DOMAIN task = Requests
    /\ DOMAIN table = Requests
    /\ \A r \in Requests : DOMAIN task[r] = Kind /\ DOMAIN table[r] = Kind
    /\ copies \in [Requests -> Nat] /\ debits \in [Requests -> Nat]

\* A failure is noted by nobody before its task runs, and then kept.
FailureNoted(r) ==
    /\ task[r].error = "none" => table[r].error = "none" /\ copies[r] = 0 /\ ~Mailed(r)
    /\ task[r].error = "sent" => r \in queue \/ copies[r] > 0
    /\ task[r].error # "none" => phase[r] \in {"failed", "dead"}

\* The task that charges starts once, debits once and tells of it; a request it is
\* started for does not fail.
ChargeNoted(r) ==
    /\ task[r].success # "none" =>
         /\ phase[r] \in {"upload", "done", "raised", "failed", "dead"}
         /\ Plain(r) => phase[r] \in {"upload", "done", "dead"} /\ task[r].error = "none"
    /\ task[r].success \in {"none", "fired", "written", "failed", "not_applicable"} =>
         debits[r] = 0
    /\ task[r].success = "debited" => debits[r] = 1
    /\ task[r].success = "done" /\ Plain(r) =>
         table[r].success \in Outcomes /\ (debits[r] = 1 <=> table[r].success = "debited")

MediaInv ==
    /\ MailInv /\ ServingShape
    /\ \A r \in Requests : FailureNoted(r) /\ ChargeNoted(r)

\* What a step leaves alone of a request is noted of it still.
LEMMA StillNoted ==
    ASSUME NEW s \in Requests, FailureNoted(s), ChargeNoted(s), request' = request,
           phase'[s] = phase[s], call'[s] = call[s], task'[s] = task[s], table'[s] = table[s],
           copies'[s] = copies[s], debits'[s] = debits[s],
           Mailed(s)' <=> Mailed(s), s \in queue' <=> s \in queue
    PROVE  FailureNoted(s)' /\ ChargeNoted(s)'
<1>1. FailureNoted(s)'
  BY DEF FailureNoted
<1>2. ChargeNoted(s)'
  BY DEF ChargeNoted, Plain, Is
<1>3. QED
  BY <1>1, <1>2

\* The messages stay where they are.
LEMMA MailStays ==
    ASSUME MailInv, messages' = messages, copies' = copies
    PROVE  MailInv' /\ \A s : Mailed(s)' = Mailed(s)
BY DEF MailInv, Mailed, messages

\* A request moves on, and its charge and its failure are noted.
LEMMA RequestServed ==
    ASSUME MediaInv, NEW r \in Requests, NEW x,
           phase' = [phase EXCEPT ![r] = x],
           request' = request, table' = table, copies' = copies, debits' = debits,
           messages' = messages,
           \/ /\ task' = task /\ phase[r] \in {"new", "gate", "call", "price"}
              /\ call' = call \/ \E a : call' = [call EXCEPT ![r] = a]
           \/ /\ task' = task /\ call' = call /\ phase[r] = "upload"
              /\ \/ x = "done"
                 \/ x = "raised" /\ ~Plain(r)
           \/ /\ task' = [task EXCEPT ![r]["success"] = "fired"] /\ call' = call
              /\ phase[r] = "price" /\ x \in {"upload", "done"}
           \/ /\ task' = task \/ task' = [task EXCEPT ![r]["error"] = "fired"]
              /\ call' = call /\ phase[r] = "raised" /\ x = "failed"
    PROVE  MediaInv'
<1>1. MailInv' /\ \A s : Mailed(s)' = Mailed(s)
  BY MailStays DEF MediaInv
<1>2. ServingShape'
  BY DEF MediaInv, ServingShape, Kind
<1>3. ASSUME NEW s \in Requests, s # r
      PROVE  FailureNoted(s)' /\ ChargeNoted(s)'
  <2>1. phase'[s] = phase[s] /\ call'[s] = call[s] /\ task'[s] = task[s]
    BY <1>3 DEF MediaInv, ServingShape
  <2>2. FailureNoted(s) /\ ChargeNoted(s) /\ queue' = queue
    BY DEF MediaInv, messages
  <2>3. QED
    BY <1>1, <2>1, <2>2, StillNoted
<1>4. /\ FailureNoted(r) /\ ChargeNoted(r) /\ phase'[r] = x /\ DOMAIN task[r] = Kind
      /\ queue' = queue /\ (Mailed(r)' <=> Mailed(r))
      /\ DOMAIN task = Requests
  BY <1>1 DEF MediaInv, ServingShape, messages
<1>5. FailureNoted(r)' /\ ChargeNoted(r)'
  <2>1. CASE task' = task /\ phase[r] \in {"new", "gate", "call", "price"}
    <3>1. task[r].success = "none" /\ task[r].error = "none"
      BY <1>4, <2>1 DEF FailureNoted, ChargeNoted
    <3>2. FailureNoted(r)'
      BY <1>4, <2>1, <3>1 DEF FailureNoted
    <3>3. ChargeNoted(r)'
      BY <1>4, <2>1, <3>1 DEF ChargeNoted
    <3>4. QED
      BY <3>2, <3>3
  <2>2. CASE /\ task' = task /\ call' = call /\ phase[r] = "upload"
             /\ \/ x = "done"
                \/ x = "raised" /\ ~Plain(r)
    <3>1. task[r].error = "none" /\ (Plain(r)' <=> Plain(r))
      BY <1>4, <2>2 DEF FailureNoted, Plain, Is
    <3>2. FailureNoted(r)'
      BY <1>4, <2>2, <3>1 DEF FailureNoted
    <3>3. ChargeNoted(r)'
      BY <1>4, <2>2, <3>1 DEF ChargeNoted
    <3>4. QED
      BY <3>2, <3>3
  <2>3. CASE /\ task' = [task EXCEPT ![r]["success"] = "fired"] /\ call' = call
             /\ phase[r] = "price" /\ x \in {"upload", "done"}
    <3>1. task[r].success = "none" /\ task[r].error = "none"
      BY <1>4, <2>3 DEF FailureNoted, ChargeNoted
    <3>2. task'[r].success = "fired" /\ task'[r].error = task[r].error
      BY <1>4, <2>3 DEF Kind
    <3>3. FailureNoted(r)'
      BY <1>4, <2>3, <3>1, <3>2 DEF FailureNoted
    <3>4. ChargeNoted(r)'
      BY <1>4, <2>3, <3>1, <3>2 DEF ChargeNoted
    <3>5. QED
      BY <3>3, <3>4
  <2>4. CASE /\ task' = task \/ task' = [task EXCEPT ![r]["error"] = "fired"]
             /\ call' = call /\ phase[r] = "raised" /\ x = "failed"
    <3>1. task[r].error = "none" /\ (Plain(r)' <=> Plain(r)) /\ (Plain(r) => task[r].success = "none")
      BY <1>4, <2>4 DEF FailureNoted, ChargeNoted, Plain, Is
    <3>2. task'[r].success = task[r].success /\ task'[r].error \in {task[r].error, "fired"}
      BY <1>4, <2>4 DEF Kind
    <3>3. FailureNoted(r)'
      BY <1>4, <2>4, <3>1, <3>2 DEF FailureNoted
    <3>4. ChargeNoted(r)'
      BY <1>4, <2>4, <3>1, <3>2 DEF ChargeNoted
    <3>5. QED
      BY <3>3, <3>4
  <2>5. QED
    BY <2>1, <2>2, <2>3, <2>4
<1>6. QED
  BY <1>1, <1>2, <1>3, <1>5 DEF MediaInv

\* The route and the service's method.
LEMMA RequestStep ==
    ASSUME MediaInv, NEW r \in Requests,
           \/ PostImage(r) \/ PostSpeech(r) \/ PostTranscription(r) \/ PostEmbedding(r)
           \/ Generate(r) \/ TextToSpeech(r) \/ Transcribe(r) \/ Embed(r) \/ PriceTokens(r)
    PROVE  MediaInv'
<1> USE DEF Go, Raise, ledger
<1>1. ASSUME NEW op, Posted(r, op) PROVE MediaInv'
  <2>1. PICK x : phase' = [phase EXCEPT ![r] = x]
    BY <1>1 DEF Posted
  <2>2. QED
    BY <1>1, <2>1, RequestServed DEF Posted
<1>2. CASE Admit(r)
  <2>1. PICK x : phase' = [phase EXCEPT ![r] = x]
    BY <1>2 DEF Admit
  <2>2. QED
    BY <1>2, <2>1, RequestServed DEF Admit
<1>3. CASE CallProvider(r)
  <2>1. PICK x : phase' = [phase EXCEPT ![r] = x]
    BY <1>3 DEF CallProvider
  <2>2. call' = call \/ \E a : call' = [call EXCEPT ![r] = a]
    BY <1>3 DEF CallProvider
  <2>3. QED
    BY <1>3, <2>1, <2>2, RequestServed DEF CallProvider
<1>4. ASSUME NEW counts, NEW next \in {"upload", "done"}, Charged(r, counts, next)
      PROVE  MediaInv'
  <2>1. /\ phase[r] = "price" /\ UNCHANGED <<request, call, table, copies, debits, messages>>
        /\ \/ Fire(r, "success") /\ phase' = [phase EXCEPT ![r] = next]
           \/ phase' = [phase EXCEPT ![r] = "raised"] /\ task' = task
    BY <1>4 DEF Charged
  <2>2. CASE Fire(r, "success") /\ phase' = [phase EXCEPT ![r] = next]
    BY <2>1, <2>2, RequestServed DEF Fire
  <2>3. CASE phase' = [phase EXCEPT ![r] = "raised"] /\ task' = task
    BY <2>1, <2>3, RequestServed
  <2>4. QED
    BY <2>1, <2>2, <2>3
<1>5. CASE Is(r, "image") /\ DeliverImages(r)
  <2>1. /\ phase[r] = "upload" /\ UNCHANGED <<request, call, task, table, copies, debits, messages>>
        /\ \/ phase' = [phase EXCEPT ![r] = "done"]
           \/ phase' = [phase EXCEPT ![r] = "raised"] /\ ~Plain(r)
    <3>1. /\ phase[r] = "upload"
          /\ UNCHANGED <<request, call, task, table, copies, debits, messages>>
      BY <1>5 DEF DeliverImages
    <3>2. PICK stored : IF UploadImage(r, stored) THEN phase' = [phase EXCEPT ![r] = "done"]
                        ELSE phase' = [phase EXCEPT ![r] = "raised"]
      BY <1>5 DEF DeliverImages
    <3>3. ~UploadImage(r, stored) => ~Plain(r)
      BY DEF UploadImage, Plain
    <3>4. CASE UploadImage(r, stored)
      BY <3>1, <3>2, <3>4
    <3>5. CASE ~UploadImage(r, stored)
      BY <3>1, <3>2, <3>3, <3>5
    <3>6. QED
      BY <3>4, <3>5
  <2>2. CASE phase' = [phase EXCEPT ![r] = "done"]
    <3>1. /\ phase[r] = "upload"
          /\ UNCHANGED <<request, call, task, table, copies, debits, messages>>
      BY <2>1
    <3>2. QED
      BY <2>2, <3>1, RequestServed
  <2>3. CASE phase' = [phase EXCEPT ![r] = "raised"] /\ ~Plain(r)
    BY <2>1, <2>3, RequestServed
  <2>4. QED
    BY <2>1, <2>2, <2>3
<1>6. CASE Is(r, "speech") /\ DeliverSpeech(r)
  <2>1. /\ phase[r] = "upload" /\ UNCHANGED <<request, call, task, table, copies, debits, messages>>
        /\ ~Plain(r)
        /\ \/ phase' = [phase EXCEPT ![r] = "done"]
           \/ phase' = [phase EXCEPT ![r] = "raised"]
    BY <1>6 DEF DeliverSpeech, Plain
  <2>2. CASE phase' = [phase EXCEPT ![r] = "done"]
    BY <2>1, <2>2, RequestServed
  <2>3. CASE phase' = [phase EXCEPT ![r] = "raised"]
    BY <2>1, <2>3, RequestServed
  <2>4. QED
    BY <2>1, <2>2, <2>3
<1>7. CASE RecordFailure(r)
  <2>1. /\ phase[r] = "raised" /\ UNCHANGED <<request, call, table, copies, debits, messages>>
        /\ phase' = [phase EXCEPT ![r] = "failed"]
        /\ task' = task \/ task' = [task EXCEPT ![r]["error"] = "fired"]
    BY <1>7 DEF RecordFailure, Fire
  <2>2. QED
    BY <2>1, RequestServed
<1>8. CASE PriceTokens(r)
  <2>1. /\ phase[r] = "price" /\ phase' = [phase EXCEPT ![r] = "done"]
        /\ UNCHANGED <<request, call, task, table, copies, debits, messages>>
    BY <1>8 DEF PriceTokens
  <2>2. QED
    BY <2>1, RequestServed
<1>9. QED
  BY <1>1, <1>2, <1>3, <1>4, <1>5, <1>6, <1>7, <1>8
     DEF PostImage, PostSpeech, PostTranscription, PostEmbedding, Generate, TextToSpeech, Transcribe,
         Embed, ChargeImage, ChargeSpeech, ChargeTranscription, ChargeEmbedding

\* The task that charges: its row, its debit, and the outcome on the row.
LEMMA ChargeStep ==
    ASSUME MediaInv, NEW r \in Requests, WriteSuccess(r) \/ Debit(r) \/ MarkAndCommit(r)
    PROVE  MediaInv'
<1>1. /\ UNCHANGED <<request, phase, call, copies, messages>>
      /\ \E x : task' = [task EXCEPT ![r]["success"] = x]
  BY DEF WriteSuccess, Debit, MarkAndCommit, Step, serving
<1>2. MailInv' /\ (\A s : Mailed(s)' = Mailed(s)) /\ queue' = queue
  BY <1>1, MailStays DEF MediaInv, messages
<1>3. /\ DOMAIN task = Requests /\ DOMAIN task[r] = Kind /\ DOMAIN table = Requests
      /\ DOMAIN table[r] = Kind /\ debits \in [Requests -> Nat]
      /\ FailureNoted(r) /\ ChargeNoted(r)
  BY DEF MediaInv, ServingShape
<1>4. /\ ServingShape' /\ task'[r].error = task[r].error
      /\ \A s \in Requests : s # r =>
           task'[s] = task[s] /\ table'[s] = table[s] /\ debits'[s] = debits[s]
      /\ FailureNoted(r)' /\ ChargeNoted(r)'
  <2>1. CASE WriteSuccess(r)
    <3>1. /\ task[r].success = "fired" /\ task' = [task EXCEPT ![r]["success"] = "written"]
          /\ table' = table /\ debits' = debits
      BY <2>1 DEF WriteSuccess, Step
    <3>2. task'[r].success = "written" /\ task'[r].error = task[r].error
      BY <1>3, <3>1 DEF Kind
    <3>3. ServingShape' /\ \A s \in Requests : s # r => task'[s] = task[s]
      BY <1>1, <3>1 DEF MediaInv, ServingShape, Kind
    <3>4. FailureNoted(r)'
      BY <1>1, <1>2, <1>3, <3>1, <3>2 DEF FailureNoted
    <3>5. ChargeNoted(r)'
      BY <1>1, <1>3, <3>1, <3>2 DEF ChargeNoted, Plain, Is
    <3>6. QED
      BY <3>1, <3>2, <3>3, <3>4, <3>5
  <2>2. CASE Debit(r)
    <3>1. PICK y \in Outcomes :
            /\ task[r].success = "written" /\ task' = [task EXCEPT ![r]["success"] = y]
            /\ debits' = [debits EXCEPT ![r] = @ + (IF y = "debited" THEN 1 ELSE 0)]
            /\ table' = table
      BY <2>2 DEF Debit, Outcomes
    <3>2. task'[r].success = y /\ task'[r].error = task[r].error
      BY <1>3, <3>1 DEF Kind
    <3>3. debits[r] = 0
      BY <1>3, <3>1 DEF ChargeNoted
    <3>4. debits'[r] = IF y = "debited" THEN 1 ELSE 0
      BY <1>3, <3>1, <3>3
    <3>5. debits' \in [Requests -> Nat]
      BY <1>3, <3>1
    <3>6. ServingShape' /\ \A s \in Requests : s # r => task'[s] = task[s] /\ debits'[s] = debits[s]
      BY <1>1, <3>1, <3>5 DEF MediaInv, ServingShape, Kind
    <3>7. FailureNoted(r)'
      BY <1>1, <1>2, <1>3, <3>1, <3>2 DEF FailureNoted
    <3>8. ChargeNoted(r)'
      BY <1>1, <1>3, <3>1, <3>2, <3>4 DEF ChargeNoted, Plain, Is, Outcomes
    <3>9. QED
      BY <3>1, <3>2, <3>6, <3>7, <3>8
  <2>3. CASE MarkAndCommit(r)
    <3>1. PICK row \in {"success"} \cup (IF table[r].error = "none" THEN {} ELSE {"error"}) :
            table' = [table EXCEPT ![r] = [@ EXCEPT !.success = "pending", ![row] = task[r].success]]
      BY <2>3 DEF MarkAndCommit
    <3>2. /\ task[r].success \in Outcomes /\ task' = [task EXCEPT ![r]["success"] = "done"]
          /\ debits' = debits
      BY <2>3 DEF MarkAndCommit
    <3>3. task'[r].success = "done" /\ task'[r].error = task[r].error
      BY <1>3, <3>2 DEF Kind
    <3>4. /\ table[r].error = "none" => table'[r].success = task[r].success /\ table'[r].error = "none"
          /\ DOMAIN table'[r] = Kind
      BY <1>3, <3>1 DEF Kind
    <3>5. ServingShape' /\ \A s \in Requests : s # r => task'[s] = task[s] /\ table'[s] = table[s]
      BY <1>1, <3>1, <3>2, <3>4 DEF MediaInv, ServingShape, Kind
    <3>6. FailureNoted(r)'
      BY <1>1, <1>2, <1>3, <3>2, <3>3, <3>4 DEF FailureNoted
    <3>7. ChargeNoted(r)'
      <4>1. Plain(r)' <=> Plain(r)
        BY <1>1 DEF Plain, Is
      <4>2. Plain(r) => task[r].error = "none" /\ table[r].error = "none"
        BY <1>3, <3>2 DEF ChargeNoted, FailureNoted, Outcomes
      <4>3. debits[r] = (IF task[r].success = "debited" THEN 1 ELSE 0)
        BY <1>3, <3>2 DEF ChargeNoted, Outcomes
      <4>4. QED
        BY <1>1, <1>3, <3>2, <3>3, <3>4, <4>1, <4>2, <4>3 DEF ChargeNoted, Outcomes
    <3>8. QED
      BY <3>2, <3>3, <3>4, <3>5, <3>6, <3>7
  <2>4. QED
    BY <2>1, <2>2, <2>3
<1>5. ASSUME NEW s \in Requests, s # r
      PROVE  FailureNoted(s)' /\ ChargeNoted(s)'
  BY <1>1, <1>2, <1>4, <1>5, StillNoted DEF MediaInv
<1>6. QED
  BY <1>2, <1>4, <1>5 DEF MediaInv

\* A task that gives up notes nothing.
LEMMA GiveUpStep ==
    ASSUME MediaInv, NEW r \in Requests, GiveUp(r)
    PROVE  MediaInv'
<1>1. PICK kind \in Kind :
        /\ task[r][kind] \in Running /\ task' = [task EXCEPT ![r][kind] = "lost"]
  BY DEF GiveUp, Kind
<1>2. /\ UNCHANGED <<request, phase, call, table, copies, debits, messages, queue>>
      /\ MailInv' /\ (\A s : Mailed(s)' = Mailed(s))
  BY MailStays DEF GiveUp, serving, MediaInv, messages
<1>3. /\ DOMAIN task = Requests /\ DOMAIN task[r] = Kind /\ FailureNoted(r) /\ ChargeNoted(r)
  BY DEF MediaInv, ServingShape
<1>4. \/ kind = "success" /\ task'[r].success = "lost" /\ task'[r].error = task[r].error
      \/ kind = "error" /\ task'[r].error = "lost" /\ task'[r].success = task[r].success
  BY <1>1, <1>3 DEF Kind
<1>5. "none" \notin Running
  BY DEF Running, Outcomes
<1>6. FailureNoted(r)'
  BY <1>1, <1>2, <1>3, <1>4, <1>5 DEF FailureNoted
<1>7. ChargeNoted(r)'
  BY <1>1, <1>2, <1>3, <1>4, <1>5 DEF ChargeNoted, Plain, Is
<1>8. ServingShape'
  BY <1>1, <1>2 DEF MediaInv, ServingShape, Kind
<1>9. ASSUME NEW s \in Requests, s # r
      PROVE  FailureNoted(s)' /\ ChargeNoted(s)'
  <2>1. task'[s] = task[s] /\ FailureNoted(s) /\ ChargeNoted(s)
    BY <1>1, <1>9 DEF MediaInv, ServingShape
  <2>2. QED
    BY <1>2, <2>1, StillNoted
<1>10. QED
  BY <1>2, <1>6, <1>7, <1>8, <1>9 DEF MediaInv

\* A failure is sent to the queue, not sent, or written to the usage log.
LEMMA WriteErrorStep ==
    ASSUME MediaInv, NEW r \in Requests, WriteError(r)
    PROVE  MediaInv'
<1>1. /\ task[r].error = "fired"
      /\ UNCHANGED <<request, phase, call, debits, consumer>>
      /\ \/ /\ queue' = queue \cup {r} /\ visible' = visible \cup {r}
            /\ task' = [task EXCEPT ![r]["error"] = "sent"]
            /\ UNCHANGED <<table, copies>>
         \/ /\ task' = [task EXCEPT ![r]["error"] = "unsent"]
            /\ UNCHANGED <<table, copies, queue, visible>>
         \/ /\ table' = [table EXCEPT ![r]["error"] = "not_applicable"]
            /\ copies' = [copies EXCEPT ![r] = 1]
            /\ task' = [task EXCEPT ![r]["error"] = "stored"]
            /\ UNCHANGED <<queue, visible>>
  BY DEF WriteError, serving
<1>2. /\ DOMAIN task = Requests /\ DOMAIN task[r] = Kind /\ DOMAIN table = Requests
      /\ DOMAIN table[r] = Kind /\ copies \in [Requests -> Nat] /\ debits \in [Requests -> Nat]
      /\ FailureNoted(r) /\ ChargeNoted(r)
  BY DEF MediaInv, ServingShape
<1>3. /\ task'[r].error \in {"sent", "unsent", "stored"} /\ task'[r].success = task[r].success
      /\ task'[r].error = "sent" => r \in queue'
  BY <1>1, <1>2 DEF Kind
<1>4. table'[r].success = table[r].success /\ \A s \in Requests : copies[s] > 0 => copies'[s] > 0
      /\ copies' \in [Requests -> Nat]
  <2>1. CASE table' = table /\ copies' = copies
    BY <1>2, <2>1
  <2>2. CASE /\ table' = [table EXCEPT ![r]["error"] = "not_applicable"]
             /\ copies' = [copies EXCEPT ![r] = 1]
    BY <1>2, <2>2 DEF Kind
  <2>3. QED
    BY <1>1, <2>1, <2>2
<1>5. FailureNoted(r)'
  BY <1>1, <1>2, <1>3 DEF FailureNoted
<1>6. ChargeNoted(r)'
  BY <1>1, <1>2, <1>3, <1>4 DEF ChargeNoted, Plain, Is
<1>7. ServingShape'
  BY <1>1, <1>2, <1>4 DEF MediaInv, ServingShape, Kind
<1>8. MailInv'
  BY <1>1, <1>4 DEF MediaInv, MailInv
<1>9. ASSUME NEW s \in Requests, s # r
      PROVE  FailureNoted(s)' /\ ChargeNoted(s)'
  <2>1. /\ task'[s] = task[s] /\ table'[s] = table[s] /\ copies'[s] = copies[s]
        /\ FailureNoted(s) /\ ChargeNoted(s)
        /\ s \in queue' <=> s \in queue
        /\ s \in visible' <=> s \in visible
    BY <1>1, <1>2, <1>9 DEF MediaInv, ServingShape
  <2>2. Mailed(s)' <=> Mailed(s)
    BY <1>1, <2>1 DEF Mailed
  <2>3. QED
    BY <1>1, <2>1, <2>2, StillNoted
<1>10. QED
  BY <1>5, <1>6, <1>7, <1>8, <1>9 DEF MediaInv

\* The pod that serves dies.
LEMMA DieStep ==
    ASSUME MediaInv, Die
    PROVE  MediaInv'
<1>1. /\ phase' = [r \in Requests |-> IF phase[r] \in Ended THEN phase[r] ELSE "dead"]
      /\ task' = [r \in Requests |->
                    [kind \in Kind |-> IF task[r][kind] \in Running THEN "lost" ELSE task[r][kind]]]
      /\ UNCHANGED <<request, call, table, copies, debits, messages, queue>>
  BY DEF Die, Kind, messages
<1>2. MailInv' /\ (\A s : Mailed(s)' = Mailed(s))
  BY <1>1, MailStays DEF MediaInv
<1>3. ServingShape'
  BY <1>1 DEF MediaInv, ServingShape
<1>4. ASSUME NEW r \in Requests
      PROVE  FailureNoted(r)' /\ ChargeNoted(r)'
  <2>1. /\ phase'[r] = (IF phase[r] \in Ended THEN phase[r] ELSE "dead")
        /\ task'[r].success = (IF task[r].success \in Running THEN "lost" ELSE task[r].success)
        /\ task'[r].error = (IF task[r].error \in Running THEN "lost" ELSE task[r].error)
        /\ FailureNoted(r) /\ ChargeNoted(r)
    BY <1>1 DEF Kind, MediaInv
  <2>2. "none" \notin Running
    BY DEF Running, Outcomes
  <2>3. FailureNoted(r)'
    BY <1>1, <1>2, <2>1, <2>2 DEF FailureNoted, Ended
  <2>4. ChargeNoted(r)'
    BY <1>1, <2>1, <2>2 DEF ChargeNoted, Ended, Plain, Is
  <2>5. QED
    BY <2>3, <2>4
<1>5. QED
  BY <1>2, <1>3, <1>4 DEF MediaInv

\* The queue and its consumers: what they do to the messages, and which records they
\* store.  A message they have or the queue has was sent.
LEMMA MailMoves ==
    ASSUME MediaInv, MailInv', ServingShape',
           UNCHANGED <<request, phase, call, task, debits>>,
           \A s \in Requests : (Mailed(s)' => Mailed(s)),
           \A s \in Requests : s \in queue /\ s \notin queue' => copies'[s] > 0,
           \A s \in Requests : copies[s] > 0 => copies'[s] > 0,
           \A s \in Requests : ~Mailed(s) => copies'[s] = copies[s] /\ table'[s] = table[s],
           \A s \in Requests : table'[s].success = table[s].success
    PROVE  MediaInv'
<1>1. ASSUME NEW s \in Requests
      PROVE  FailureNoted(s)' /\ ChargeNoted(s)'
  <2>1. FailureNoted(s) /\ ChargeNoted(s)
    BY DEF MediaInv
  <2>2. FailureNoted(s)'
    BY <2>1 DEF FailureNoted
  <2>3. ChargeNoted(s)'
    BY <2>1 DEF ChargeNoted, Plain, Is
  <2>4. QED
    BY <2>2, <2>3
<1>2. QED
  BY <1>1 DEF MediaInv

\* A consumer receives a batch, stores its records, deletes them, or dies.
LEMMA ConsumerStep ==
    ASSUME MediaInv, NEW c \in Consumers, Consume(c) \/ ConsumerDies(c)
    PROVE  MediaInv'
<1>1. /\ UNCHANGED <<request, phase, call, task, debits>>
      /\ MailInv /\ ServingShape
      /\ DOMAIN consumer = Consumers /\ DOMAIN consumer[c] = {"pc", "batch"}
      /\ consumer[c].batch \subseteq Requests \cup {Alien}
      /\ \A x : consumer' = [consumer EXCEPT ![c] = x] =>
           /\ consumer'[c] = x /\ DOMAIN consumer' = Consumers
           /\ \A d \in Consumers : d # c => consumer'[d] = consumer[d]
  BY DEF MediaInv, MailInv, Consume, Receive, Store, Delete, ConsumerDies, serving, ledger
<1>2. CASE Receive(c)
  <2>1. PICK batch \in SUBSET visible :
          /\ visible' = visible \ batch
          /\ consumer' = [consumer EXCEPT ![c] = [pc |-> "received", batch |-> batch]]
    BY <1>2 DEF Receive
  <2>2. UNCHANGED <<table, copies, queue>>
    BY <1>2 DEF Receive, ledger
  <2>3. MailInv'
    BY <1>1, <2>1, <2>2 DEF MailInv
  <2>4. \A s \in Requests : Mailed(s)' => Mailed(s)
    BY <1>1, <2>1, <2>2 DEF Mailed
  <2>5. ServingShape'
    BY <1>1, <2>2 DEF ServingShape
  <2>6. QED
    BY <1>1, <2>2, <2>3, <2>4, <2>5, MailMoves
<1>3. ASSUME Idle(c), UNCHANGED <<table, copies, queue, visible>>
      PROVE  MediaInv'
  <2>1. consumer' = [consumer EXCEPT ![c] = [pc |-> "idle", batch |-> {}]]
    BY <1>3 DEF Idle
  <2>2. MailInv'
    BY <1>1, <1>3, <2>1 DEF MailInv
  <2>3. \A s \in Requests : Mailed(s)' => Mailed(s)
    BY <1>1, <1>3, <2>1 DEF Mailed
  <2>4. ServingShape'
    BY <1>1, <1>3 DEF ServingShape
  <2>5. QED
    BY <1>1, <1>3, <2>2, <2>3, <2>4, MailMoves
<1>4. CASE Store(c)
  <2> DEFINE records == consumer[c].batch \ {Alien}
  <2>1. UNCHANGED <<queue, visible>>
    BY <1>4 DEF Store
  <2>2. CASE Idle(c) /\ UNCHANGED <<table, copies>>
    BY <1>3, <2>1, <2>2
  <2>3. CASE /\ copies' = [r \in Requests |-> copies[r] + (IF r \in records THEN 1 ELSE 0)]
             /\ table' = [r \in Requests |->
                            IF r \in records /\ table[r].error = "none"
                              THEN [table[r] EXCEPT !.error = "not_applicable"] ELSE table[r]]
             /\ consumer' = [consumer EXCEPT ![c] = [pc |-> "stored", batch |-> records]]
    <3>1. records \subseteq Requests /\ records \subseteq consumer[c].batch
      BY <1>1
    <3> HIDE DEF records
    <3>2. /\ copies' \in [Requests -> Nat]
          /\ \A r \in Requests : copies[r] > 0 => copies'[r] > 0
          /\ \A r \in records : copies'[r] > 0
          /\ \A r \in Requests : r \notin records => copies'[r] = copies[r]
      BY <1>1, <2>3, <3>1 DEF ServingShape
    <3>3. /\ DOMAIN table' = Requests
          /\ \A r \in Requests : DOMAIN table'[r] = Kind /\ table'[r].success = table[r].success
          /\ \A r \in Requests : r \notin records => table'[r] = table[r]
      BY <1>1, <2>3 DEF ServingShape, Kind
    <3>4. MailInv'
      BY <1>1, <2>1, <2>3, <3>1, <3>2 DEF MailInv
    <3>5. \A s \in Requests : Mailed(s)' => Mailed(s)
      BY <1>1, <2>1, <2>3, <3>1 DEF Mailed
    <3>6. ServingShape'
      BY <1>1, <3>2, <3>3 DEF ServingShape
    <3>7. \A s \in Requests : ~Mailed(s) => s \notin records
      BY <3>1 DEF Mailed
    <3>8. QED
      BY <1>1, <2>1, <3>2, <3>3, <3>4, <3>5, <3>6, <3>7, MailMoves
  <2>4. QED
    BY <1>4, <2>2, <2>3 DEF Store
<1>5. CASE Delete(c)
  <2>1. consumer[c].pc = "stored" /\ UNCHANGED <<table, copies>>
    BY <1>5 DEF Delete, ledger
  <2>2. CASE Idle(c) /\ UNCHANGED <<queue, visible>>
    BY <1>3, <2>1, <2>2
  <2>3. CASE \E m \in consumer[c].batch :
               /\ consumer' = [consumer EXCEPT ![c].batch = @ \ {m},
                                 ![c].pc = IF consumer[c].batch = {m} THEN "idle" ELSE @]
               /\ \/ queue' = queue \ {m} /\ visible' = visible \ {m}
                  \/ UNCHANGED <<queue, visible>>
    <3>1. PICK m \in consumer[c].batch :
            /\ consumer' = [consumer EXCEPT ![c].batch = @ \ {m},
                              ![c].pc = IF consumer[c].batch = {m} THEN "idle" ELSE @]
            /\ \/ queue' = queue \ {m} /\ visible' = visible \ {m}
               \/ UNCHANGED <<queue, visible>>
      BY <2>3
    <3>2. /\ DOMAIN consumer' = Consumers /\ DOMAIN consumer'[c] = {"pc", "batch"}
          /\ consumer'[c].batch = consumer[c].batch \ {m}
          /\ \A d \in Consumers : d # c => consumer'[d] = consumer[d]
      BY <1>1, <3>1
    <3>3. \A n \in consumer[c].batch : n \in Requests /\ copies[n] > 0
      BY <1>1, <2>1 DEF MailInv
    <3>4. MailInv'
      <4>1. queue' \subseteq queue /\ visible' \subseteq visible
        BY <3>1
      <4>2. QED
        BY <1>1, <2>1, <3>2, <3>3, <4>1 DEF MailInv
    <3>5. \A s \in Requests : Mailed(s)' => Mailed(s)
      BY <1>1, <3>1, <3>2 DEF Mailed
    <3>6. ServingShape'
      BY <1>1, <2>1 DEF ServingShape
    <3>7. \A s \in Requests : s \in queue /\ s \notin queue' => copies'[s] > 0
      BY <2>1, <3>1, <3>3
    <3>8. QED
      BY <1>1, <2>1, <3>4, <3>5, <3>6, <3>7, MailMoves
  <2>4. QED
    BY <1>5, <2>2, <2>3 DEF Delete
<1>6. CASE ConsumerDies(c)
  BY <1>3, <1>6 DEF ConsumerDies, ledger
<1>7. QED
  BY <1>2, <1>4, <1>5, <1>6 DEF Consume

\* A message nobody deleted in time is visible again.
LEMMA ReappearStep ==
    ASSUME MediaInv, Reappear
    PROVE  MediaInv'
<1>1. PICK m \in queue : visible' = visible \cup {m}
  BY DEF Reappear
<1>2. UNCHANGED <<request, phase, call, task, table, copies, debits, queue, consumer>>
  BY DEF Reappear, serving, ledger
<1>3. MailInv'
  BY <1>1, <1>2 DEF MediaInv, MailInv
<1>4. ServingShape'
  BY <1>2 DEF MediaInv, ServingShape
<1>5. \A s \in Requests : Mailed(s)' => Mailed(s)
  BY <1>1, <1>2 DEF Mailed
<1>6. QED
  BY <1>2, <1>3, <1>4, <1>5, MailMoves

\* Every step keeps the books.
LEMMA MediaStep ==
    MediaInv /\ [Next]_vars => MediaInv'
<1> SUFFICES ASSUME MediaInv, [Next]_vars PROVE MediaInv'
  OBVIOUS
<1>1. CASE MediaNext
  <2>1. ASSUME NEW r \in Requests, BackgroundTask(r) PROVE MediaInv'
    BY <2>1, ChargeStep, GiveUpStep, WriteErrorStep DEF BackgroundTask
  <2>2. QED
    BY <1>1, <2>1, RequestStep, DieStep, ConsumerStep, ReappearStep
       DEF MediaNext, ImageTask, AudioTask, EmbeddingTask
<1>2. CASE UNCHANGED mediaVars
  <2>1. /\ UNCHANGED <<request, phase, call, task, table, copies, debits, queue, visible, consumer>>
    BY <1>2 DEF mediaVars, serving, ledger, messages
  <2>2. MailInv' /\ \A s : Mailed(s)' = Mailed(s)
    BY <2>1, MailStays DEF MediaInv, messages
  <2>3. ServingShape'
    BY <2>1 DEF MediaInv, ServingShape
  <2>4. QED
    BY <2>1, <2>2, <2>3, StillNoted DEF MediaInv
<1>3. QED
  BY <1>1, <1>2 DEF Next, vars

\* Nothing is charged or noted at first, and a message in the queue is no record.
LEMMA MediaStart == MediaInit => MediaInv
<1> SUFFICES ASSUME MediaInit PROVE MediaInv
  OBVIOUS
<1>1. /\ call = [r \in Requests |-> NoCall] /\ task = [r \in Requests |-> NoTask]
      /\ table = [r \in Requests |-> NoRows] /\ copies = [r \in Requests |-> 0]
      /\ debits = [r \in Requests |-> 0] /\ visible = queue
      /\ consumer = [c \in Consumers |-> [pc |-> "idle", batch |-> {}]]
  BY DEF MediaInit
<1>2. queue \subseteq {Alien} /\ DOMAIN phase = Requests
  BY DEF MediaInit
<1>3. MailInv
  BY <1>1, <1>2 DEF MailInv
<1>4. ServingShape
  BY <1>1, <1>2 DEF ServingShape, Kind, NoTask, NoRows
<1>5. ASSUME NEW r \in Requests PROVE FailureNoted(r) /\ ChargeNoted(r)
  <2>1. ~Mailed(r)
    BY <1>1, <1>2, MediaAssumption DEF Mailed, Requests
  <2>2. /\ task[r].success = "none" /\ task[r].error = "none" /\ table[r].error = "none"
        /\ copies[r] = 0 /\ debits[r] = 0
    BY <1>1 DEF NoTask, NoRows
  <2>3. QED
    BY <2>1, <2>2 DEF FailureNoted, ChargeNoted
<1>6. QED
  BY <1>3, <1>4, <1>5 DEF MediaInv

\* A record the queue took is in the queue or in the usage log (main.py, the consumer
\* loop): for any number of consumers and any size of a batch, whatever dies, is delivered
\* twice, is not committed, or is deleted with a handle that is no longer good.
THEOREM QueuedRecordsKept == Spec => []RecordsKept
<1>1. Init => MediaInv
  BY MediaStart DEF Init
<1>2. MediaInv => RecordsKept
  BY DEF MediaInv, FailureNoted, RecordsKept
<1>3. QED
  BY <1>1, <1>2, MediaStep, PTL DEF Spec

\* The row of an image, a transcription or an embedding tells of its debit once the task
\* that charges it is through, and there is no row of a failure beside it (image.py,
\* audio.py, embedding.py, usage.py): a request is charged only where nothing that can
\* still fail is left, except speech and images without data.
THEOREM LedgerTellsTheCharge == Spec => []LedgerTellsCharge
<1>1. Init => MediaInv
  BY MediaStart DEF Init
<1>2. MediaInv => LedgerTellsCharge
  <2> SUFFICES ASSUME MediaInv PROVE LedgerTellsCharge
    OBVIOUS
  <2>1. ASSUME NEW r \in Requests, task[r].success = "done", Plain(r)
        PROVE  /\ table[r].success \in Outcomes
               /\ debits[r] = 1 <=> table[r].success = "debited"
               /\ task[r].error = "none" /\ copies[r] = 0
    BY <2>1 DEF MediaInv, FailureNoted, ChargeNoted
  <2>2. QED
    BY <2>1 DEF LedgerTellsCharge, Plain
<1>3. QED
  BY <1>1, <1>2, MediaStep, PTL DEF Spec

TokenUnits == {"per_1k_tokens", "per_1m_tokens"}
Optional   == Nat \cup {None}

\* A row of the price table, whatever its rates, markup and threshold.
RowSet ==
    [unit : {"none", "per_image", "per_minute"} \cup TokenUnits,
     input : Nat, output : Nat, markup : Nat \ {0}, inputCu : Nat, outputCu : Nat,
     cacheRead : Optional, imageInput : Optional, threshold : Optional,
     longInput : Optional, longOutput : Optional, longCache : Optional]

CountSet ==
    [input : Nat, output : Nat, cached : Nat, write5m : Nat, write1h : Nat, image : Nat]

\* The columns the database generates carry the markup.
Generated(row) == row.inputCu = row.input * row.markup /\ row.outputCu = row.output * row.markup

Subsets(n) == n.cached + n.write5m + n.write1h

\* The markup of the generated columns comes out whole.
LEMMA MarkupComesOut ==
    ASSUME NEW x \in Nat, NEW m \in Nat \ {0}
    PROVE  (x * m) \div m = x
<1> DEFINE q == (x * m) \div m
           rem == (x * m) % m
<1>1. x * m \in Nat /\ m \in Nat /\ m > 0
  OBVIOUS
<1>2. q \in Int /\ rem \in 0 .. (m - 1) /\ x * m = m * q + rem
  BY <1>1
<1> HIDE DEF q, rem
<1>3. m * (x - q) = rem /\ 0 <= rem /\ rem < m
  BY <1>2
<1>4. x - q = 0
  <2>1. CASE x - q >= 1
    BY <1>2, <1>3, <2>1
  <2>2. CASE x - q <= -1
    BY <1>2, <1>3, <2>2
  <2>3. QED
    BY <1>2, <2>1, <2>2
<1>5. QED
  BY <1>2, <1>4 DEF q

\* What Redis holds of a row is the row.
LEMMA RowComesBack ==
    ASSUME NEW row \in RowSet
    PROVE  DictToPricing(PricingToDict(row)) = row
BY DEF DictToPricing, PricingToDict, RowSet

\* The fields of a row.
LEMMA RowTyped ==
    ASSUME NEW row \in RowSet
    PROVE  /\ row.input \in Nat /\ row.output \in Nat /\ row.markup \in Nat \ {0}
           /\ row.inputCu \in Nat /\ row.outputCu \in Nat
           /\ \A x \in {row.cacheRead, row.imageInput, row.threshold, row.longInput,
                        row.longOutput, row.longCache} : x \in Int /\ (x # None => x \in Nat)
BY DEF RowSet, Optional, None

\* The weight of a unit of rate, a whole number.
LEMMA WeightTyped ==
    \A unit : Weight(unit) \in Nat /\ (unit = "per_1k_tokens" => Weight(unit) = 1000)
                                   /\ (unit = "per_1m_tokens" => Weight(unit) = 1)
<1>1. Million \div Thousand = 1000
  BY DEF Million, Thousand
<1>2. QED
  BY <1>1 DEF Weight, Million

\* Without the markup.
LEMMA ProviderCostPlain ==
    ASSUME NEW row \in RowSet, Generated(row), NEW i \in Nat, NEW o \in Nat
    PROVE  ProviderCost(row, i, o) = ((i * row.input + o * row.output) * Weight(row.unit)) * Parts
<1> DEFINE a == row.input
           b == row.output
           m == row.markup
           w == Weight(row.unit)
           x == (i * a + o * b) * w
<1>1. /\ a \in Nat /\ b \in Nat /\ m \in Nat \ {0} /\ w \in Nat
      /\ row.inputCu = a * m /\ row.outputCu = b * m
  BY RowTyped, WeightTyped DEF Generated
<1>2. ProviderCost(row, i, o) = (((i * (a * m) + o * (b * m)) * w) \div m) * Parts
  BY <1>1 DEF ProviderCost
<1> HIDE DEF a, b, m, w
<1>3. i * a \in Nat /\ o * b \in Nat
  BY <1>1
<1>4. x \in Nat /\ ((i * (a * m) + o * (b * m)) * w) = x * m
  BY <1>1
<1> HIDE DEF x
<1>5. (x * m) \div m = x
  BY <1>1, <1>4, MarkupComesOut
<1>6. ProviderCost(row, i, o) = x * Parts
  BY <1>2, <1>4, <1>5
<1>7. QED
  BY <1>6 DEF x, a, b, w

\* The rates of the tier a prompt falls in.
InRate(row, long)  == IF long THEN row.longInput ELSE row.input
OutRate(row, long) == IF long THEN row.longOutput ELSE row.output
OwnRate(row, long) == IF long THEN row.longCache ELSE row.cacheRead
ImageRate(row)     == IF row.imageInput # None THEN row.imageInput ELSE row.input
ReadRate(row, long) ==
    IF OwnRate(row, long) # None THEN OwnRate(row, long) * Parts ELSE InRate(row, long) * CacheRead

Long(row, n) == LongTierApplies(row, n.input + n.cached + n.write5m + n.write1h)

\* The reference, written out.
ListCost(row, n, long) ==
    n.input * (InRate(row, long) * Parts) * Weight(row.unit)
    + n.output * (OutRate(row, long) * Parts) * Weight(row.unit)
    + n.cached * ReadRate(row, long) * Weight(row.unit)
    + n.write5m * (InRate(row, long) * Write5m) * Weight(row.unit)
    + n.write1h * (InRate(row, long) * Write1h) * Weight(row.unit)
    + n.image * (ImageRate(row) * Parts) * Weight(row.unit)

\* The reference is the list written out.
LEMMA AtCostWritten ==
    ASSUME NEW row, NEW n \in CountSet
    PROVE  AtCost(row, n) = ListCost(row, n, Long(row, n))
<1>1. /\ n["input"] = n.input /\ n["output"] = n.output /\ n["cached"] = n.cached
      /\ n["write5m"] = n.write5m /\ n["write1h"] = n.write1h /\ n["image"] = n.image
  OBVIOUS
<1>2. QED
  BY <1>1 DEF AtCost, ListCost, Long, InRate, OutRate, OwnRate, ImageRate, ReadRate

\* The fields of what is counted.
LEMMA CountTyped ==
    ASSUME NEW n \in CountSet
    PROVE  /\ n.input \in Nat /\ n.output \in Nat /\ n.cached \in Nat /\ n.write5m \in Nat
           /\ n.write1h \in Nat /\ n.image \in Nat
BY DEF CountSet

\* The rates of a tier that applies are there.
LEMMA RatesTyped ==
    ASSUME NEW row \in RowSet, NEW n \in CountSet
    PROVE  LET long == Long(row, n) IN
           /\ InRate(row, long) \in Nat /\ OutRate(row, long) \in Nat
           /\ ReadRate(row, long) \in Nat /\ ImageRate(row) \in Nat
           /\ OwnRate(row, long) \in Int
<1>1. Long(row, n) => row.longInput # None /\ row.longOutput # None
  BY DEF Long, LongTierApplies
<1>2. QED
  BY <1>1, RowTyped DEF InRate, OutRate, OwnRate, ReadRate, ImageRate, Parts, CacheRead

\* Rates and weights multiplied out.
LEMMA MultipliedOut ==
    ASSUME NEW i \in Int, NEW o \in Int, NEW c \in Int, NEW x \in Int, NEW y \in Int, NEW g \in Int,
           NEW a \in Int, NEW b \in Int, NEW rd \in Int, NEW im \in Int, NEW w \in Int
    PROVE  ((i * a + o * b) * 20 + c * rd + a * (x * 25 + y * 40)) * w + g * im * w * 20
             = i * (a * 20) * w + o * (b * 20) * w + c * rd * w + x * (a * 25) * w
               + y * (a * 40) * w + g * (im * 20) * w
OBVIOUS

\* Weights move past the parts of a dollar.
LEMMA WeightMoves ==
    /\ \A p, z, v, w \in Int : (p * w) * 20 + z * w + v = (p * 20 + z) * w + v
    /\ \A p, w \in Int : (p * w) * 20 = (p * 20) * w
OBVIOUS

\* A row that counts what is counted: tokens of every kind, or one kind alone.
Suits(row, n) ==
    \/ row.unit \in TokenUnits
    \/ Subsets(n) = 0 /\ n.image = 0 /\ ~Long(row, n)

\* The tokens as a wire reports them, the cached and the written ones in the input or not.
Reported(n, included) == IF included THEN [n EXCEPT !.input = @ + Subsets(n)] ELSE n

\* What calculate_compute_units makes of a request is what the list says (pricing.py): for
\* rows of any rates and markup, with or without a long-context tier and cache and image
\* rates of their own, and any numbers of tokens, reported on either wire.
THEOREM UnitsAtCost ==
    ASSUME NEW row \in RowSet, Generated(row), row # NoRow, NEW n \in CountSet,
           NEW included \in BOOLEAN, Suits(row, n)
    PROVE  ComputeUnits(row, Reported(n, included), included) = AtCost(row, n)
<1> DEFINE rep == Reported(n, included)
           s == Subsets(n)
           w == IF row.unit = "per_1k_tokens" THEN Million \div Thousand ELSE 1
           long == Long(row, n)
           a == InRate(row, long)
           b == OutRate(row, long)
           rd == ReadRate(row, long)
           im == ImageRate(row)
           W == Weight(row.unit)
<1>1. /\ n.input \in Nat /\ n.output \in Nat /\ n.cached \in Nat /\ n.write5m \in Nat
      /\ n.write1h \in Nat /\ n.image \in Nat /\ s \in Nat /\ long \in BOOLEAN
  BY CountTyped DEF Subsets, Long, LongTierApplies
<1>2. /\ a \in Nat /\ b \in Nat /\ rd \in Nat /\ im \in Nat /\ W \in Nat
      /\ row.input \in Nat /\ row.output \in Nat
  BY RatesTyped, RowTyped, WeightTyped
<1>3. /\ rep.output = n.output /\ rep.cached = n.cached /\ rep.write5m = n.write5m
      /\ rep.write1h = n.write1h /\ rep.image = n.image
      /\ rep.input = (IF included THEN n.input + s ELSE n.input)
  BY DEF Reported, CountSet
<1>4. row.unit \in TokenUnits => w = W
  BY WeightTyped DEF TokenUnits, Million, Thousand
<1>5. w \in Nat
  BY DEF Million, Thousand
<1> HIDE DEF rep, s, w, a, b, rd, im, W, long
<1>6. rep.cached + rep.write5m + rep.write1h = s
  BY <1>3 DEF s, Subsets
<1>7. (IF included THEN rep.input ELSE rep.input + s) = n.input + s
  BY <1>1, <1>3
<1>8. LongTierApplies(row, n.input + s) = long
  <2>1. n.input + s = n.input + n.cached + n.write5m + n.write1h
    BY <1>1 DEF s, Subsets
  <2>2. QED
    BY <2>1 DEF long, Long
<1>9. AtCost(row, n) = ((n.input * a + n.output * b) * 20 + n.cached * rd
                          + a * (n.write5m * 25 + n.write1h * 40)) * W + n.image * im * W * 20
  <2>1. AtCost(row, n) =
          n.input * (a * 20) * W + n.output * (b * 20) * W + n.cached * rd * W
          + n.write5m * (a * 25) * W + n.write1h * (a * 40) * W + n.image * (im * 20) * W
    BY AtCostWritten DEF ListCost, Parts, Write5m, Write1h, a, b, rd, im, W, long
  <2>2. QED
    BY <1>1, <1>2, <2>1, MultipliedOut
<1>10. CASE long
  <2>1. /\ a = row.longInput /\ b = row.longOutput
        /\ n.cached * rd = n.cached * (IF row.longCache # None THEN row.longCache * Parts
                                       ELSE row.longInput * CacheReadMultiplier)
    BY <1>10 DEF a, b, rd, InRate, OutRate, OwnRate, ReadRate, CacheReadMultiplier
  <2>2. W = w
    BY <1>4, <1>10 DEF Suits, long
  <2> DEFINE reads == n.cached * (IF row.longCache # None THEN row.longCache * Parts
                                  ELSE row.longInput * CacheReadMultiplier)
             writes == row.longInput * (n.write5m * Write5m + n.write1h * Write1h)
  <2>5. ComputeUnits(row, rep, included) =
          ((n.input * row.longInput + n.output * row.longOutput) * Parts + reads + writes) * w
          + n.image * im * w * Parts
    <3> DEFINE pr == IF included THEN rep.input
                     ELSE rep.input + (rep.cached + rep.write5m + rep.write1h)
               sb == rep.cached + rep.write5m + rep.write1h
    <3>1. LongTierApplies(row, pr) /\ pr - sb = n.input
      <4>1. sb = s /\ pr = n.input + s
        <5>1. sb = s
          BY <1>6
        <5>2. pr = (IF included THEN rep.input ELSE rep.input + s)
          BY <1>6
        <5>3. QED
          BY <5>1, <5>2, <1>7
      <4> HIDE DEF pr, sb
      <4>2. pr - sb = n.input
        BY <1>1, <4>1
      <4>3. LongTierApplies(row, pr)
        BY <1>8, <1>10, <4>1, Zenon
      <4>4. QED
        BY <4>2, <4>3
    <3>2. ComputeUnits(row, rep, included) =
            (((pr - sb) * row.longInput + rep.output * row.longOutput) * Parts
               + rep.cached * (IF row.longCache # None THEN row.longCache * Parts
                               ELSE row.longInput * CacheReadMultiplier)
               + row.longInput * (rep.write5m * Write5m + rep.write1h * Write1h)) * w
            + rep.image * (IF row.imageInput # None THEN row.imageInput ELSE row.input) * w * Parts
      BY <3>1 DEF ComputeUnits, w
    <3> HIDE DEF pr, sb
    <3>3. QED
      BY <1>3, <3>1, <3>2 DEF im, ImageRate
  <2>6. reads = n.cached * rd /\ writes = a * (n.write5m * 25 + n.write1h * 40)
    BY <2>1 DEF Write5m, Write1h
  <2> HIDE DEF reads, writes
  <2>7. ComputeUnits(row, rep, included) =
          ((n.input * a + n.output * b) * 20 + n.cached * rd
             + a * (n.write5m * 25 + n.write1h * 40)) * W + n.image * im * W * 20
    <3> DEFINE x == n.input * a + n.output * b
               v == n.image * im * W * 20
    <3>1. n.input * row.longInput + n.output * row.longOutput = x
      BY <2>1
    <3>2. n.image * im * w * Parts = v
      BY <2>2 DEF Parts
    <3> HIDE DEF x, v
    <3>3. ComputeUnits(row, rep, included) = (x * Parts + reads + writes) * w + v
      BY <2>5, <3>1, <3>2, Zenon
    <3>4. ComputeUnits(row, rep, included) = (x * 20 + reads + writes) * W + v
      BY <2>2, <3>3 DEF Parts
    <3>5. ComputeUnits(row, rep, included) =
            (x * 20 + n.cached * rd + a * (n.write5m * 25 + n.write1h * 40)) * W + v
      BY <2>6, <3>4, Zenon
    <3>6. QED
      BY <3>5 DEF x, v
  <2>8. QED
    BY <1>9, <2>7 DEF rep
<1>11. CASE ~long
  <2>1. /\ a = row.input /\ b = row.output
        /\ n.cached * rd = n.cached * (IF row.cacheRead # None THEN row.cacheRead * Parts
                                       ELSE row.input * CacheReadMultiplier)
    BY <1>11 DEF a, b, rd, InRate, OutRate, OwnRate, ReadRate, CacheReadMultiplier
  <2>2. ProviderCost(row, n.input, n.output) = ((n.input * a + n.output * b) * W) * 20
    BY <1>1, <2>1, ProviderCostPlain DEF W, Parts
  <2>3. CASE s = 0
    <3>1. rep.input = n.input /\ n.cached = 0 /\ n.write5m = 0 /\ n.write1h = 0
      BY <1>1, <1>3, <2>3 DEF s, Subsets
    <3>2. ComputeUnits(row, rep, included) =
            ProviderCost(row, n.input, n.output) + n.image * im * w * Parts
      BY <1>3, <1>6, <1>7, <1>8, <1>11, <2>3, <3>1 DEF ComputeUnits, w, im, ImageRate
    <3>3. n.image * im * w * 20 = n.image * im * W * 20
      <4>1. CASE row.unit \in TokenUnits
        BY <1>4, <4>1
      <4>2. CASE n.image = 0
        <5>1. n.image * im * w * 20 = 0 /\ n.image * im * W * 20 = 0
          BY <1>2, <1>5, <4>2
        <5>2. QED
          BY <5>1
      <4>3. QED
        BY <4>1, <4>2 DEF Suits
    <3>4. AtCost(row, n) = ((n.input * a + n.output * b) * 20) * W + n.image * im * W * 20
      <4>1. n.cached * rd = 0 /\ a * (n.write5m * 25 + n.write1h * 40) = 0
        BY <1>2, <3>1
      <4>2. (n.input * a + n.output * b) * 20 + 0 + 0 = (n.input * a + n.output * b) * 20
        BY <1>1, <1>2
      <4>3. QED
        BY <1>9, <4>1, <4>2
    <3>5. ((n.input * a + n.output * b) * W) * 20 = ((n.input * a + n.output * b) * 20) * W
      <4>1. n.input * a + n.output * b \in Int
        BY <1>1, <1>2
      <4>2. W \in Int
        BY <1>2
      <4> DEFINE p == n.input * a + n.output * b
      <4> HIDE DEF p
      <4>3. p \in Int
        BY <4>1 DEF p
      <4>4. (p * W) * 20 = (p * 20) * W
        BY <4>2, <4>3, WeightMoves
      <4>5. QED
        BY <4>4 DEF p
    <3>6. QED
      BY <2>2, <3>2, <3>3, <3>4, <3>5 DEF Parts, rep
  <2>4. CASE s # 0
    <3>1. W = w
      BY <1>4, <2>4 DEF Suits, s
    <3>2. (IF ~included THEN rep.input
           ELSE IF rep.input > s THEN rep.input - s ELSE 0) = n.input
      BY <1>1, <1>3
    <3>3. ComputeUnits(row, rep, included) =
            ProviderCost(row, n.input, n.output)
            + (n.cached * (IF row.cacheRead # None THEN row.cacheRead * Parts
                           ELSE row.input * CacheReadMultiplier)
               + row.input * (n.write5m * Write5m + n.write1h * Write1h)) * w
            + n.image * im * w * Parts
      BY <1>3, <1>6, <1>7, <1>8, <1>11, <2>4, <3>2 DEF ComputeUnits, w, im, ImageRate
    <3> DEFINE p == n.input * a + n.output * b
               z == n.cached * rd + a * (n.write5m * 25 + n.write1h * 40)
               v == n.image * im * W * 20
    <3>4. p \in Int /\ z \in Int /\ v \in Int
      BY <1>1, <1>2
    <3>5. ComputeUnits(row, rep, included) = (p * W) * 20 + z * W + v
      BY <2>1, <2>2, <3>1, <3>3 DEF Parts, Write5m, Write1h
    <3>6. AtCost(row, n) = (p * 20 + z) * W + v
      <4>1. p * 20 + n.cached * rd + a * (n.write5m * 25 + n.write1h * 40) = p * 20 + z
        BY <1>1, <1>2
      <4>2. QED
        BY <1>9, <4>1
    <3> HIDE DEF p, z, v
    <3>7. (p * W) * 20 + z * W + v = (p * 20 + z) * W + v
      <4>1. W \in Int
        BY <1>2
      <4>2. p \in Int /\ z \in Int /\ v \in Int
        BY <3>4
      <4>3. QED
        BY <4>1, <4>2, WeightMoves
    <3>8. QED
      BY <3>5, <3>6, <3>7 DEF rep
  <2>5. QED
    BY <2>3, <2>4
<1>12. QED
  BY <1>1, <1>10, <1>11 DEF rep

\* The bill and the quote of what is counted.
LEMMA BillRight ==
    ASSUME NEW row \in RowSet, Generated(row), NEW n \in CountSet, NEW included \in BOOLEAN,
           row = NoRow \/ Suits(row, n),
           NEW d, d = ComputeUnits(row, Reported(n, included), included)
    PROVE  /\ row # NoRow => d = AtCost(row, n)
           /\ n.cached + n.write5m + n.write1h + n.image = 0 /\ ~LongTierApplies(row, n.input) =>
                CostBreakdown(row, n) = d
<1>1. row # NoRow => d = AtCost(row, n)
  BY UnitsAtCost
<1>2. ASSUME n.cached + n.write5m + n.write1h + n.image = 0, ~LongTierApplies(row, n.input)
      PROVE  CostBreakdown(row, n) = d
  <2>1. /\ n.input \in Nat /\ n.output \in Nat
        /\ n.cached = 0 /\ n.write5m = 0 /\ n.write1h = 0 /\ n.image = 0
    BY <1>2, CountTyped
  <2> DEFINE rep == Reported(n, included)
  <2>2. /\ rep.input = n.input /\ rep.output = n.output /\ rep.cached = 0 /\ rep.write5m = 0
        /\ rep.write1h = 0 /\ rep.image = 0
    BY <2>1 DEF Reported, Subsets, CountSet
  <2> HIDE DEF rep
  <2>3. d = ComputeUnits(row, rep, included)
    BY DEF rep
  <2>4. CASE row = NoRow
    BY <2>2, <2>3, <2>4 DEF ComputeUnits, CostBreakdown
  <2>5. CASE row # NoRow
    <3> DEFINE image == rep.image * (IF row.imageInput # None THEN row.imageInput ELSE row.input)
                          * (IF row.unit = "per_1k_tokens" THEN Million \div Thousand ELSE 1) * Parts
    <3>1. /\ (IF included THEN rep.input ELSE rep.input + (rep.cached + rep.write5m + rep.write1h)) = n.input
          /\ rep.cached + rep.write5m + rep.write1h = 0
      BY <2>1, <2>2
    <3>2. d = ProviderCost(row, n.input, n.output) + image
      BY <1>2, <2>2, <2>3, <2>5, <3>1 DEF ComputeUnits
    <3>3. image = 0
      <4> DEFINE rate == IF row.imageInput # None THEN row.imageInput ELSE row.input
                 w == IF row.unit = "per_1k_tokens" THEN Million \div Thousand ELSE 1
      <4>1. rate \in Int /\ w \in Int
        BY RowTyped DEF Million, Thousand
      <4> HIDE DEF rate, w
      <4>2. 0 * rate * w * 20 = 0
        BY <4>1
      <4>3. rep.image * rate * w * Parts = 0
        BY <2>2, <4>2, Zenon DEF Parts
      <4>4. QED
        BY <4>3, Zenon DEF rate, w
    <3>4. ProviderCost(row, n.input, n.output) \in Int
      <4>1. /\ row.input \in Nat /\ row.output \in Nat /\ Weight(row.unit) \in Nat
        BY RowTyped, WeightTyped
      <4>2. n.input * row.input \in Nat /\ n.output * row.output \in Nat
        BY <2>1, <4>1
      <4>3. (n.input * row.input + n.output * row.output) * Weight(row.unit) \in Nat
        BY <4>1, <4>2
      <4>4. QED
        BY <2>1, <4>3, ProviderCostPlain DEF Parts
    <3> HIDE DEF image
    <3>5. QED
      BY <2>5, <3>2, <3>3, <3>4 DEF CostBreakdown
  <2>6. QED
    BY <2>4, <2>5
<1>3. QED
  BY <1>1, <1>2

\* What is asked can be priced.
Priced(q) ==
    /\ q.row \in RowSet /\ Generated(q.row) /\ q.counts \in CountSet /\ q.n \in Nat
    /\ q.op = "chat" => q.row = NoRow \/ q.row.unit \in TokenUnits
    /\ q.op # "chat" => q.row.threshold = None

BillInv ==
    /\ DOMAIN bill = Requests
    /\ \A r \in Requests : Priced(request[r])
    /\ BilledAtCost

\* A bill that is written is right.
LEMMA BillWritten ==
    ASSUME BillInv, request' = request, NEW r \in Requests, NEW n \in CountSet,
           NEW included \in BOOLEAN, request[r].row = NoRow \/ Suits(request[r].row, n),
           NEW row \in RowRead(r),
           bill' = [bill EXCEPT ![r] = [dollars |-> ComputeUnits(row, Reported(n, included), included),
                                        counts |-> n]]
    PROVE  BillInv'
<1>1. request[r].row \in RowSet /\ Generated(request[r].row) /\ row = request[r].row
  BY RowComesBack DEF BillInv, Priced, RowRead
<1> DEFINE d == ComputeUnits(row, Reported(n, included), included)
           b == [dollars |-> d, counts |-> n]
<1>2. /\ row # NoRow => d = AtCost(row, n)
      /\ n.cached + n.write5m + n.write1h + n.image = 0 /\ ~LongTierApplies(row, n.input) =>
           CostBreakdown(row, n) = d
  BY <1>1, BillRight
<1>3. b.dollars = d /\ b.counts = n
  OBVIOUS
<1> HIDE DEF d, b
<1>4. bill' = [bill EXCEPT ![r] = b]
  BY DEF b, d
<1>5. bill'[r] = b /\ DOMAIN bill' = Requests
      /\ \A s \in Requests : s # r => bill'[s] = bill[s]
  BY <1>4 DEF BillInv
<1>6. BilledAtCost'
  <2>1. SUFFICES ASSUME NEW s \in Requests
                 PROVE  LET m == bill'[s].counts
                            rw == request[s].row
                        IN  bill'[s].dollars # None =>
                              /\ rw # NoRow => bill'[s].dollars = AtCost(rw, m)
                              /\ m.cached + m.write5m + m.write1h + m.image = 0
                                 /\ ~LongTierApplies(rw, m.input) =>
                                   CostBreakdown(rw, m) = bill'[s].dollars
    BY DEF BilledAtCost
  <2>2. CASE s = r
    BY <1>1, <1>2, <1>3, <1>5, <2>2
  <2>3. CASE s # r
    BY <1>5, <2>3 DEF BillInv, BilledAtCost
  <2>4. QED
    BY <2>2, <2>3
<1>7. QED
  BY <1>5, <1>6 DEF BillInv

\* Rows as they are made.
LEMMA MadeRow ==
    ASSUME NEW unit \in {"none", "per_image", "per_minute"} \cup TokenUnits, NEW i \in Nat, NEW o \in Nat,
           NEW m \in Nat \ {0}
    PROVE  LET row == NewRow(unit, i, o, m) IN
           /\ row \in RowSet /\ Generated(row) /\ row.threshold = None /\ row.unit = unit
<1>1. i * m \in Nat /\ o * m \in Nat
  OBVIOUS
<1>2. QED
  BY <1>1 DEF NewRow, RowSet, Optional, Generated

\* Nothing counted.
LEMMA CountsTyped == Counts \in CountSet /\ Subsets(Counts) = 0 /\ Counts.image = 0
BY DEF Counts, CountSet, Subsets

\* The three rows that are not a chat's.
LEMMA MediaRows ==
    /\ PerImage \in RowSet /\ Generated(PerImage) /\ PerImage.threshold = None
    /\ PerToken \in RowSet /\ Generated(PerToken) /\ PerToken.threshold = None
    /\ LET row == NewRow("per_1m_tokens", 1, 0, 1) IN
       row \in RowSet /\ Generated(row) /\ row.threshold = None
<1>1. PerImage \in RowSet /\ Generated(PerImage) /\ PerImage.threshold = None
  BY MadeRow DEF PerImage
<1>2. PerToken \in RowSet /\ Generated(PerToken) /\ PerToken.threshold = None
  <2> DEFINE row == NewRow("per_1m_tokens", 5, 40, 1)
  <2>1. row \in RowSet /\ Generated(row) /\ row.threshold = None
    BY MadeRow DEF TokenUnits
  <2> HIDE DEF row
  <2>2. PerToken = [row EXCEPT !.imageInput = 8]
    BY DEF PerToken, row
  <2>3. QED
    BY <2>1, <2>2 DEF RowSet, Optional, Generated
<1>3. LET row == NewRow("per_1m_tokens", 1, 0, 1) IN
      row \in RowSet /\ Generated(row) /\ row.threshold = None
  BY MadeRow DEF TokenUnits
<1>4. QED
  BY <1>1, <1>2, <1>3

\* A request for anything but a chat, from its parts.
LEMMA PricedParts ==
    ASSUME NEW q, q.counts = Counts, q.op # "chat", q.n \in Nat, q.row \in RowSet, Generated(q.row),
           q.row.threshold = None
    PROVE  Priced(q)
BY CountsTyped DEF Priced

\* The plain request.
LEMMA AskedPriced == Priced(Asked)
<1>1. Asked.counts = Counts /\ Asked.op = "image" /\ Asked.n = 1 /\ Asked.row = PerToken
  BY DEF Asked
<1>2. QED
  BY <1>1, MediaRows, PricedParts

\* What each kind of request asks, as far as its price goes.
Asks(q) ==
    /\ q.counts = Counts /\ q.op # "chat" /\ q.n \in Nat
    /\ q.row \in {PerToken, PerImage, NewRow("per_1m_tokens", 1, 0, 1)}

\* Such a request can be priced.
LEMMA AsksPriced == \A q : Asks(q) => Priced(q)
BY MediaRows, PricedParts DEF Asks

\* An image request.
LEMMA ImagesPriced == \A q \in ImageRequests : Asks(q)
<1> DEFINE Plainly == {[Asked EXCEPT !.n = ask[1], !.refs = ask[2]] : ask \in {1, 2} \X BOOLEAN}
           Dalle == {[Asked EXCEPT !.model = "dall-e-3", !.row = PerImage, !.n = 2, !.refs = refs] :
                        refs \in BOOLEAN}
           Uses == {<<"google", Flash, 1>>, <<"google", Flash, 2>>,
                    <<"bedrock", "stability", 2>>, <<"bedrock", "nova", 1>>,
                    <<"anthropic", "claude", 1>>}
           Elsewhere == {[Asked EXCEPT !.provider = use[1], !.model = use[2], !.row = PerImage,
                                       !.n = use[3]] : use \in Uses}
<1>1. ASSUME NEW q \in Plainly PROVE Asks(q)
  <2>1. PICK ask \in {1, 2} \X BOOLEAN : q = [Asked EXCEPT !.n = ask[1], !.refs = ask[2]]
    OBVIOUS
  <2>2. q.counts = Counts /\ q.op = "image" /\ q.n = ask[1] /\ q.row = PerToken
    BY <2>1 DEF Asked
  <2> HIDE DEF Plainly
  <2>3. QED
    BY <2>2 DEF Asks
<1>2. ASSUME NEW q \in Dalle PROVE Asks(q)
  <2>1. q.counts = Counts /\ q.op = "image" /\ q.n = 2 /\ q.row = PerImage
    BY DEF Asked
  <2> HIDE DEF Dalle
  <2>2. QED
    BY <2>1 DEF Asks
<1>3. ASSUME NEW q \in Elsewhere PROVE Asks(q)
  <2> HIDE DEF Uses
  <2>1. PICK use \in Uses :
          q = [Asked EXCEPT !.provider = use[1], !.model = use[2], !.row = PerImage, !.n = use[3]]
    OBVIOUS
  <2>2. q.counts = Counts /\ q.op = "image" /\ q.n = use[3] /\ q.row = PerImage
    BY <2>1 DEF Asked
  <2>3. use[3] \in {1, 2}
    BY DEF Uses
  <2> HIDE DEF Elsewhere
  <2>4. QED
    BY <2>2, <2>3 DEF Asks
<1> HIDE DEF Plainly, Dalle, Elsewhere
<1>4. ImageRequests = Plainly \cup Dalle \cup Elsewhere
  BY Zenon DEF ImageRequests, Plainly, Dalle, Elsewhere
<1>5. QED
  BY <1>1, <1>2, <1>3, <1>4

\* Speech, a transcription or an embedding.
LEMMA OthersPriced == \A q \in OtherRequests : Asks(q)
<1> DEFINE row == NewRow("per_1m_tokens", 1, 0, 1)
           Ops == {"speech", "transcription", "embedding"}
           Uses == {<<"openai", "m">>, <<"google", "m">>, <<"bedrock", "amazon.titan-embed">>,
                    <<"bedrock", "m">>}
           Served == {[Asked EXCEPT !.op = ask[1], !.provider = ask[2][1], !.model = ask[2][2],
                                    !.row = row] : ask \in Ops \X Uses}
           Lost == {[Asked EXCEPT !.op = "speech", !.known = k] : k \in {"missing", "unavailable"}}
<1>1. ASSUME NEW q \in Served PROVE Asks(q)
  <2> HIDE DEF Uses, Ops, row
  <2>1. PICK ask \in Ops \X Uses :
          q = [Asked EXCEPT !.op = ask[1], !.provider = ask[2][1], !.model = ask[2][2], !.row = row]
    OBVIOUS
  <2>2. q.counts = Counts /\ q.op = ask[1] /\ q.n = 1 /\ q.row = row
    BY <2>1 DEF Asked
  <2>3. ask[1] # "chat"
    BY DEF Ops
  <2> HIDE DEF Served
  <2>4. QED
    BY <2>2, <2>3 DEF Asks, row
<1>2. ASSUME NEW q \in Lost PROVE Asks(q)
  <2>1. q.counts = Counts /\ q.op = "speech" /\ q.n = 1 /\ q.row = PerToken
    BY DEF Asked
  <2> HIDE DEF Lost
  <2>2. QED
    BY <2>1 DEF Asks
<1> HIDE DEF Served, Lost
<1>3. OtherRequests = Served \cup Lost
  BY Zenon DEF OtherRequests, Served, Lost
<1>4. QED
  BY <1>1, <1>2, <1>3

\* A request for a size.
LEMMA SizedPriced == \A q \in SizeRequests : Asks(q)
<1> DEFINE Uses ==
             {<<"openai", "gpt-image-2", "max">>, <<"openai", "gpt-image-1", "hd">>,
              <<"openai", "dall-e-3", "hd">>, <<"bedrock", "stability", "standard">>}
             \cup {"google"} \X {"gemini-3-pro-image", Flash, Lite} \X {"standard", "hd"}
<1>1. ASSUME NEW q \in SizeRequests PROVE Asks(q)
  <2>1. q \in {[Asked EXCEPT !.provider = ask[1][1], !.model = ask[1][2], !.quality = ask[1][3],
                             !.size = ask[2]] : ask \in Uses \X Sizes}
    BY Zenon DEF SizeRequests
  <2> HIDE DEF Uses
  <2>2. PICK ask \in Uses \X Sizes :
          q = [Asked EXCEPT !.provider = ask[1][1], !.model = ask[1][2], !.quality = ask[1][3],
                            !.size = ask[2]]
    BY <2>1
  <2>3. q.counts = Counts /\ q.op = "image" /\ q.n = 1 /\ q.row = PerToken
    BY <2>2 DEF Asked
  <2>4. QED
    BY <2>3 DEF Asks
<1>2. QED
  BY <1>1

\* The rows of a chat model.
LEMMA ChatRowsTyped ==
    \A row \in ChatRows : row \in RowSet /\ Generated(row) /\ row.unit \in TokenUnits
<1>1. SUFFICES ASSUME NEW row \in ChatRows
               PROVE  row \in RowSet /\ Generated(row) /\ row.unit \in TokenUnits
  OBVIOUS
<1>2. PICK unit \in TokenUnits, markup \in {1, 3}, own \in Optional, threshold \in Optional :
        row = ChatRow(unit, markup, own, threshold)
  BY DEF ChatRows, TokenUnits, Optional, None
<1> DEFINE base == NewRow(unit, 2, 3, markup)
           li == IF threshold = None THEN None ELSE 4
           lo == IF threshold = None THEN None ELSE 6
           lc == IF threshold = None THEN None ELSE own
<1>3. base \in RowSet /\ Generated(base) /\ base.unit = unit
  <2>1. markup \in Nat \ {0} /\ unit \in {"none", "per_image", "per_minute"} \cup TokenUnits
    OBVIOUS
  <2>2. QED
    BY <2>1, MadeRow
<1>4. li \in Optional /\ lo \in Optional /\ lc \in Optional
  BY DEF Optional
<1>5. row = [base EXCEPT !.cacheRead = own, !.threshold = threshold, !.longInput = li,
                         !.longOutput = lo, !.longCache = lc]
  BY <1>2 DEF ChatRow
<1> HIDE DEF base, li, lo, lc
<1>6. QED
  BY <1>3, <1>4, <1>5 DEF RowSet, Generated

\* A chat request.
LEMMA ChatsPriced == \A q \in PriceRequests : Priced(q)
<1>1. ASSUME NEW q \in PriceRequests PROVE Priced(q)
  <2>1. q.op = "chat" /\ q.n = 1 /\ q.row \in ChatRows \cup {NoRow} /\ q.counts \in ChatCounts
    BY <1>1 DEF PriceRequests, Asked
  <2>2. q.counts \in CountSet
    BY <2>1 DEF ChatCounts, CountSet
  <2>3. NoRow \in RowSet /\ Generated(NoRow)
    BY MadeRow DEF NoRow
  <2>4. QED
    BY <2>1, <2>2, <2>3, ChatRowsTyped DEF Priced
<1>2. QED
  BY <1>1

\* Every request that is made can be priced, and nothing is billed yet.
LEMMA BillInit == MediaInit => BillInv
<1>1. ASSUME MediaInit PROVE BillInv
  <2>1. \A r \in Requests : Priced(request[r])
    <3>1. \/ \E q : Priced(q) /\ request = Only(q)
          \/ request = [r \in Requests |-> [Asked EXCEPT !.known = "missing"]]
      BY <1>1, ImagesPriced, OthersPriced, SizedPriced, AsksPriced, ChatsPriced DEF MediaInit
    <3>2. Priced([Asked EXCEPT !.known = "missing"])
      <4> DEFINE q == [Asked EXCEPT !.known = "missing"]
      <4>1. q.counts = Counts /\ q.op = "image" /\ q.n = 1 /\ q.row = PerToken
        BY DEF Asked
      <4> HIDE DEF q
      <4>2. Priced(q)
        BY <4>1, MediaRows, PricedParts
      <4>3. QED
        BY <4>2 DEF q
    <3>3. QED
      BY <3>1, <3>2, AskedPriced DEF Only
  <2>2. DOMAIN bill = Requests /\ \A r \in Requests : bill[r].dollars = None
    BY <1>1 DEF MediaInit, NoBill
  <2>3. QED
    BY <2>1, <2>2 DEF BillInv, BilledAtCost
<1>2. QED
  BY <1>1

\* A step that bills nobody.
LEMMA BillsKept ==
    ASSUME BillInv, request' = request, bill' = bill
    PROVE  BillInv'
<1>1. BilledAtCost'
  BY DEF BillInv, BilledAtCost
<1>2. QED
  BY <1>1 DEF BillInv

\* Anything but a chat is billed by counts that its row's units take in.
LEMMA ChargedStep ==
    ASSUME BillInv, NEW r \in Requests, ~Is(r, "chat"), NEW n \in CountSet, Subsets(n) = 0,
           n.image = 0 \/ request[r].row.unit \in TokenUnits, NEW next, Charged(r, n, next)
    PROVE  BillInv'
<1>1. /\ request' = request
      /\ \/ \E row \in RowRead(r) :
              bill' = [bill EXCEPT ![r] = [dollars |-> ComputeUnits(row, n, TRUE), counts |-> n]]
         \/ bill' = bill
  BY DEF Charged
<1>2. Reported(n, TRUE) = n
  <2>1. n.input + 0 = n.input
    BY CountTyped
  <2>2. [n EXCEPT !.input = n.input] = n
    BY DEF CountSet
  <2>3. QED
    BY <2>1, <2>2 DEF Reported
<1>3. Suits(request[r].row, n)
  BY DEF BillInv, Priced, Suits, Is, Long, LongTierApplies
<1>4. CASE bill' = bill
  BY <1>1, <1>4, BillsKept
<1>5. CASE \E row \in RowRead(r) :
             bill' = [bill EXCEPT ![r] = [dollars |-> ComputeUnits(row, n, TRUE), counts |-> n]]
  <2>1. PICK row \in RowRead(r) :
          bill' = [bill EXCEPT ![r] = [dollars |-> ComputeUnits(row, n, TRUE), counts |-> n]]
    BY <1>5
  <2>2. TRUE \in BOOLEAN
    OBVIOUS
  <2>3. bill' = [bill EXCEPT ![r] = [dollars |-> ComputeUnits(row, Reported(n, TRUE), TRUE), counts |-> n]]
    BY <1>2, <2>1
  <2>4. QED
    BY <1>1, <1>3, <2>2, <2>3, BillWritten
<1>6. QED
  BY <1>1, <1>4, <1>5

\* A chat is billed by what its provider reported, on either wire.
LEMMA PriceTokensStep ==
    ASSUME BillInv, NEW r \in Requests, PriceTokens(r)
    PROVE  BillInv'
<1> DEFINE n == request[r].counts
<1>1. request' = request /\ Is(r, "chat") /\ n \in CountSet
  BY DEF PriceTokens, serving, BillInv, Priced
<1>2. PICK included \in BOOLEAN, row \in RowRead(r) :
        LET told == IF included
                          THEN [n EXCEPT !.input = @ + n.cached + n.write5m + n.write1h]
                          ELSE n
        IN  bill' = [bill EXCEPT ![r] = [dollars |-> ComputeUnits(row, told, included),
                                         counts |-> n]]
  BY Zenon DEF PriceTokens
<1>3. request[r].row = NoRow \/ Suits(request[r].row, n)
  BY <1>1 DEF BillInv, Priced, Suits, Is
<1> HIDE DEF n
<1>4. (IF included THEN [n EXCEPT !.input = @ + n.cached + n.write5m + n.write1h] ELSE n)
        = Reported(n, included)
  <2>1. n.input + n.cached + n.write5m + n.write1h = n.input + Subsets(n)
    BY <1>1, CountTyped DEF Subsets
  <2>2. QED
    BY <2>1 DEF Reported
<1>5. bill' = [bill EXCEPT ![r] = [dollars |-> ComputeUnits(row, Reported(n, included), included),
                                   counts |-> n]]
  BY <1>2, <1>4
<1>6. QED
  BY <1>1, <1>3, <1>5, BillWritten

\* Every step bills right.
LEMMA BillStep ==
    BillInv /\ [Next]_vars => BillInv'
<1> SUFFICES ASSUME BillInv, [Next]_vars PROVE BillInv'
  OBVIOUS
<1> USE DEF serving, mediaVars
<1>1. ASSUME NEW r \in Requests, NEW op, Posted(r, op) PROVE BillInv'
  BY <1>1, BillsKept DEF Posted
<1>2. ASSUME NEW r \in Requests,
             \/ Admit(r) \/ CallProvider(r) \/ DeliverImages(r) \/ DeliverSpeech(r) \/ RecordFailure(r)
      PROVE  BillInv'
  BY <1>2, BillsKept DEF Admit, CallProvider, DeliverImages, DeliverSpeech, RecordFailure
<1>3. ASSUME NEW r \in Requests,
             ChargeImage(r) \/ ChargeSpeech(r) \/ ChargeTranscription(r) \/ ChargeEmbedding(r)
      PROVE  BillInv'
  <2>1. ~Is(r, "chat")
    BY <1>3 DEF ChargeImage, ChargeSpeech, ChargeTranscription, ChargeEmbedding, Is
  <2>2. ASSUME NEW k \in Nat
        PROVE  LET n == [Counts EXCEPT !.input = k] IN n \in CountSet /\ Subsets(n) = 0 /\ n.image = 0
    BY DEF Counts, CountSet, Subsets
  <2>3. ASSUME NEW k \in Nat, NEW next, Charged(r, [Counts EXCEPT !.input = k], next)
        PROVE  BillInv'
    <3> DEFINE n == [Counts EXCEPT !.input = k]
    <3>1. n \in CountSet /\ Subsets(n) = 0 /\ n.image = 0 /\ Charged(r, n, next)
      BY <2>2, <2>3
    <3> HIDE DEF n
    <3>2. QED
      BY <2>1, <3>1, ChargedStep
  <2>4. CASE ChargeImage(r)
    <3>1. Charged(r, ImageCounts(r), "upload")
      BY <2>4 DEF ChargeImage
    <3>2. CASE request[r].row.unit \in TokenUnits /\ call[r].usage
      <4> DEFINE i == IF request[r].refs THEN 1 ELSE 0
                 n == [Counts EXCEPT !.input = 1, !.output = 2, !.image = i]
      <4>1. ImageCounts(r) = n
        BY <3>2 DEF ImageCounts, TokenUnits
      <4>2. i \in Nat
        OBVIOUS
      <4> HIDE DEF i
      <4>3. n \in CountSet
        BY <4>2 DEF Counts, CountSet
      <4>4. n.cached = 0 /\ n.write5m = 0 /\ n.write1h = 0
        BY DEF Counts
      <4> HIDE DEF n
      <4>5. Subsets(n) = 0
        BY <4>4 DEF Subsets
      <4>6. QED
        BY <2>1, <3>1, <3>2, <4>1, <4>3, <4>5, ChargedStep
    <3>3. CASE ~(request[r].row.unit \in TokenUnits /\ call[r].usage)
      <4>1. ImageCounts(r) = [Counts EXCEPT !.input = request[r].n]
        BY <3>3 DEF ImageCounts, TokenUnits
      <4>2. request[r].n \in Nat
        BY DEF BillInv, Priced
      <4>3. QED
        BY <2>3, <3>1, <4>1, <4>2
    <3>4. QED
      BY <3>2, <3>3
  <2>5. CASE ChargeSpeech(r) \/ ChargeTranscription(r) \/ ChargeEmbedding(r)
    <3>1. \E k \in {1, 2, 3}, next \in {"upload", "done"} : Charged(r, [Counts EXCEPT !.input = k], next)
      BY <2>5 DEF ChargeSpeech, ChargeTranscription, ChargeEmbedding
    <3>2. QED
      BY <2>3, <3>1
  <2>6. QED
    BY <1>3, <2>4, <2>5
<1>4. ASSUME NEW r \in Requests, BackgroundTask(r) PROVE BillInv'
  BY <1>4, BillsKept DEF BackgroundTask, WriteSuccess, Debit, MarkAndCommit, GiveUp, WriteError
<1>5. CASE Die
  BY <1>5, BillsKept DEF Die
<1>6. ASSUME NEW c \in Consumers, Consume(c) \/ ConsumerDies(c) PROVE BillInv'
  BY <1>6, BillsKept DEF Consume, Receive, Store, Delete, ConsumerDies
<1>7. CASE Reappear
  BY <1>7, BillsKept DEF Reappear
<1>8. CASE UNCHANGED mediaVars
  BY <1>8, BillsKept
<1>9. CASE MediaNext
  BY <1>1, <1>2, <1>3, <1>4, <1>5, <1>6, <1>7, <1>9, PriceTokensStep
     DEF MediaNext, PostImage, PostSpeech, PostTranscription, PostEmbedding, Generate, TextToSpeech,
         Transcribe, Embed, ImageTask, AudioTask, EmbeddingTask
<1>10. QED
  BY <1>8, <1>9 DEF Next, vars

\* Every bill is the list price of each unit once, and the quote of a request without
\* cached tokens is its bill (pricing.py): in every state, from the table or from Redis,
\* by UnitsAtCost for whatever was counted.
THEOREM BilledAtListRates == Spec => []BilledAtCost
<1>1. Init => BillInv
  BY BillInit DEF Init
<1>2. BillInv => BilledAtCost
  BY DEF BillInv
<1>3. QED
  BY <1>1, <1>2, BillStep, PTL DEF Spec

-----------------------------------------------------------------------------
(* The sizes of pictures.                                                  *)

\* A number divided: what div and mod are to each other.
LEMMA Divided ==
    ASSUME NEW a \in Nat, NEW b \in Nat \ {0}
    PROVE  /\ a \div b \in Nat /\ a % b \in Nat /\ a % b < b
           /\ a = (a \div b) * b + (a % b)
<1>1. b \in Nat /\ b > 0
  OBVIOUS
<1>2. QED
  BY <1>1

\* round() rounds to a natural number and keeps the order.
LEMMA RoundKeepsOrder ==
    ASSUME NEW a \in Nat, NEW m \in Nat, NEW b \in Nat \ {0}, a <= m
    PROVE  Round(a, b) \in Nat /\ Round(a, b) <= Round(m, b)
<1> DEFINE q == a \div b
           r == a % b
           p == m \div b
           s == m % b
<1>1. /\ q \in Nat /\ r \in Nat /\ r < b /\ a = q * b + r
      /\ p \in Nat /\ s \in Nat /\ s < b /\ m = p * b + s
  BY Divided
<1>2. /\ Round(a, b) = (IF 2 * r > b \/ (2 * r = b /\ q % 2 = 1) THEN q + 1 ELSE q)
      /\ Round(m, b) = (IF 2 * s > b \/ (2 * s = b /\ p % 2 = 1) THEN p + 1 ELSE p)
  BY DEF Round
<1> HIDE DEF q, r, p, s
<1>3. q <= p
  <2>1. SUFFICES ASSUME q >= p + 1 PROVE FALSE
    BY <1>1
  <2>2. q * b >= (p + 1) * b
    BY <1>1, <2>1
  <2>3. (p + 1) * b = p * b + b
    BY <1>1
  <2>4. QED
    BY <1>1, <2>2, <2>3
<1>4. CASE q = p
  <2>1. r <= s
    BY <1>1, <1>4
  <2>2. QED
    BY <1>1, <1>2, <1>4, <2>1
<1>5. CASE q < p
  BY <1>1, <1>2, <1>5
<1>6. QED
  BY <1>1, <1>3, <1>4, <1>5

\* What needs no rounding is not rounded.
LEMMA RoundExact ==
    ASSUME NEW k \in Nat, NEW b \in Nat \ {0}
    PROVE  Round(k * b, b) = k
<1>1. k * b \in Nat
  OBVIOUS
<1> DEFINE q == (k * b) \div b
           r == (k * b) % b
<1>2. q \in Nat /\ r \in Nat /\ r < b /\ k * b = q * b + r
  BY <1>1, Divided
<1>3. Round(k * b, b) = (IF 2 * r > b \/ (2 * r = b /\ q % 2 = 1) THEN q + 1 ELSE q)
  BY DEF Round
<1> HIDE DEF q, r
<1>4. k = q
  <2>1. CASE k <= q - 1
    <3>1. k * b <= (q - 1) * b /\ (q - 1) * b = q * b - b
      BY <1>2, <2>1
    <3>2. QED
      BY <1>1, <1>2, <3>1
  <2>2. CASE k >= q + 1
    <3>1. k * b >= (q + 1) * b /\ (q + 1) * b = q * b + b
      BY <1>2, <2>2
    <3>2. QED
      BY <1>1, <1>2, <3>1
  <2>3. QED
    BY <1>2, <2>1, <2>2
<1>5. r = 0
  BY <1>1, <1>2, <1>4
<1>6. QED
  BY <1>3, <1>4, <1>5

\* An edge is snapped to a multiple of 16, in order, and left alone when it is one.
LEMMA EdgeAligned ==
    ASSUME NEW n \in Nat
    PROVE  /\ AlignEdge(n) \in Nat /\ AlignEdge(n) % Align = 0 /\ Align <= AlignEdge(n)
           /\ n <= MaxEdge => AlignEdge(n) <= MaxEdge
           /\ \A m \in Nat : n <= m => AlignEdge(n) <= AlignEdge(m)
           /\ n % Align = 0 /\ Align <= n => AlignEdge(n) = n
<1> USE DEF Align, MaxEdge
<1>1. Round(n, 16) \in Nat /\ \A m \in Nat : n <= m => Round(m, 16) \in Nat /\ Round(n, 16) <= Round(m, 16)
  BY RoundKeepsOrder
<1>2. Round(3840, 16) = 240
  <2>1. 3840 = 240 * 16
    OBVIOUS
  <2>2. Round(240 * 16, 16) = 240
    BY RoundExact
  <2>3. QED
    BY <2>1, <2>2
<1>3. AlignEdge(n) = (IF 16 > Round(n, 16) * 16 THEN 16 ELSE Round(n, 16) * 16)
  BY DEF AlignEdge, Larger
<1>4. AlignEdge(n) \in Nat /\ AlignEdge(n) % Align = 0 /\ Align <= AlignEdge(n)
  BY <1>1, <1>3
<1>5. n <= MaxEdge => AlignEdge(n) <= MaxEdge
  BY <1>1, <1>2, <1>3
<1>6. \A m \in Nat : n <= m => AlignEdge(n) <= AlignEdge(m)
  BY <1>1, <1>3 DEF AlignEdge, Larger
<1>7. n % Align = 0 /\ Align <= n => AlignEdge(n) = n
  <2>1. SUFFICES ASSUME n % 16 = 0, 16 <= n PROVE AlignEdge(n) = n
    OBVIOUS
  <2>2. n = (n \div 16) * 16 /\ n \div 16 \in Nat
    BY <2>1
  <2>3. Round((n \div 16) * 16, 16) = n \div 16
    BY <2>2, RoundExact
  <2>4. QED
    BY <1>3, <2>1, <2>2, <2>3
<1>8. QED
  BY <1>4, <1>5, <1>6, <1>7

\* Scaled down as a whole, in order, until the longest edge fits.
LEMMA EdgeScaled ==
    ASSUME NEW n \in Nat, NEW m \in Nat, NEW longest \in Nat, n <= m, m <= longest, longest > MaxEdge
    PROVE  /\ Round(n * MaxEdge, longest) \in Nat /\ Round(m * MaxEdge, longest) \in Nat
           /\ Round(n * MaxEdge, longest) <= Round(m * MaxEdge, longest)
           /\ Round(m * MaxEdge, longest) <= MaxEdge
<1> USE DEF MaxEdge
<1>1. /\ n * 3840 \in Nat /\ m * 3840 \in Nat /\ 3840 * longest \in Nat /\ longest \in Nat \ {0}
      /\ n * 3840 <= m * 3840 /\ m * 3840 <= 3840 * longest
  OBVIOUS
<1>2. Round(3840 * longest, longest) = 3840
  BY <1>1, RoundExact
<1>3. /\ Round(n * 3840, longest) \in Nat /\ Round(m * 3840, longest) \in Nat
      /\ Round(n * 3840, longest) <= Round(m * 3840, longest)
  BY <1>1, RoundKeepsOrder
<1>4. Round(m * 3840, longest) <= Round(3840 * longest, longest)
  BY <1>1, RoundKeepsOrder
<1>5. QED
  BY <1>2, <1>3, <1>4

\* Pixels that are fit are legal, are not turned, and are left alone if they were legal.
LEMMA PixelsFit ==
    ASSUME NEW w \in Nat, NEW h \in Nat
    PROVE  /\ FitPixels(w, h)[1] \in Nat /\ FitPixels(w, h)[2] \in Nat
           /\ FitPixels(w, h) = <<FitPixels(w, h)[1], FitPixels(w, h)[2]>>
           /\ Legal(FitPixels(w, h))
           /\ ~Turned(Side(w, h), Side(FitPixels(w, h)[1], FitPixels(w, h)[2]))
           /\ Legal(<<w, h>>) => FitPixels(w, h) = <<w, h>>
<1> DEFINE longest == Larger(w, h)
           scaled(n) == IF longest > MaxEdge THEN Round(n * MaxEdge, longest) ELSE n
           x == AlignEdge(scaled(w))
           y == AlignEdge(scaled(h))
<1>1. FitPixels(w, h) = <<x, y>>
  BY DEF FitPixels
<1>2. longest \in Nat /\ w <= longest /\ h <= longest
  BY DEF Larger
<1>3. \A n, m \in Nat : n <= m /\ m <= longest =>
        /\ scaled(n) \in Nat /\ scaled(m) \in Nat /\ scaled(n) <= scaled(m) /\ scaled(m) <= MaxEdge
  BY <1>2, EdgeScaled DEF MaxEdge
<1>4. /\ scaled(w) \in Nat /\ scaled(h) \in Nat /\ scaled(w) <= MaxEdge /\ scaled(h) <= MaxEdge
      /\ w <= h => scaled(w) <= scaled(h)
      /\ h <= w => scaled(h) <= scaled(w)
  BY <1>2, <1>3
<1>5. ASSUME w <= MaxEdge, h <= MaxEdge PROVE scaled(w) = w /\ scaled(h) = h
  BY <1>5 DEF Larger, MaxEdge
<1> HIDE DEF longest, scaled
<1>6. /\ x \in Nat /\ x % Align = 0 /\ Align <= x /\ x <= MaxEdge
      /\ y \in Nat /\ y % Align = 0 /\ Align <= y /\ y <= MaxEdge
      /\ w <= h => x <= y
      /\ h <= w => y <= x
  BY <1>4, EdgeAligned
<1>7. ASSUME Legal(<<w, h>>) PROVE x = w /\ y = h
  <2>1. w % Align = 0 /\ Align <= w /\ w <= MaxEdge /\ h % Align = 0 /\ Align <= h /\ h <= MaxEdge
    BY <1>7 DEF Legal
  <2>2. QED
    BY <1>5, <2>1, EdgeAligned
<1> HIDE DEF x, y
<1>8. Legal(<<x, y>>)
  BY <1>6 DEF Legal
<1>9. ~Turned(Side(w, h), Side(x, y))
  BY <1>6 DEF Turned, Side
<1>10. QED
  BY <1>1, <1>6, <1>7, <1>8, <1>9

\* The ratios of the table.
LEMMA AspectsKnown ==
    KnownAspects = {<<1, 1>>, <<3, 2>>, <<2, 3>>, <<16, 9>>, <<9, 16>>, <<4, 3>>, <<3, 4>>,
                    <<5, 4>>, <<4, 5>>, <<21, 9>>}
BY DEF KnownAspects, FlexibleSizes, Square

\* Of ten numbers, one is the first of the least.
LEMMA FirstLeast ==
    ASSUME NEW s, \A i \in 1 .. 10 : s[i] \in Int
    PROVE  \E i \in 1 .. 10 : \A j \in 1 .. 10 : s[i] <= s[j] /\ (j < i => s[i] < s[j])
<1> DEFINE B(k) == \E i \in 1 .. k : \A j \in 1 .. k : s[i] <= s[j] /\ (j < i => s[i] < s[j])
<1>1. B(1)
  OBVIOUS
<1>2. ASSUME NEW k \in 1 .. 9, B(k) PROVE B(k + 1)
  <2>1. PICK i \in 1 .. k : \A j \in 1 .. k : s[i] <= s[j] /\ (j < i => s[i] < s[j])
    BY <1>2
  <2>2. CASE s[k + 1] < s[i]
    <3>1. \A j \in 1 .. k + 1 : s[k + 1] <= s[j] /\ (j < k + 1 => s[k + 1] < s[j])
      BY <2>1, <2>2
    <3>2. QED
      BY <3>1
  <2>3. CASE ~(s[k + 1] < s[i])
    <3>1. \A j \in 1 .. k + 1 : s[i] <= s[j] /\ (j < i => s[i] < s[j])
      BY <2>1, <2>3
    <3>2. QED
      BY <3>1
  <2>4. QED
    BY <2>2, <2>3
<1> HIDE DEF B
<1>3. B(2) /\ B(3) /\ B(4)
  <2>1. B(1 + 1)
    BY <1>1, <1>2
  <2>2. B(2 + 1)
    BY <2>1, <1>2
  <2>3. B(3 + 1)
    BY <2>2, <1>2
  <2>4. QED
    BY <2>1, <2>2, <2>3
<1>4. B(5) /\ B(6) /\ B(7)
  <2>1. B(4 + 1)
    BY <1>3, <1>2
  <2>2. B(5 + 1)
    BY <2>1, <1>2
  <2>3. B(6 + 1)
    BY <2>2, <1>2
  <2>4. QED
    BY <2>1, <2>2, <2>3
<1>5. B(8) /\ B(9) /\ B(10)
  <2>1. B(7 + 1)
    BY <1>4, <1>2
  <2>2. B(8 + 1)
    BY <2>1, <1>2
  <2>3. B(9 + 1)
    BY <2>2, <1>2
  <2>4. QED
    BY <2>1, <2>2, <2>3
<1>6. QED
  BY <1>5 DEF B

\* Fractions with the denominators of the table compare as their multiples of 1 / 720.
LEMMA SameDenominator ==
    ASSUME NEW x \in Nat, NEW y \in Nat,
           NEW b \in {1, 2, 3, 4, 5, 9, 16}, NEW d \in {1, 2, 3, 4, 5, 9, 16}
    PROVE  x * d < y * b <=> x * (720 \div b) < y * (720 \div d)
<1>1. \A z \in {1, 2, 3, 4, 5, 9, 16} : 720 = z * (720 \div z) /\ 720 \div z \in Nat /\ 720 \div z > 0
  OBVIOUS
<1>2. CASE b = 1
  BY <1>2
<1>3. CASE b = 2
  BY <1>3
<1>4. CASE b = 3
  BY <1>4
<1>5. CASE b = 4
  BY <1>5
<1>6. CASE b = 5
  BY <1>6
<1>7. CASE b = 9
  BY <1>7
<1>8. CASE b = 16
  BY <1>8
<1>9. QED
  BY <1>2, <1>3, <1>4, <1>5, <1>6, <1>7, <1>8

\* A picture that is not made taller when asked wide, nor wider when asked tall.
LEMMA NotTurned ==
    ASSUME NEW x, NEW y, ~(x = "wide" /\ y = "tall"), ~(x = "tall" /\ y = "wide")
    PROVE  ~Turned(x, y)
<1>1. SUFFICES ASSUME Turned(x, y) PROVE FALSE
  OBVIOUS
<1>2. x \in {"wide", "tall"} /\ y \in {"wide", "tall"} /\ "wide" \in {x, y} /\ "tall" \in {x, y}
  BY <1>1 DEF Turned
<1>3. QED
  BY <1>2

\* The nearest ratio is one of the table, and never one of the other side: the square
\* would have been nearer.
LEMMA NearestAspect ==
    ASSUME NEW w \in Nat, NEW h \in Nat, h > 0
    PROVE  LET a == CalculateAspect(w, h) IN
           a \in KnownAspects /\ ~Turned(Side(w, h), Side(a[1], a[2]))
<1> DEFINE off(i) == Distance(CommonRatios[i][1] * h, w * CommonRatios[i][2])
           nearer(i, j) == off(i) * CommonRatios[j][2] < off(j) * CommonRatios[i][2]
           Best(i) == \A j \in DOMAIN CommonRatios : ~nearer(j, i) /\ (j < i => nearer(i, j))
           best == CHOOSE i \in DOMAIN CommonRatios : Best(i)
           s == [i \in 1 .. 10 |-> off(i) * (720 \div CommonRatios[i][2])]
<1>1. /\ DOMAIN CommonRatios = 1 .. 10
      /\ \A i \in 1 .. 10 : /\ CommonRatios[i] \in KnownAspects
                            /\ CommonRatios[i][1] \in Nat
                            /\ CommonRatios[i][2] \in {1, 2, 3, 4, 5, 9, 16}
      /\ CommonRatios[1] = <<1, 1>>
  BY AspectsKnown DEF CommonRatios, Square
<1>2. \A i \in 1 .. 10 : off(i) \in Nat
  BY <1>1 DEF Distance
<1>3. CalculateAspect(w, h) = CommonRatios[best]
  BY DEF CalculateAspect
<1>4. \A i, j \in 1 .. 10 : nearer(i, j) <=> s[i] < s[j]
  <2>1. SUFFICES ASSUME NEW i \in 1 .. 10, NEW j \in 1 .. 10 PROVE nearer(i, j) <=> s[i] < s[j]
    OBVIOUS
  <2>2. off(i) \in Nat /\ off(j) \in Nat
    BY <1>2
  <2>3. s[i] = off(i) * (720 \div CommonRatios[i][2]) /\ s[j] = off(j) * (720 \div CommonRatios[j][2])
    OBVIOUS
  <2> DEFINE x == off(i)
             y == off(j)
             b == CommonRatios[i][2]
             d == CommonRatios[j][2]
  <2>4. b \in {1, 2, 3, 4, 5, 9, 16} /\ d \in {1, 2, 3, 4, 5, 9, 16}
    BY <1>1
  <2>5. (nearer(i, j) <=> x * d < y * b) /\ s[i] = x * (720 \div b) /\ s[j] = y * (720 \div d)
    BY <2>3
  <2>6. x \in Nat /\ y \in Nat
    BY <2>2
  <2> HIDE DEF x, y, b, d, s, nearer
  <2>7. x * d < y * b <=> x * (720 \div b) < y * (720 \div d)
    BY <2>4, <2>6, SameDenominator
  <2>8. QED
    BY <2>5, <2>7
<1>5. \A i \in 1 .. 10 : s[i] \in Int
  <2>1. SUFFICES ASSUME NEW i \in 1 .. 10 PROVE s[i] \in Int
    OBVIOUS
  <2>2. off(i) \in Nat
    BY <1>2
  <2> HIDE DEF off
  <2>3. 720 \div CommonRatios[i][2] \in Int
    BY <1>1
  <2>4. QED
    BY <2>2, <2>3
<1>6. \E i \in 1 .. 10 : \A j \in 1 .. 10 : s[i] <= s[j] /\ (j < i => s[i] < s[j])
  <2> HIDE DEF s
  <2>1. QED
    BY <1>5, FirstLeast
<1>7. \E i \in DOMAIN CommonRatios : Best(i)
  <2>1. PICK i \in 1 .. 10 : \A j \in 1 .. 10 : s[i] <= s[j] /\ (j < i => s[i] < s[j])
    BY <1>6
  <2> HIDE DEF s, nearer
  <2>2. \A j \in 1 .. 10 : ~nearer(j, i) /\ (j < i => nearer(i, j))
    BY <1>4, <1>5, <2>1
  <2>3. QED
    BY <1>1, <2>2
<1>8. best \in 1 .. 10 /\ Best(best)
  <2> HIDE DEF Best
  <2>1. QED
    BY <1>1, <1>7
<1> HIDE DEF best
<1>9. ~nearer(1, best)
  BY <1>1, <1>8
<1>10. CASE w = h
  BY <1>1, <1>3, <1>8, <1>10, NotTurned DEF Side
<1> DEFINE a == CommonRatios[best][1]
           b == CommonRatios[best][2]
<1>11. a \in Nat /\ b \in Nat /\ b > 0 /\ ~(Distance(h, w) * b < Distance(a * h, w * b))
  <2>1. off(1) = Distance(h, w)
    BY <1>1 DEF Distance
  <2>2. QED
    BY <1>1, <1>2, <1>8, <1>9, <2>1
<1>12. CASE w > h
  <2>1. ~(a < b)
    <3>1. SUFFICES ASSUME a < b PROVE FALSE
      OBVIOUS
    <3> HIDE DEF a, b
    <3>2. a * h < b * h /\ h * b = b * h /\ h * b < w * b /\ (w - h) * b = w * b - b * h
      BY <1>11, <1>12, <3>1
    <3>3. QED
      BY <1>11, <1>12, <3>1, <3>2 DEF Distance
  <2>2. Side(w, h) = "wide" /\ Side(a, b) # "tall"
    BY <1>12, <2>1 DEF Side
  <2>3. ~Turned(Side(w, h), Side(a, b))
    BY <2>2, NotTurned
  <2>4. QED
    BY <1>1, <1>3, <1>8, <2>3
<1>13. CASE w < h
  <2>1. ~(a > b)
    <3>1. SUFFICES ASSUME a > b PROVE FALSE
      OBVIOUS
    <3> HIDE DEF a, b
    <3>2. b * h < a * h /\ w * b <= h * b /\ h * b = b * h /\ (h - w) * b = h * b - w * b
      BY <1>11, <1>13, <3>1
    <3>3. QED
      BY <1>11, <1>13, <3>1, <3>2 DEF Distance
  <2>2. Side(w, h) = "tall" /\ Side(a, b) # "wide"
    BY <1>13, <2>1 DEF Side
  <2>3. ~Turned(Side(w, h), Side(a, b))
    BY <2>2, NotTurned
  <2>4. QED
    BY <1>1, <1>3, <1>8, <2>3
<1>14. QED
  BY <1>10, <1>12, <1>13

\* A side is not turned into itself, nor into a square.
LEMMA SidesKept ==
    ASSUME NEW x, NEW y, x = y \/ x = "square" \/ y = "square"
    PROVE  ~Turned(x, y)
BY NotTurned

\* The table of pixel sizes keeps the side.
LEMMA PixelsAspectKept ==
    ASSUME NEW p \in PixelsAspect
    PROVE  p[3] \in KnownAspects /\ ~Turned(Side(p[1], p[2]), Side(p[3][1], p[3][2]))
<1>1. p[3] \in KnownAspects
  BY AspectsKnown DEF PixelsAspect, Square
<1>2. \/ p[1] > p[2] /\ ~(p[3][1] < p[3][2])
      \/ p[1] < p[2] /\ ~(p[3][1] > p[3][2])
      \/ p[1] = p[2] /\ p[3] = <<1, 1>>
  BY DEF PixelsAspect, Square
<1>3. ~Turned(Side(p[1], p[2]), Side(p[3][1], p[3][2]))
  <2>1. CASE p[1] > p[2] /\ ~(p[3][1] < p[3][2])
    <3>1. p[1] \in Nat /\ p[2] \in Nat
      BY DEF PixelsAspect
    <3>2. Side(p[1], p[2]) = "wide" /\ Side(p[3][1], p[3][2]) # "tall"
      BY <2>1, <3>1 DEF Side
    <3>3. QED
      BY <3>2, NotTurned
  <2>2. CASE p[1] < p[2] /\ ~(p[3][1] > p[3][2])
    <3>1. p[1] \in Nat /\ p[2] \in Nat
      BY DEF PixelsAspect
    <3>2. Side(p[1], p[2]) = "tall" /\ Side(p[3][1], p[3][2]) # "wide"
      BY <2>2, <3>1 DEF Side
    <3>3. QED
      BY <3>2, NotTurned
  <2>3. CASE p[1] = p[2] /\ p[3] = <<1, 1>>
    BY <2>3, SidesKept DEF Side
  <2>4. QED
    BY <1>2, <2>1, <2>2, <2>3
<1>4. QED
  BY <1>1, <1>3

\* Pixels that are asked for are natural numbers.
LEMMA PixelsAsked ==
    ASSUME NEW size \in Sizes, size.kind = "pixels"
    PROVE  size.w \in Nat /\ size.h \in Nat
<1>1. \/ size \in {Preset(p) : p \in Wide \cup Tall \cup {"square", "standard", "classic", "auto"}}
      \/ size \in {Ratio(a[1], a[2]) : a \in KnownAspects \cup {<<2, 1>>}}
      \/ size \in {Tier(t) : t \in {"512px", "1K", "2K", "4K"}}
      \/ size \in {Pixels(w, h) : w \in Edges, h \in Edges}
  BY DEF Sizes
<1>2. \A p, x, y : /\ Preset(p).kind # "pixels" /\ Ratio(x, y).kind # "pixels"
                   /\ Tier(p).kind # "pixels"
  BY DEF Preset, Ratio, Tier
<1>3. PICK w \in Edges, h \in Edges : size = Pixels(w, h)
  BY <1>1, <1>2
<1>4. QED
  BY <1>3, MediaAssumption DEF Pixels

\* What a size comes to as a ratio: nothing, a ratio of the table of the side it asks for,
\* or one beside the table, which asks for no side.
LEMMA AspectAsked ==
    ASSUME NEW size \in Sizes
    PROVE  LET a == NormalizeToAspect(size) IN
           \/ a = Raises
           \/ a \in KnownAspects /\ ~Turned(AskedSide(size), Side(a[1], a[2]))
           \/ a \notin KnownAspects /\ size.kind # "pixels" /\ AskedSide(size) = "square"
<1> DEFINE a == NormalizeToAspect(size)
<1>1. CASE size.kind # "pixels"
  <2>1. AskedSide(size) = IF a \in KnownAspects THEN Side(a[1], a[2]) ELSE "square"
    BY <1>1 DEF AskedSide
  <2>2. QED
    BY <1>1, <2>1, SidesKept
<1>2. CASE size.kind = "pixels"
  <2>1. AskedSide(size) = Side(size.w, size.h)
    BY <1>2 DEF AskedSide
  <2>2. size.w \in Nat /\ size.h \in Nat
    BY <1>2, PixelsAsked
  <2>3. CASE \E p \in PixelsAspect : p[1] = size.w /\ p[2] = size.h
    <3> DEFINE c == CHOOSE p \in PixelsAspect : p[1] = size.w /\ p[2] = size.h
    <3>1. c \in PixelsAspect /\ c[1] = size.w /\ c[2] = size.h
      BY <2>3
    <3>2. a = c[3]
      BY <1>2, <2>3 DEF NormalizeToAspect
    <3> HIDE DEF c, a
    <3>3. QED
      BY <2>1, <3>1, <3>2, PixelsAspectKept DEF a
  <2>4. CASE ~\E p \in PixelsAspect : p[1] = size.w /\ p[2] = size.h
    <3>1. a = CalculateAspect(size.w, size.h)
      BY <1>2, <2>4 DEF NormalizeToAspect
    <3>2. CASE size.h = 0
      <4>1. a = Raises
        BY <3>1, <3>2 DEF CalculateAspect
      <4>2. QED
        BY <4>1
    <3>3. CASE size.h > 0
      <4> HIDE DEF a
      <4>1. a \in KnownAspects /\ ~Turned(Side(size.w, size.h), Side(a[1], a[2]))
        BY <2>2, <3>1, <3>3, NearestAspect
      <4>2. QED
        BY <2>1, <4>1 DEF a
    <3>4. QED
      BY <2>2, <3>2, <3>3
  <2>5. QED
    BY <2>3, <2>4
<1>3. QED
  BY <1>1, <1>2

\* Fixed sizes keep the side of a ratio of the table.
LEMMA FixedSizes ==
    ASSUME NEW a
    PROVE  /\ GptImageSize(a) \in {<<1024, 1024>>, <<1536, 1024>>, <<1024, 1536>>}
           /\ DalleSize(a) \in {<<1024, 1024>>, <<1792, 1024>>, <<1024, 1792>>}
           /\ a \in KnownAspects =>
                /\ Side(GptImageSize(a)[1], GptImageSize(a)[2]) = Side(a[1], a[2])
                /\ Side(DalleSize(a)[1], DalleSize(a)[2]) = Side(a[1], a[2])
           /\ a \notin KnownAspects => GptImageSize(a) = <<1024, 1024>> /\ DalleSize(a) = <<1024, 1024>>
<1>1. /\ GptImageSize(a) \in {<<1024, 1024>>, <<1536, 1024>>, <<1024, 1536>>}
      /\ DalleSize(a) \in {<<1024, 1024>>, <<1792, 1024>>, <<1024, 1792>>}
  BY DEF GptImageSize, DalleSize
<1>2. a \notin KnownAspects => GptImageSize(a) = <<1024, 1024>> /\ DalleSize(a) = <<1024, 1024>>
  BY DEF GptImageSize, DalleSize
<1>3. ASSUME a \in KnownAspects
      PROVE  /\ Side(GptImageSize(a)[1], GptImageSize(a)[2]) = Side(a[1], a[2])
             /\ Side(DalleSize(a)[1], DalleSize(a)[2]) = Side(a[1], a[2])
  <2>1. a[1] \in Nat /\ a[2] \in Nat /\ (a[1] = a[2] => a = Square)
    BY <1>3, AspectsKnown DEF Square
  <2>2. CASE a = Square
    <3>1. GptImageSize(a) = <<1024, 1024>> /\ DalleSize(a) = <<1024, 1024>> /\ a[1] = 1 /\ a[2] = 1
      BY <2>2 DEF GptImageSize, DalleSize, Square
    <3>2. QED
      BY <3>1 DEF Side
  <2>3. CASE a # Square /\ a[1] > a[2]
    <3>1. /\ GptImageSize(a) = <<1536, 1024>> /\ DalleSize(a) = <<1792, 1024>>
          /\ Side(a[1], a[2]) = "wide" /\ Side(1536, 1024) = "wide" /\ Side(1792, 1024) = "wide"
      BY <1>3, <2>1, <2>3 DEF GptImageSize, DalleSize, Side
    <3>2. QED
      BY <3>1
  <2>4. CASE a # Square /\ ~(a[1] > a[2])
    <3>1. /\ GptImageSize(a) = <<1024, 1536>> /\ DalleSize(a) = <<1024, 1792>>
          /\ Side(a[1], a[2]) = "tall" /\ Side(1024, 1536) = "tall" /\ Side(1024, 1792) = "tall"
      BY <1>3, <2>1, <2>4 DEF GptImageSize, DalleSize, Side
    <3>2. QED
      BY <3>1
  <2>5. QED
    BY <2>2, <2>3, <2>4
<1>4. QED
  BY <1>1, <1>2, <1>3

\* The pixels a flexible model draws a ratio with are legal, and of its side.
LEMMA TableFits ==
    ASSUME NEW s \in FlexibleSizes
    PROVE  /\ s[2] = <<s[2][1], s[2][2]>> /\ s[2][1] \in Nat /\ s[2][2] \in Nat
           /\ Legal(s[2]) /\ Side(s[1][1], s[1][2]) = Side(s[2][1], s[2][2])
<1>1. /\ s[2] = <<s[2][1], s[2][2]>> /\ s[2][1] \in Nat /\ s[2][2] \in Nat
      /\ s[2][1] % 16 = 0 /\ s[2][2] % 16 = 0
      /\ 16 <= s[2][1] /\ 16 <= s[2][2] /\ s[2][1] <= 3840 /\ s[2][2] <= 3840
  BY DEF FlexibleSizes, Square
<1>2. /\ s[1][1] > s[1][2] <=> s[2][1] > s[2][2]
      /\ s[1][1] < s[1][2] <=> s[2][1] < s[2][2]
  BY DEF FlexibleSizes, Square
<1>3. Legal(s[2])
  BY <1>1 DEF Legal, Align, MaxEdge
<1>4. Side(s[1][1], s[1][2]) = Side(s[2][1], s[2][2])
  BY <1>2 DEF Side
<1>5. QED
  BY <1>1, <1>3, <1>4

\* A size on a flexible model.
LEMMA FlexibleFits ==
    ASSUME NEW size \in Sizes, NEW model \in FlexibleModels
    PROVE  PixelsRight(ToPixelsOpenAI(size, model), size, model)
<1> DEFINE a == NormalizeToAspect(size)
           p == ToPixelsOpenAI(size, model)
<1>1. CASE size = Preset("auto")
  <2>1. p = AutoSize /\ size.kind # "pixels"
    BY <1>1 DEF ToPixelsOpenAI, Preset, FlexibleModels
  <2>2. model \notin {"gpt-image-1", "stability"}
    BY DEF FlexibleModels
  <2> HIDE DEF p
  <2>3. QED
    BY <2>1, <2>2 DEF PixelsRight, p
<1>2. CASE size.kind = "pixels"
  <2>1. size # Preset("auto") /\ AskedSide(size) = Side(size.w, size.h)
    BY <1>2 DEF Preset, AskedSide
  <2>2. p = FitPixels(size.w, size.h)
    BY <1>2, <2>1 DEF ToPixelsOpenAI, FlexibleModels
  <2>3. size.w \in Nat /\ size.h \in Nat
    BY <1>2, PixelsAsked
  <2> HIDE DEF p
  <2>4. /\ p[1] \in Nat /\ p[2] \in Nat /\ p = <<p[1], p[2]>> /\ Legal(p)
        /\ ~Turned(Side(size.w, size.h), Side(p[1], p[2]))
        /\ Legal(<<size.w, size.h>>) => p = <<size.w, size.h>>
    BY <2>2, <2>3, PixelsFit
  <2>5. FitPixels(p[1], p[2]) = p
    BY <2>4, PixelsFit
  <2>6. model \notin {"gpt-image-1", "stability"}
    BY DEF FlexibleModels
  <2>7. QED
    BY <2>1, <2>4, <2>5, <2>6 DEF PixelsRight, p
<1>3. CASE size # Preset("auto") /\ size.kind # "pixels"
  <2>1. p = IF a \in KnownAspects THEN (CHOOSE s \in FlexibleSizes : s[1] = a)[2]
            ELSE <<1024, 1024>>
    BY <1>3 DEF ToPixelsOpenAI, FlexibleModels
  <2>2. /\ p = <<p[1], p[2]>> /\ p[1] \in Nat /\ p[2] \in Nat /\ Legal(p)
        /\ ~Turned(AskedSide(size), Side(p[1], p[2]))
    <3>1. CASE a \in KnownAspects
      <4> DEFINE c == CHOOSE s \in FlexibleSizes : s[1] = a
      <4>1. \E s \in FlexibleSizes : s[1] = a
        BY <3>1 DEF KnownAspects
      <4>2. c \in FlexibleSizes /\ c[1] = a
        BY <4>1
      <4>3. p = c[2]
        BY <2>1, <3>1
      <4>4. AskedSide(size) = Side(a[1], a[2])
        BY <1>3, <3>1 DEF AskedSide
      <4> HIDE DEF c, p, a
      <4>5. QED
        BY <4>2, <4>3, <4>4, TableFits, SidesKept
    <3>2. CASE a \notin KnownAspects
      <4>1. p = <<1024, 1024>>
        BY <2>1, <3>2
      <4> HIDE DEF p, a
      <4>2. p[1] = 1024 /\ p[2] = 1024 /\ Legal(p) /\ Side(1024, 1024) = "square"
        BY <4>1 DEF Legal, Align, MaxEdge, Side
      <4>3. QED
        BY <4>1, <4>2, SidesKept
    <3>3. QED
      BY <3>1, <3>2
  <2>3. model \notin {"gpt-image-1", "stability"}
    BY DEF FlexibleModels
  <2> HIDE DEF p, a
  <2>4. FitPixels(p[1], p[2]) = p
    BY <2>2, PixelsFit
  <2>5. QED
    BY <1>3, <2>2, <2>3, <2>4 DEF PixelsRight, p
<1>4. QED
  BY <1>1, <1>2, <1>3

\* A size on any model that takes pixels, unless its conversion raises.
LEMMA OpenAIFits ==
    ASSUME NEW size \in Sizes, NEW model, ToPixelsOpenAI(size, model) # Raises
    PROVE  PixelsRight(ToPixelsOpenAI(size, model), size, model)
<1> DEFINE a == NormalizeToAspect(size)
           p == ToPixelsOpenAI(size, model)
<1>1. CASE model \in FlexibleModels
  BY <1>1, FlexibleFits
<1>2. CASE model \notin FlexibleModels
  <2>1. a # Raises
    BY <1>2 DEF ToPixelsOpenAI
  <2>2. p \in {DalleSize(a), GptImageSize(a)} /\ (model # "dall-e-3" => p = GptImageSize(a))
    BY <1>2, <2>1 DEF ToPixelsOpenAI, FlexibleModels
  <2> HIDE DEF p
  <2>3. \/ a \in KnownAspects /\ ~Turned(AskedSide(size), Side(a[1], a[2]))
        \/ a \notin KnownAspects /\ size.kind # "pixels" /\ AskedSide(size) = "square"
    BY <2>1, AspectAsked
  <2>4. ~Turned(AskedSide(size), Side(p[1], p[2]))
    <3>1. CASE a \notin KnownAspects
      BY <2>3, <3>1, SidesKept
    <3>2. CASE a \in KnownAspects
      <4> HIDE DEF a
      <4>1. ~Turned(AskedSide(size), Side(a[1], a[2]))
        BY <2>3, <3>2
      <4>2. Side(p[1], p[2]) = Side(a[1], a[2])
        BY <2>2, <3>2, FixedSizes
      <4>3. QED
        BY <4>1, <4>2
    <3>3. QED
      BY <2>3, <3>1, <3>2
  <2>5. model \in {"gpt-image-1", "stability"} =>
          p \in {<<1024, 1024>>, <<1536, 1024>>, <<1024, 1536>>}
    BY <2>2, FixedSizes
  <2>6. QED
    BY <1>2, <2>4, <2>5 DEF PixelsRight, p
<1>3. QED
  BY <1>1, <1>2

Tiers == {"512px", "1K", "2K", "4K"}

\* What Gemini takes: a ratio of its table, of the side asked for.
LEMMA AspectFits ==
    ASSUME NEW size \in Sizes, ToAspectGoogle(size) # Raises
    PROVE  LET p == ToAspectGoogle(size) IN
           p \in KnownAspects /\ ~Turned(AskedSide(size), Side(p[1], p[2]))
<1> DEFINE a == NormalizeToAspect(size)
<1>1. ToAspectGoogle(size) = IF a = Raises \/ a \in KnownAspects THEN a ELSE Square
  BY DEF ToAspectGoogle
<1>2. \/ a \in KnownAspects /\ ~Turned(AskedSide(size), Side(a[1], a[2]))
      \/ a \notin KnownAspects /\ AskedSide(size) = "square"
  BY <1>1, AspectAsked
<1>3. Square \in KnownAspects
  BY AspectsKnown DEF Square
<1> HIDE DEF a
<1>4. CASE a \in KnownAspects
  BY <1>1, <1>2, <1>4
<1>5. CASE a \notin KnownAspects
  BY <1>1, <1>2, <1>3, <1>5, SidesKept
<1>6. QED
  BY <1>4, <1>5

\* The tier a size asks for.
TierOf(size) ==
    IF size.kind = "tier" THEN size.name
      ELSE IF size.kind = "pixels" THEN TierOfPixels(size.w, size.h) ELSE "1K"

\* It is one there is.
LEMMA TierAsked ==
    ASSUME NEW size \in Sizes
    PROVE  TierOf(size) \in Tiers
<1>1. CASE size.kind = "tier"
  <2>1. \/ size \in {Preset(p) : p \in Wide \cup Tall \cup {"square", "standard", "classic", "auto"}}
        \/ size \in {Ratio(a[1], a[2]) : a \in KnownAspects \cup {<<2, 1>>}}
        \/ size \in {Tier(t) : t \in Tiers}
        \/ size \in {Pixels(w, h) : w \in Edges, h \in Edges}
    BY DEF Sizes, Tiers
  <2>2. \A p, x, y : /\ Preset(p).kind # "tier" /\ Ratio(x, y).kind # "tier"
                     /\ Pixels(x, y).kind # "tier"
    BY DEF Preset, Ratio, Pixels
  <2>3. PICK t \in Tiers : size = Tier(t)
    BY <1>1, <2>1, <2>2
  <2>4. size.name = t
    BY <2>3 DEF Tier
  <2>5. QED
    BY <1>1, <2>4 DEF TierOf
<1>2. CASE size.kind = "pixels"
  <2>1. TierOfPixels(size.w, size.h) \in Tiers
    <3> DEFINE edge == Larger(size.w, size.h)
               area == size.w * size.h
    <3>1. size.w \in Nat /\ size.h \in Nat
      BY <1>2, PixelsAsked
    <3>2. edge \in Nat /\ area \in Nat
      BY <3>1 DEF Larger
    <3>3. QED
      BY <3>2, SMT DEF TierOfPixels, Tiers
  <2>2. QED
    BY <1>2, <2>1 DEF TierOf
<1>3. CASE size.kind # "tier" /\ size.kind # "pixels"
  BY <1>3 DEF Tiers, TierOf
<1>4. QED
  BY <1>1, <1>2, <1>3

\* hd never draws less, and only one model draws half a thousand pixels.
LEMMA TierFits ==
    ASSUME NEW size \in Sizes, NEW quality, NEW model
    PROVE  TierRight(ToTierGoogle(size, quality, model), size, quality, model)
<1> DEFINE wish == TierOf(size)
           raised(q) == IF WantsHd(q) /\ Rank(wish) < 2 THEN "2K" ELSE wish
           t(q) == IF model = Lite \/ (raised(q) = "512px" /\ model # Flash) THEN "1K" ELSE raised(q)
<1>1. \A q : ToTierGoogle(size, q, model) = t(q)
  BY SMT DEF ToTierGoogle, TierOf
<1>2. wish \in Tiers
  BY TierAsked
<1> HIDE DEF wish
<1>3. Rank("512px") = 0 /\ Rank("1K") = 1 /\ Rank("2K") = 2 /\ Rank("4K") = 3
  BY SMT DEF Rank
<1>4. ~WantsHd("standard")
  BY DEF WantsHd
<1>5. t(quality) = "512px" => model = Flash
  BY <1>2 DEF Tiers
<1>6. Rank(t(quality)) >= Rank(t("standard"))
  BY <1>2, <1>3, <1>4 DEF Tiers
<1>7. WantsHd(quality) => Rank(t(quality)) >= 2 \/ model = Lite
  BY <1>2, <1>3 DEF Tiers
<1>8. QED
  BY <1>1, <1>5, <1>6, <1>7 DEF TierRight

\* What is sent for a request is right.
Fitting(q, c) ==
    /\ PixelsRight(c.pixels, q.size, c.model)
    /\ q.provider = "google" => c.pixels \in KnownAspects /\ TierRight(c.tier, q.size, q.quality, q.model)

\* What an image request asks for.
Gemini == {"gemini-3-pro-image", Flash, Lite}

Drawn(q) ==
    /\ q.op \in {"image", "speech", "transcription", "embedding", "chat"}
    /\ q.provider \in {"openai", "google", "bedrock", "anthropic"}
    /\ q.op = "image" => q.size \in Sizes /\ (q.provider = "google" => q.model \in Gemini)

\* On a model of Gemini the side is all there is to be right.
LEMMA ElsewhereRight ==
    ASSUME NEW p, NEW size, NEW model, ~Turned(AskedSide(size), Side(p[1], p[2])),
           model \notin FlexibleModels, model \notin {"gpt-image-1", "stability"}
    PROVE  PixelsRight(p, size, model)
BY DEF PixelsRight

\* Whatever an adapter sends, it fits; only images have a model there.
LEMMA AnswersFit ==
    ASSUME NEW q, Drawn(q), q.op # "chat", NEW c \in Answers(q), c.model # ""
    PROVE  Fitting(q, c)
<1>1. CASE q.provider = "anthropic"
  BY <1>1 DEF Answers, AnthropicUnsupported
<1>2. CASE q.op # "image" /\ q.provider # "anthropic"
  <2>1. c \in {NoCall} \/ \E v : c = [NoCall EXCEPT !.vectors = v]
    BY <1>2 DEF Answers, Drawn, OpenAIEmbed, GoogleEmbed, BedrockEmbed, OpenAISpeech, GoogleSpeech,
                BedrockSpeech, OpenAITranscribe, GoogleTranscribe, BedrockTranscribe
  <2>2. NoCall.model = ""
    BY DEF NoCall
  <2>3. \A v : [NoCall EXCEPT !.vectors = v].model = ""
    BY DEF NoCall
  <2>4. c.model = ""
    BY <2>1, <2>2, <2>3
  <2>5. QED
    BY <2>4
<1>3. CASE q.op = "image" /\ q.provider \in {"openai", "bedrock"}
  <2>1. \E m : c.pixels = ToPixelsOpenAI(q.size, m) /\ c.model = m /\ c.pixels # Raises
    <3>1. CASE q.provider = "bedrock"
      <4>1. c \in BedrockImages(q)
        BY <1>3, <3>1 DEF Answers
      <4>2. c.pixels # Raises /\ c = [NoCall EXCEPT !.images = q.n, !.model = q.model,
                                      !.pixels = ToPixelsOpenAI(q.size, q.model)]
        BY <4>1 DEF BedrockImages, Sendable
      <4>3. QED
        BY <4>2 DEF NoCall
    <3>2. CASE q.provider = "openai"
      <4>1. c \in OpenAIImages(q)
        BY <1>3, <3>2 DEF Answers
      <4>2. \E m, i, y : c \in OpenAIImageOf(q, m, i, y)
        BY <4>1 DEF OpenAIImages, OpenAIEdit, OpenAIFromText
      <4>3. PICK m, i, y : c \in OpenAIImageOf(q, m, i, y)
        BY <4>2
      <4>4. c.pixels # Raises /\ c = [NoCall EXCEPT !.images = i, !.usage = (m # "dall-e-3"), !.model = m,
                                      !.pixels = ToPixelsOpenAI(q.size, m), !.quality = y]
        BY <4>3 DEF OpenAIImageOf, Sendable
      <4>5. QED
        BY <4>4 DEF NoCall
    <3>3. QED
      BY <1>3, <3>1, <3>2
  <2>2. PixelsRight(c.pixels, q.size, c.model) /\ q.provider # "google"
    BY <1>3, <2>1, OpenAIFits DEF Drawn
  <2>3. QED
    BY <2>2 DEF Fitting
<1>4. CASE q.op = "image" /\ q.provider = "google"
  <2>1. c \in GoogleImages(q)
    BY <1>4 DEF Answers
  <2>2. PICK got : c = [NoCall EXCEPT !.images = got[1], !.blank = got[2], !.model = q.model,
                             !.pixels = ToAspectGoogle(q.size),
                             !.tier = ToTierGoogle(q.size, q.quality, q.model)]
    BY <2>1 DEF GoogleImages, Sendable
  <2>3. c.pixels # Raises
    BY <2>1 DEF GoogleImages, Sendable
  <2>4. /\ c.pixels = ToAspectGoogle(q.size) /\ c.model = q.model
        /\ c.tier = ToTierGoogle(q.size, q.quality, q.model)
    BY <2>2 DEF NoCall
  <2>5. q.size \in Sizes /\ q.model \in Gemini
    BY <1>4 DEF Drawn
  <2>6. c.model \notin FlexibleModels /\ c.model \notin {"gpt-image-1", "stability"}
    BY <2>4, <2>5 DEF Gemini, FlexibleModels, Flash, Lite
  <2>7. /\ c.pixels \in KnownAspects
        /\ ~Turned(AskedSide(q.size), Side(c.pixels[1], c.pixels[2]))
    BY <2>3, <2>4, <2>5, AspectFits
  <2>8. PixelsRight(c.pixels, q.size, c.model)
    BY <2>6, <2>7, ElsewhereRight
  <2>9. TierRight(c.tier, q.size, q.quality, q.model)
    BY <2>4, <2>5, TierFits
  <2>10. QED
    BY <2>7, <2>8, <2>9 DEF Fitting
<1>5. QED
  BY <1>1, <1>2, <1>3, <1>4 DEF Drawn

\* What was sent fits, and what may be sent will.
SizeInv ==
    /\ DOMAIN call = Requests
    /\ \A r \in Requests :
         Drawn(request[r]) /\ (call[r].model # "" => Fitting(request[r], call[r]))

\* That is what SizesFit says.
LEMMA FittingFits == SizeInv => SizesFit
BY DEF SizeInv, SizesFit, Fitting

\* The plain request, as it is or of another kind.
LEMMA AskedDrawn ==
    /\ Asked.op = "image" /\ Asked.provider = "openai" /\ Asked.size = Preset("square")
    /\ Preset("square") \in Sizes
    /\ Drawn(Asked) /\ Drawn([Asked EXCEPT !.known = "missing"])
<1>1. Asked.op = "image" /\ Asked.provider = "openai" /\ Asked.size = Preset("square")
  BY DEF Asked
<1>2. Preset("square") \in Sizes
  BY DEF Sizes
<1> DEFINE q == [Asked EXCEPT !.known = "missing"]
<1>3. q.op = "image" /\ q.provider = "openai" /\ q.size = Preset("square")
  BY DEF Asked
<1> HIDE DEF q
<1>4. Drawn(Asked) /\ Drawn(q)
  BY <1>1, <1>2, <1>3 DEF Drawn
<1>5. QED
  BY <1>1, <1>2, <1>4 DEF q

\* An image request.
LEMMA ImagesDrawn == \A q \in ImageRequests : Drawn(q)
<1> DEFINE Plainly == {[Asked EXCEPT !.n = ask[1], !.refs = ask[2]] : ask \in {1, 2} \X BOOLEAN}
           Dalle == {[Asked EXCEPT !.model = "dall-e-3", !.row = PerImage, !.n = 2, !.refs = refs] :
                        refs \in BOOLEAN}
           Uses == {<<"google", Flash, 1>>, <<"google", Flash, 2>>,
                    <<"bedrock", "stability", 2>>, <<"bedrock", "nova", 1>>,
                    <<"anthropic", "claude", 1>>}
           Elsewhere == {[Asked EXCEPT !.provider = use[1], !.model = use[2], !.row = PerImage,
                                       !.n = use[3]] : use \in Uses}
<1>1. ASSUME NEW q \in Plainly PROVE Drawn(q)
  <2>1. q.op = "image" /\ q.provider = "openai" /\ q.size = Preset("square")
    BY DEF Asked
  <2> HIDE DEF Plainly
  <2>2. QED
    BY <2>1, AskedDrawn DEF Drawn
<1>2. ASSUME NEW q \in Dalle PROVE Drawn(q)
  <2>1. q.op = "image" /\ q.provider = "openai" /\ q.size = Preset("square")
    BY DEF Asked
  <2> HIDE DEF Dalle
  <2>2. QED
    BY <2>1, AskedDrawn DEF Drawn
<1>3. ASSUME NEW q \in Elsewhere PROVE Drawn(q)
  <2> HIDE DEF Uses
  <2>1. PICK use \in Uses :
          q = [Asked EXCEPT !.provider = use[1], !.model = use[2], !.row = PerImage, !.n = use[3]]
    OBVIOUS
  <2>2. q.op = "image" /\ q.provider = use[1] /\ q.model = use[2] /\ q.size = Preset("square")
    BY <2>1 DEF Asked
  <2>3. use[1] \in {"google", "bedrock", "anthropic"} /\ (use[1] = "google" => use[2] \in Gemini)
    BY DEF Uses, Gemini
  <2> HIDE DEF Elsewhere
  <2>4. QED
    BY <2>2, <2>3, AskedDrawn DEF Drawn
<1> HIDE DEF Plainly, Dalle, Elsewhere
<1>4. ImageRequests = Plainly \cup Dalle \cup Elsewhere
  BY Zenon DEF ImageRequests, Plainly, Dalle, Elsewhere
<1>5. QED
  BY <1>1, <1>2, <1>3, <1>4

\* Speech, a transcription or an embedding.
LEMMA OthersDrawn == \A q \in OtherRequests : Drawn(q)
<1> DEFINE row == NewRow("per_1m_tokens", 1, 0, 1)
           Ops == {"speech", "transcription", "embedding"}
           Uses == {<<"openai", "m">>, <<"google", "m">>, <<"bedrock", "amazon.titan-embed">>,
                    <<"bedrock", "m">>}
           Served == {[Asked EXCEPT !.op = ask[1], !.provider = ask[2][1], !.model = ask[2][2],
                                    !.row = row] : ask \in Ops \X Uses}
           Lost == {[Asked EXCEPT !.op = "speech", !.known = k] : k \in {"missing", "unavailable"}}
<1>1. ASSUME NEW q \in Served PROVE Drawn(q)
  <2> HIDE DEF Uses, Ops, row
  <2>1. PICK op \in Ops, use \in Uses :
          q = [Asked EXCEPT !.op = op, !.provider = use[1], !.model = use[2], !.row = row]
    OBVIOUS
  <2>2. q.op = op /\ q.provider = use[1]
    BY <2>1 DEF Asked
  <2> HIDE DEF Served
  <2>3. op \in {"speech", "transcription", "embedding"}
    BY DEF Ops
  <2>4. use[1] \in {"openai", "google", "bedrock"}
    BY DEF Uses
  <2>5. QED
    BY <2>2, <2>3, <2>4 DEF Drawn
<1>2. ASSUME NEW q \in Lost PROVE Drawn(q)
  <2>1. q.op = "speech" /\ q.provider = "openai"
    BY DEF Asked
  <2> HIDE DEF Lost
  <2>2. QED
    BY <2>1 DEF Drawn
<1> HIDE DEF Served, Lost
<1>3. OtherRequests = Served \cup Lost
  BY Zenon DEF OtherRequests, Served, Lost
<1>4. QED
  BY <1>1, <1>2, <1>3

\* A request for a size.
LEMMA SizedDrawn == \A q \in SizeRequests : Drawn(q)
<1> DEFINE Uses ==
             {<<"openai", "gpt-image-2", "max">>, <<"openai", "gpt-image-1", "hd">>,
              <<"openai", "dall-e-3", "hd">>, <<"bedrock", "stability", "standard">>}
             \cup {"google"} \X {"gemini-3-pro-image", Flash, Lite} \X {"standard", "hd"}
<1>1. ASSUME NEW q \in SizeRequests PROVE Drawn(q)
  <2>1. q \in {[Asked EXCEPT !.provider = ask[1][1], !.model = ask[1][2], !.quality = ask[1][3],
                             !.size = ask[2]] : ask \in Uses \X Sizes}
    BY Zenon DEF SizeRequests
  <2> HIDE DEF Uses
  <2>2. PICK use \in Uses, size \in Sizes :
          q = [Asked EXCEPT !.provider = use[1], !.model = use[2], !.quality = use[3], !.size = size]
    BY <2>1
  <2>3. q.op = "image" /\ q.provider = use[1] /\ q.model = use[2] /\ q.size = size
    BY <2>2 DEF Asked
  <2>4. use[1] \in {"openai", "google", "bedrock"} /\ (use[1] = "google" => use[2] \in Gemini)
    BY DEF Uses, Gemini
  <2>5. QED
    BY <2>3, <2>4 DEF Drawn
<1>2. QED
  BY <1>1

\* A chat request asks for no picture.
LEMMA ChatsDrawn == \A q \in PriceRequests : Drawn(q)
<1>1. ASSUME NEW q \in PriceRequests PROVE Drawn(q)
  <2>1. q.op = "chat" /\ q.provider = "openai"
    BY <1>1 DEF PriceRequests, Asked
  <2>2. QED
    BY <2>1 DEF Drawn
<1>2. QED
  BY <1>1

\* Nothing is sent yet.
LEMMA SizeStart == MediaInit => SizeInv
<1>1. ASSUME MediaInit PROVE SizeInv
  <2>1. \/ \E q : Drawn(q) /\ request = Only(q)
        \/ request = [r \in Requests |-> [Asked EXCEPT !.known = "missing"]]
    BY <1>1, ImagesDrawn, OthersDrawn, SizedDrawn, ChatsDrawn DEF MediaInit
  <2>2. \A r \in Requests : Drawn(request[r])
    BY <2>1, AskedDrawn DEF Only
  <2>3. DOMAIN call = Requests /\ \A r \in Requests : call[r].model = ""
    BY <1>1 DEF MediaInit, NoCall
  <2>4. QED
    BY <2>2, <2>3 DEF SizeInv
<1>2. QED
  BY <1>1

\* A step that sends nothing.
LEMMA SizesKept ==
    ASSUME SizeInv, request' = request, call' = call
    PROVE  SizeInv'
BY DEF SizeInv

\* A provider is called.
LEMMA CallFits ==
    ASSUME SizeInv, NEW r \in Requests, ~Is(r, "chat"), CallProvider(r)
    PROVE  SizeInv'
<1>1. request' = request /\ (call' = call \/ \E a \in Answers(request[r]) : call' = [call EXCEPT ![r] = a])
  BY DEF CallProvider
<1>2. CASE call' = call
  BY <1>1, <1>2, SizesKept
<1>3. CASE \E a \in Answers(request[r]) : call' = [call EXCEPT ![r] = a]
  <2>1. PICK a \in Answers(request[r]) : call' = [call EXCEPT ![r] = a]
    BY <1>3
  <2>2. Drawn(request[r]) /\ request[r].op # "chat"
    BY DEF SizeInv, Is
  <2>3. a.model # "" => Fitting(request[r], a)
    BY <2>2, AnswersFit
  <2>4. QED
    BY <1>1, <2>1, <2>3 DEF SizeInv
<1>4. QED
  BY <1>1, <1>2, <1>3

\* Every step sends what fits.
LEMMA SizeStep ==
    SizeInv /\ [Next]_vars => SizeInv'
<1> SUFFICES ASSUME SizeInv, [Next]_vars PROVE SizeInv'
  OBVIOUS
<1> USE DEF serving, mediaVars
<1>1. ASSUME NEW r \in Requests,
             \/ PostImage(r) \/ PostSpeech(r) \/ PostTranscription(r) \/ PostEmbedding(r)
      PROVE  SizeInv'
  BY <1>1, SizesKept DEF PostImage, PostSpeech, PostTranscription, PostEmbedding, Posted
<1>2. ASSUME NEW r \in Requests,
             \/ Admit(r) \/ DeliverImages(r) \/ DeliverSpeech(r) \/ RecordFailure(r) \/ PriceTokens(r)
             \/ ChargeImage(r) \/ ChargeSpeech(r) \/ ChargeTranscription(r) \/ ChargeEmbedding(r)
      PROVE  SizeInv'
  <2>1. request' = request /\ call' = call
    BY <1>2 DEF Admit, DeliverImages, DeliverSpeech, RecordFailure, PriceTokens, Charged, ChargeImage,
                ChargeSpeech, ChargeTranscription, ChargeEmbedding
  <2>2. QED
    BY <2>1, SizesKept
<1>3. ASSUME NEW r \in Requests, BackgroundTask(r) PROVE SizeInv'
  BY <1>3, SizesKept DEF BackgroundTask, WriteSuccess, Debit, MarkAndCommit, GiveUp, WriteError
<1>4. CASE Die
  BY <1>4, SizesKept DEF Die
<1>5. ASSUME NEW c \in Consumers, Consume(c) \/ ConsumerDies(c) PROVE SizeInv'
  BY <1>5, SizesKept DEF Consume, Receive, Store, Delete, ConsumerDies
<1>6. CASE Reappear
  BY <1>6, SizesKept DEF Reappear
<1>7. CASE UNCHANGED mediaVars
  BY <1>7, SizesKept
<1>8. ASSUME NEW r \in Requests, Generate(r) \/ TextToSpeech(r) \/ Transcribe(r) \/ Embed(r)
      PROVE  SizeInv'
  <2>1. ~Is(r, "chat")
    BY <1>8 DEF Generate, TextToSpeech, Transcribe, Embed, Is
  <2>2. QED
    BY <1>2, <1>8, <2>1, CallFits DEF Generate, TextToSpeech, Transcribe, Embed
<1>9. CASE MediaNext
  BY <1>1, <1>2, <1>3, <1>4, <1>5, <1>6, <1>8, <1>9
     DEF MediaNext, ImageTask, AudioTask, EmbeddingTask
<1>10. QED
  BY <1>7, <1>9 DEF Next, vars

\* What is sent for a size is what the provider takes, is not turned on its side, is left
\* alone when it was fit already, and hd never draws less (adapters/base.py,
\* ImageSizeResolver): for whatever pixels are asked for.
THEOREM PicturesFit == Spec => []SizesFit
<1>1. Init => SizeInv
  BY SizeStart DEF Init
<1>2. QED
  BY <1>1, FittingFits, SizeStep, PTL DEF Spec
=============================================================================
