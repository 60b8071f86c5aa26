----------------------------- MODULE UsageDebit -----------------------------
(***************************************************************************)
(* How a served request reaches the ledger and the wallet: the usage row   *)
(* in usage_logs, the wallet debit at the payments service, and the status *)
(* of that debit (usage_logs.wallet_debit_status), which the retry worker  *)
(* drives to an end (services/usage.py, services/chat.py,                  *)
(* services/messages_v2/core.py, services/debit_retry_worker.py).          *)
(*                                                                         *)
(* On /v1/chat (and images, audio, embeddings) one background task records *)
(* the row, debits, notes the outcome and commits, all on one session.  On *)
(* /v1/messages the row is recorded on the session of the request, which   *)
(* commits when the request ends, while a second task debits on a session  *)
(* of its own and looks the row up by trace id.  A /v1/messages request    *)
(* that hopped to another backend has a second row under the same trace    *)
(* id: the failed attempt's.                                               *)
(*                                                                         *)
(* Platform-fee accrual runs between the record and the rest, on the same  *)
(* session, and it may commit that session or roll it back; its decision   *)
(* is made in Limits and is free here (Accruals).                           *)
(***************************************************************************)
EXTENDS Naturals, FiniteSets

CONSTANTS
    Served,       \* served requests, named by their trace ids
    Paths,        \* the surfaces in play, of AllPaths
    Hops,         \* whether a /v1/messages request may hop to a backend
    Accruals,     \* the outcomes of fee accrual in play, of AllAccruals
    Gating,       \* the answers of is_wallet_debit_active in play
    MaxAttempts,  \* DebitRetryWorker.MAX_ATTEMPTS
    MaxAborts     \* bound: tasks and worker rounds that die

AllPaths == {"chat", "messages"}

\* "kept": no fee, or it exists already.  "charged": the fee row was inserted
\* and the session committed.  "raced": another task inserted it first, and
\* the session was rolled back (platform_fee.py:106-110).
AllAccruals == {"kept", "charged", "raced"}

ASSUME UsageDebitAssumption ==
    /\ Paths \subseteq AllPaths /\ Hops \in BOOLEAN
    /\ Accruals \subseteq AllAccruals /\ Gating \subseteq BOOLEAN
    /\ MaxAttempts \in Nat \ {0, 1} /\ MaxAborts \in Nat

\* The rows of a trace: of the attempt that was served, of the one before a
\* backend hop.
Kinds == {"served", "hopped"}
Items == Served \X Kinds

Open    == {"pending", "failed_retryable"}
Settled == {"debited", "failed_permanent", "not_applicable"}
Status  == Open \union Settled \union {"none"}

VARIABLES
    path,      \* the surface of each request
    hopped,    \* it hopped to another backend
    writer,    \* where the session that records its rows stands
    unsaved,   \* what that session will write at its commit, per row
    row,       \* the committed wallet_debit_status, "none" for no row
    attempts,  \* the committed wallet_debit_attempts
    biller,    \* where the debit stands; from "marking" on with its verdict
    verdict,   \* the status the first debit came to
    target,    \* the row the biller's lookup by trace id found
    applied,   \* the payments service has taken the money (source_ref = trace)
    gate,      \* is_wallet_debit_active, as this round of the worker read it
    locked,    \* rows the retry worker holds FOR UPDATE SKIP LOCKED
    todo,      \* those of them it has not handled yet
    marks,     \* what the worker's commit will write, per row
    aborts     \* tasks that died so far

session == <<path, hopped, writer, unsaved>>
ledger  == <<row, attempts>>
debit   == <<biller, verdict, target>>
worker  == <<gate, locked, todo, marks>>
ledgerVars == <<session, ledger, debit, applied, worker, aborts>>

NoMark == [status |-> "none", attempts |-> 0]
Mark   == [status : Status, attempts : 0..MaxAttempts]

LedgerTypeOK ==
    /\ path \in [Served -> Paths]
    /\ hopped \in [Served -> BOOLEAN]
    /\ writer \in [Served -> {"serving", "accruing", "metered", "ended"}]
    /\ unsaved \in [Items -> Status]
    /\ row \in [Items -> Status]
    /\ attempts \in [Items -> 0..MaxAttempts]
    /\ biller \in [Served -> {"waiting", "due", "marking", "found", "ended"}]
    /\ verdict \in [Served -> Status]
    /\ target \in [Served -> Kinds \union {"none"}]
    /\ applied \in [Served -> BOOLEAN]
    /\ gate \in BOOLEAN
    /\ locked \subseteq Items
    /\ todo \subseteq locked
    /\ marks \in [Items -> Mark]
    /\ aborts \in 0..MaxAborts

LedgerInit ==
    /\ path \in [Served -> Paths]
    /\ hopped \in [Served -> BOOLEAN]
    /\ \A r \in Served : hopped[r] => Hops /\ path[r] = "messages"
    /\ writer = [r \in Served |-> "serving"]
    /\ unsaved = [i \in Items |-> "none"]
    /\ row = [i \in Items |-> "none"]
    /\ attempts = [i \in Items |-> 0]
    /\ biller = [r \in Served |-> "waiting"]
    /\ verdict = [r \in Served |-> "none"]
    /\ target = [r \in Served |-> "none"]
    /\ applied = [r \in Served |-> FALSE]
    /\ gate = TRUE
    /\ locked = {}
    /\ todo = {}
    /\ marks = [i \in Items |-> NoMark]
    /\ aborts = 0

\* Replace the entries of f that the session of r wrote.
Saved(f, r) ==
    [i \in Items |-> IF i[1] = r /\ unsaved[i] # "none" THEN unsaved[i] ELSE f[i]]

-----------------------------------------------------------------------------
(* The session that records the usage rows.                                 *)

\* record_usage: the served row is flushed as "pending", after the row of the
\* attempt that failed before the hop.
RecordUsage(r) ==
    /\ writer[r] = "serving"
    /\ writer' = [writer EXCEPT ![r] = "accruing"]
    /\ unsaved' = [unsaved EXCEPT
                     ![<<r, "served">>] = "pending",
                     ![<<r, "hopped">>] = IF hopped[r] THEN "not_applicable"
                                          ELSE "none"]
    /\ UNCHANGED <<path, hopped, ledger, debit, applied, worker, aborts>>

\* What is unsaved once the session of r commits or rolls back: of its rows,
\* nothing.
Emptied(r) == [i \in Items |-> IF i[1] = r THEN "none" ELSE unsaved[i]]

\* _accrue_platform_fee, on the same session: a rollback after a raced insert
\* discards everything flushed so far.  Then the debit falls due.
AccrueFee(r) ==
    /\ writer[r] = "accruing"
    /\ writer' = [writer EXCEPT ![r] = "metered"]
    /\ biller' = [biller EXCEPT ![r] = "due"]
    /\ \/ "kept" \in Accruals /\ UNCHANGED <<unsaved, row>>
       \/ /\ "charged" \in Accruals
          /\ row' = Saved(row, r)
          /\ UNCHANGED unsaved
       \/ /\ "raced" \in Accruals
          /\ unsaved' = Emptied(r)
          /\ UNCHANGED row
    /\ UNCHANGED <<path, hopped, attempts, verdict, target, applied, worker, aborts>>

\* The commit waits for the rows the worker has locked.  On /v1/chat it
\* writes the outcome of the debit too; on /v1/messages only what is new.
WriterCommits(r) ==
    /\ writer[r] = "metered"
    /\ path[r] = "chat" => biller[r] = "ended"
    /\ \A k \in Kinds : <<r, k>> \notin locked
    /\ writer' = [writer EXCEPT ![r] = "ended"]
    /\ row' = IF path[r] = "chat" THEN Saved(row, r)
              ELSE [i \in Items |-> IF row[i] = "none" THEN Saved(row, r)[i]
                                    ELSE row[i]]
    /\ attempts' = [attempts EXCEPT ![<<r, "served">>] =
                      IF path[r] = "chat" /\ unsaved[<<r, "served">>] # "none"
                      THEN 1 ELSE @]
    /\ unsaved' = Emptied(r)
    /\ UNCHANGED <<path, hopped, debit, applied, worker, aborts>>

\* The session's task raises or its process stops before the commit: what it
\* had flushed is gone.  On /v1/chat the debit dies with it; on /v1/messages
\* it may still be spawned, _meter swallows what record_usage raises.
WriterAborts(r) ==
    /\ aborts < MaxAborts
    /\ writer[r] \in {"accruing", "metered"}
    /\ aborts' = aborts + 1
    /\ writer' = [writer EXCEPT ![r] = "ended"]
    /\ unsaved' = Emptied(r)
    /\ IF path[r] = "chat" \/ biller[r] = "waiting"
       THEN \E b \in {"ended"} \union {q \in {"due"} : path[r] = "messages"} :
               biller' = [biller EXCEPT ![r] = b]
       ELSE UNCHANGED biller
    /\ UNCHANGED <<path, hopped, ledger, verdict, target, applied, worker>>

-----------------------------------------------------------------------------
(* The debit.  Payments applies a source_ref once and then answers every    *)
(* replay the same; its answer may be lost.                                 *)

\* What a call to debit_wallet_usage can come to: whether the money is taken
\* afterwards, and what the caller sees.
Answers == {"ok", "insufficient", "error"}

DebitOutcomes(r) ==
    {o \in [taken : BOOLEAN, seen : Answers] :
        /\ applied[r] => o.taken
        /\ o.seen = "ok" => o.taken
        /\ o.seen = "insufficient" => ~o.taken}

\* Mutant of FirstVerdict: an unanswered debit counts as done.
FirstVerdictOptimistic(seen) ==
    IF seen = "insufficient" THEN "failed_permanent" ELSE "debited"

FirstVerdict(seen) ==
    CASE seen = "ok" -> "debited"
      [] seen = "insufficient" -> "failed_permanent"
      [] seen = "error" -> "failed_retryable"

\* The first debit, unless debits are switched off.
FirstDebit(r) ==
    /\ biller[r] = "due"
    /\ biller' = [biller EXCEPT ![r] = "marking"]
    /\ \/ /\ FALSE \in Gating
          /\ verdict' = [verdict EXCEPT ![r] = "not_applicable"]
          /\ UNCHANGED applied
       \/ /\ TRUE \in Gating
          /\ \E o \in DebitOutcomes(r) :
                /\ applied' = [applied EXCEPT ![r] = o.taken]
                /\ verdict' = [verdict EXCEPT ![r] = FirstVerdict(o.seen)]
    /\ UNCHANGED <<session, ledger, target, worker, aborts>>

\* mark_wallet_debit_status on /v1/chat: the row of the same session, if the
\* session still has it.
MarkOwnRow(r) ==
    /\ path[r] = "chat"
    /\ biller[r] = "marking"
    /\ biller' = [biller EXCEPT ![r] = "ended"]
    /\ unsaved' = [unsaved EXCEPT ![<<r, "served">>] =
                     IF @ = "none" THEN "none" ELSE verdict[r]]
    /\ UNCHANGED <<path, hopped, writer, ledger, verdict, target, applied,
                   worker, aborts>>

\* What WHERE trace_id = r LIMIT 1 may return.
RowsOfTrace(r) == {k \in Kinds : row[<<r, k>>] # "none"}

\* mark_wallet_debit_status on /v1/messages: a lookup by trace id that sees
\* only what is committed; finding nothing, it returns without a word.
FindRow(r) ==
    /\ path[r] = "messages"
    /\ biller[r] = "marking"
    /\ IF RowsOfTrace(r) = {}
       THEN /\ biller' = [biller EXCEPT ![r] = "ended"]
            /\ UNCHANGED target
       ELSE \E k \in RowsOfTrace(r) :
            /\ biller' = [biller EXCEPT ![r] = "found"]
            /\ target' = [target EXCEPT ![r] = k]
    /\ UNCHANGED <<session, ledger, verdict, applied, worker, aborts>>

\* ... and its commit, over whatever the row holds by then.
MarkFoundRow(r) ==
    /\ biller[r] = "found"
    /\ <<r, target[r]>> \notin locked
    /\ biller' = [biller EXCEPT ![r] = "ended"]
    /\ row' = [row EXCEPT ![<<r, target[r]>>] = verdict[r]]
    /\ attempts' = [attempts EXCEPT ![<<r, target[r]>>] = 1]
    /\ UNCHANGED <<session, verdict, target, applied, worker, aborts>>

\* The debit's own task dies on /v1/messages.
BillerAborts(r) ==
    /\ aborts < MaxAborts
    /\ path[r] = "messages"
    /\ biller[r] \in {"due", "marking", "found"}
    /\ aborts' = aborts + 1
    /\ biller' = [biller EXCEPT ![r] = "ended"]
    /\ UNCHANGED <<session, ledger, verdict, target, applied, worker>>

-----------------------------------------------------------------------------
(* DebitRetryWorker.run_once.                                               *)

OpenRows == {i \in Items : row[i] \in Open}

\* SELECT ... FOR UPDATE SKIP LOCKED, after the two switches are read.
WorkerSelects ==
    /\ locked = {}
    /\ OpenRows # {}
    /\ gate' \in Gating
    /\ locked' = OpenRows
    /\ todo' = OpenRows
    /\ UNCHANGED <<session, ledger, debit, applied, marks, aborts>>

\* Mutant of NextAttempt: the attempt is not counted.
SameAttempt(i) == attempts[i]

NextAttempt(i) == attempts[i] + 1

RetryVerdict(seen, n) ==
    IF seen = "error" /\ n >= MaxAttempts THEN "failed_permanent"
    ELSE FirstVerdict(seen)

\* One open row: debit again under the same trace id, and mark what the
\* lookup by that trace id returns.
WorkerRetries(i) ==
    LET r == i[1] IN
    /\ i \in todo
    /\ todo' = todo \ {i}
    /\ \E k \in RowsOfTrace(r) :
       \/ /\ ~gate
          /\ marks' = [marks EXCEPT ![<<r, k>>] =
                         [status |-> "not_applicable", attempts |-> attempts[i]]]
          /\ UNCHANGED applied
       \/ /\ gate
          /\ \E o \in DebitOutcomes(r) :
                /\ applied' = [applied EXCEPT ![r] = o.taken]
                /\ marks' = [marks EXCEPT ![<<r, k>>] =
                               [status |-> RetryVerdict(o.seen, NextAttempt(i)),
                                attempts |-> NextAttempt(i)]]
    /\ UNCHANGED <<session, ledger, debit, gate, locked, aborts>>

WorkerCommits ==
    /\ locked # {}
    /\ todo = {}
    /\ row' = [i \in Items |-> IF marks[i] # NoMark THEN marks[i].status ELSE row[i]]
    /\ attempts' = [i \in Items |-> IF marks[i] # NoMark THEN marks[i].attempts
                                    ELSE attempts[i]]
    /\ locked' = {}
    /\ marks' = [i \in Items |-> NoMark]
    /\ gate' = TRUE
    /\ UNCHANGED <<session, debit, applied, todo, aborts>>

\* The round raises or its process stops: the money it moved stays moved.
WorkerAborts ==
    /\ aborts < MaxAborts
    /\ locked # {}
    /\ aborts' = aborts + 1
    /\ locked' = {}
    /\ todo' = {}
    /\ marks' = [i \in Items |-> NoMark]
    /\ gate' = TRUE
    /\ UNCHANGED <<session, ledger, debit, applied>>

-----------------------------------------------------------------------------

Writer(r) == RecordUsage(r) \/ AccrueFee(r) \/ WriterCommits(r)
Biller(r) == FirstDebit(r) \/ MarkOwnRow(r) \/ FindRow(r) \/ MarkFoundRow(r)

LedgerNext ==
    \/ \E r \in Served : \/ Writer(r) \/ WriterAborts(r)
                         \/ Biller(r) \/ BillerAborts(r)
    \/ WorkerSelects
    \/ \E i \in Items : WorkerRetries(i)
    \/ WorkerCommits
    \/ WorkerAborts

LedgerSpec == LedgerInit /\ [][LedgerNext]_ledgerVars

\* Tasks that do not die run on, and main.py starts a retry round every
\* wallet_retry_interval_seconds.
FairLedgerSpec ==
    /\ LedgerSpec
    /\ \A r \in Served : WF_ledgerVars(Writer(r)) /\ WF_ledgerVars(Biller(r))
    /\ WF_ledgerVars(WorkerSelects)
    /\ \A i \in Items : WF_ledgerVars(WorkerRetries(i))
    /\ WF_ledgerVars(WorkerCommits)

-----------------------------------------------------------------------------
(* What the ledger promises.                                                *)

\* A row that says "debited" is a row whose money was taken: through lost
\* answers, retries, rows of two attempts under one trace id, wrong lookups,
\* crashes and writers that overwrite each other (wallet_debit_status, as
\* chat.py:322-339, core.py:1055-1074 and debit_retry_worker.py write it).
DebitedMeansCharged ==
    \A i \in Items : row[i] = "debited" => applied[i[1]]

\* Whoever dies and whatever answer is lost, a row under a trace id of its
\* own stops being open: it is debited, given up or out of scope
\* (DebitRetryWorker retries every "pending" and "failed_retryable" row).
DebitsSettle ==
    \A r \in Served :
        ~hopped[r] /\ row[<<r, "served">>] \in Open
            ~> row[<<r, "served">>] \in Settled

=============================================================================
