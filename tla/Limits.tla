------------------------------- MODULE Limits -------------------------------
(***************************************************************************)
(* What limits a caller before a request and is charged to it afterwards:   *)
(* the rate limiter's sliding windows, the spend budget of its key, the      *)
(* daily ceiling of an account that has not paid yet, and the monthly        *)
(* platform fee.  All of them are counters in Redis beside a ledger in the   *)
(* database (services/rate_limiter.py, policy.py, account_trust.py,          *)
(* platform_fee.py).                                                        *)
(*                                                                         *)
(* One account with one key.  A request costs one unit and one token.  One   *)
(* pipeline of Redis commands or one SQL statement is one action.  Budget    *)
(* windows and the month end together.                                      *)
(***************************************************************************)
EXTENDS Integers, FiniteSets

CONSTANTS
    Requests,     \* callers, one request after another
    Embeddings,   \* those that call the embeddings route
    Lanes,        \* the limits that are configured: one of these sets
    MinuteLimit,  \* requests_per_minute
    HourLimit,    \* requests_per_hour
    KeyLimit,     \* the budget of the key
    Ceiling,      \* the daily ceiling of an unpaid account
    Threshold,    \* platform_fee_threshold_tokens
    Absent,       \* no such key in Redis
    MaxSpend,     \* bound: requests recorded in one window
    MaxFaults,    \* bound: failed commands and statements, evictions
    MaxRolls      \* bound: windows that end

ASSUME LimitsAssumption ==
    /\ IsFiniteSet(Requests) /\ Embeddings \subseteq Requests
    /\ Lanes \subseteq SUBSET {"rate", "key", "account", "fee"}
    /\ \A n \in {MinuteLimit, HourLimit, KeyLimit, Ceiling, Threshold} : n \in Nat \ {0}
    /\ Absent \notin Nat
    /\ MaxSpend \in Nat /\ MaxFaults \in Nat /\ MaxRolls \in Nat

VARIABLES
    lane,     \* the limits in force
    hits,     \* what a window of the rate limiter holds
    counter,  \* the spend counter of the key and of the account
    trust,    \* the cached profile of the account: "none", "ramp" or "paid"
    tokens,   \* the monthly token counter
    spent,    \* what the ledger holds for the window: rows, units and tokens
    fee,      \* the month's fee row is in the ledger
    paid,     \* the account has paid
    dropping, \* the payment's call that drops the profile is on its way
    req,      \* the requests
    stale,    \* history: counters set below the ledger, by subject
    leaked,   \* history: spend let in or recorded past a counter, by subject
    faults, rolls

redis == <<hits, counter, trust, tokens>>
books == <<spent, fee, paid, dropping>>
past  == <<stale, leaked>>
bound == <<faults, rolls>>
vars  == <<lane, hits, counter, trust, tokens, spent, fee, paid, dropping, req,
           stale, leaked, faults, rolls>>

Windows  == {"minute", "hour"}
Subjects == {"key", "account"}
Limit    == [key |-> KeyLimit, account |-> Ceiling]

Idle == [pc |-> "idle", subject |-> "key", sum |-> 0, profile |-> "none",
         served |-> FALSE, row |-> "none", old |-> FALSE]

\* Where a request is, whose budget it asks, what it has read, and whether its
\* usage row is written ("flushed") or in the ledger ("saved") and of which window.
RequestStates ==
    [pc : {"idle", "rate", "hit", "peek", "get", "sum", "seed", "trust", "load", "keep",
           "serving", "record", "incr", "reseed", "topup", "month", "charge", "insert",
           "commit", "accrue"},
     subject : Subjects, sum : Nat, profile : {"none", "ramp", "paid"},
     served : BOOLEAN, row : {"none", "flushed", "saved"}, old : BOOLEAN]

\* One state type for every variable.
TypeOK ==
    /\ lane \in Lanes
    /\ hits \in [Windows -> Nat]
    /\ counter \in [Subjects -> Nat \cup {Absent}]
    /\ trust \in {"none", "ramp", "paid"} /\ tokens \in Nat \cup {Absent}
    /\ spent \in Nat /\ fee \in BOOLEAN /\ paid \in BOOLEAN /\ dropping \in BOOLEAN
    /\ req \in [Requests -> RequestStates]
    /\ stale \in [Subjects -> Nat] /\ leaked \in [Subjects -> Nat]
    /\ faults \in 0 .. MaxFaults /\ rolls \in 0 .. MaxRolls

Init ==
    /\ lane \in Lanes
    /\ hits = [w \in Windows |-> 0]
    /\ counter = [s \in Subjects |-> Absent] /\ tokens = Absent /\ trust = "none"
    /\ spent = 0 /\ fee = FALSE /\ paid = FALSE /\ dropping = FALSE
    /\ req = [r \in Requests |-> Idle]
    /\ stale = [s \in Subjects |-> 0] /\ leaked = [s \in Subjects |-> 0]
    /\ faults = 0 /\ rolls = 0

Fault == faults < MaxFaults /\ faults' = faults + 1 /\ UNCHANGED rolls
Works == UNCHANGED bound

At(r, pc) == req[r].pc = pc
Becomes(r, x) == req' = [req EXCEPT ![r] = x]
GoTo(r, pc) == Becomes(r, [req[r] EXCEPT !.pc = pc])
Leak(s) == leaked' = [leaked EXCEPT ![s] = @ + 1]

-----------------------------------------------------------------------------
(* The rate limiter.                                                        *)

\* Where a request that passed a check goes: the key's budget, the account's
\* ceiling, which embeddings do not ask about, and the provider.
AfterRate(x) == [x EXCEPT !.pc = IF "key" \in lane THEN "peek" ELSE "trust", !.subject = "key"]

InProgress == Cardinality({r \in Requests : req[r].pc # "idle"})

Arrive(r) ==
    /\ At(r, "idle") /\ spent + InProgress < MaxSpend
    /\ Becomes(r, IF "rate" \in lane THEN [Idle EXCEPT !.pc = "rate"] ELSE AfterRate(Idle))
    /\ UNCHANGED <<lane, redis, books, past, bound>>

\* A bug: one request too many.
FullBeyond == hits["minute"] > MinuteLimit \/ hits["hour"] > HourLimit
Full == hits["minute"] >= MinuteLimit \/ hits["hour"] >= HourLimit

\* Both windows are trimmed and counted; an error lets the request in.
CountHits(r) ==
    /\ At(r, "rate")
    /\ \/ Works /\ IF Full THEN Becomes(r, Idle) ELSE GoTo(r, "hit")
       \/ Fault /\ Becomes(r, AfterRate(req[r]))
    /\ UNCHANGED <<lane, redis, books, past>>

\* The request is added in a second pipeline, of which an error may leave a part.
AddHit(r) ==
    /\ At(r, "hit") /\ Becomes(r, AfterRate(req[r]))
    /\ \E added \in SUBSET Windows :
         /\ hits' = [w \in Windows |-> IF w \in added THEN hits[w] + 1 ELSE hits[w]]
         /\ IF added = Windows THEN Works ELSE "hour" \notin added /\ Fault
    /\ UNCHANGED <<lane, counter, trust, tokens, books, past>>

-----------------------------------------------------------------------------
(* Spend budgets.                                                           *)

\* After the key's budget, or after the account's profile was looked up: the
\* profile is also looked up for a metric when the spend is accrued.
AskTrust(r, x) ==
    [x EXCEPT !.pc = IF "account" \in lane /\ r \notin Embeddings THEN "trust"
                     ELSE IF x.served THEN "accrue" ELSE "serving",
              !.sum = 0]

Decide(r, n) ==
    LET x == req[r] IN
    Becomes(r, IF n >= Limit[x.subject] THEN Idle
               ELSE IF x.subject = "key" THEN AskTrust(r, x)
               ELSE [Idle EXCEPT !.pc = "serving"])

\* The counters are read in one pipeline; one that is missing is read again.
GetCounter(r) ==
    LET s == req[r].subject IN
    /\ req[r].pc \in {"peek", "get"}
    /\ LET miss == IF At(r, "peek") THEN "get" ELSE "sum" IN
       \/ Works /\ IF counter[s] = Absent THEN GoTo(r, miss) ELSE Decide(r, counter[s])
       \/ Fault /\ GoTo(r, miss)
    /\ UNCHANGED <<lane, redis, books, past>>

\* The ledger's sum of the window; no ledger, no limit.
SumLedger(r) ==
    /\ At(r, "sum")
    /\ \/ /\ Works /\ Becomes(r, [req[r] EXCEPT !.pc = "seed", !.sum = spent])
          /\ UNCHANGED leaked
       \/ Fault /\ Decide(r, 0) /\ Leak(req[r].subject)
    /\ UNCHANGED <<lane, redis, books, stale>>

\* The counter is set to the sum, whatever it holds by now.
Seed(r) ==
    LET x == req[r] IN
    /\ At(r, "seed") /\ Decide(r, x.sum)
    /\ \/ /\ Works
          /\ counter' = (IF x.old THEN counter ELSE [counter EXCEPT ![x.subject] = x.sum])
          /\ stale' = (IF ~x.old /\ x.sum < spent THEN [stale EXCEPT ![x.subject] = @ + 1]
                       ELSE stale)
       \/ Fault /\ UNCHANGED <<counter, stale>>
    /\ UNCHANGED <<lane, hits, trust, tokens, books, leaked>>

-----------------------------------------------------------------------------
(* The account's profile.                                                   *)

\* An account that has paid, or whose profile cannot be read, has no ceiling.
Enforce(r, profile) ==
    Becomes(r, IF req[r].served THEN [req[r] EXCEPT !.pc = "accrue", !.profile = "none"]
               ELSE IF profile = "ramp" THEN [Idle EXCEPT !.pc = "peek", !.subject = "account"]
               ELSE [Idle EXCEPT !.pc = "serving"])

GetTrust(r) ==
    /\ At(r, "trust")
    /\ IF "account" \notin lane \/ r \in Embeddings THEN GoTo(r, "serving") /\ Works
       ELSE \/ Works /\ IF trust = "none" THEN GoTo(r, "load") ELSE Enforce(r, trust)
            \/ Fault /\ GoTo(r, "load")
    /\ UNCHANGED <<lane, redis, books, past>>

LoadTrust(r) ==
    /\ At(r, "load")
    /\ \/ /\ Works /\ UNCHANGED leaked
          /\ Becomes(r, [req[r] EXCEPT !.pc = "keep", !.profile = IF paid THEN "paid" ELSE "ramp"])
       \/ /\ Fault /\ Enforce(r, "none")
          /\ IF req[r].served THEN UNCHANGED leaked ELSE Leak("account")
    /\ UNCHANGED <<lane, redis, books, stale>>

KeepTrust(r) ==
    /\ At(r, "keep") /\ Enforce(r, req[r].profile)
    /\ \/ Works /\ trust' = req[r].profile
       \/ Fault /\ UNCHANGED trust
    /\ UNCHANGED <<lane, hits, counter, tokens, books, past>>

-----------------------------------------------------------------------------
(* Serving and recording.                                                   *)

Answer(r) ==
    /\ At(r, "serving")
    /\ Becomes(r, [Idle EXCEPT !.pc = "record", !.served = TRUE]) \/ Becomes(r, Idle)
    /\ UNCHANGED <<lane, redis, books, past, bound>>

\* The row is flushed: its own session sees it, the others do not yet.
Record(r) ==
    /\ At(r, "record")
    /\ Becomes(r, [req[r] EXCEPT !.row = "flushed",
                                 !.pc = IF "fee" \in lane THEN "incr" ELSE "commit"])
    /\ UNCHANGED <<lane, redis, books, past, bound>>

\* The sum of the month as the session of r sees it.
MonthTokens(r) == IF req[r].row = "flushed" /\ ~req[r].old THEN spent + 1 ELSE spent

\* A bug: the sum is stored, not added.
CountedOver(r, n) ==
    IF req[r].old THEN tokens
    ELSE IF tokens = Absent \/ At(r, "topup") THEN n ELSE tokens + n

\* A request that began before the month ended counts on the old month's counter.
Counted(r, n) == IF req[r].old THEN tokens ELSE IF tokens = Absent THEN n ELSE tokens + n

IncrTokens(r) ==
    /\ At(r, "incr")
    /\ LET total == Counted(r, 1) IN
       \/ /\ Works /\ tokens' = total
          /\ Becomes(r, [req[r] EXCEPT !.pc = IF total = 1 THEN "reseed" ELSE "charge",
                                       !.sum = IF req[r].old THEN 0 ELSE total])
       \/ Fault /\ GoTo(r, "month") /\ UNCHANGED tokens
    /\ UNCHANGED <<lane, hits, counter, trust, books, past>>

\* A fresh counter is brought up to the ledger's sum.
ReadMonth(r) ==
    LET total == MonthTokens(r) IN
    /\ req[r].pc \in {"reseed", "month"}
    /\ Becomes(r, [req[r] EXCEPT !.sum = IF At(r, "reseed") /\ total <= 1 THEN 1 ELSE total,
                                 !.pc = IF At(r, "reseed") /\ total > 1 THEN "topup"
                                        ELSE "charge"])
    /\ UNCHANGED <<lane, redis, books, past, bound>>

TopUp(r) ==
    /\ At(r, "topup")
    /\ \/ Works /\ tokens' = Counted(r, req[r].sum - 1) /\ GoTo(r, "charge")
       \/ Fault /\ UNCHANGED tokens /\ GoTo(r, "month")
    /\ UNCHANGED <<lane, hits, counter, trust, books, past>>

\* The fee of a month is looked up by its trace id.
MayCharge(r) ==
    /\ At(r, "charge")
    /\ GoTo(r, IF req[r].sum < Threshold \/ fee \/ req[r].old THEN "commit" ELSE "insert")
    /\ UNCHANGED <<lane, redis, books, past, bound>>

Saved(r) == IF req[r].row = "flushed" /\ ~req[r].old THEN spent + 1 ELSE spent

\* The fee row is committed in the request's own session, and its usage row with
\* it; who loses the race for the fee row rolls both back.
InsertFee(r) ==
    LET wins == ~fee \/ req[r].old IN
    /\ At(r, "insert")
    /\ \/ /\ Works
          /\ Becomes(r, [req[r] EXCEPT !.pc = "commit", !.sum = 0,
                                       !.row = IF wins THEN "saved" ELSE "none"])
          /\ spent' = (IF wins THEN Saved(r) ELSE spent)
          /\ fee' = (fee \/ ~req[r].old)
       \/ Fault /\ Becomes(r, Idle) /\ UNCHANGED <<spent, fee>>
    /\ UNCHANGED <<lane, redis, paid, dropping, past>>

\* A commit that fails ends the task: spend the ledger holds already is added to
\* no counter then.
Commit(r) ==
    /\ At(r, "commit")
    /\ \/ /\ Works /\ spent' = Saved(r) /\ UNCHANGED leaked
          /\ Becomes(r, AskTrust(r, [req[r] EXCEPT !.row = "none", !.old = FALSE]))
       \/ /\ Fault /\ Becomes(r, Idle) /\ UNCHANGED spent
          /\ leaked' = (IF req[r].row = "saved" /\ ~req[r].old
                        THEN [s \in Subjects |-> leaked[s] + 1] ELSE leaked)
    /\ UNCHANGED <<lane, redis, fee, paid, dropping, stale>>

\* A bug: a counter that is missing is created.
IncrementedAlways(n) == IF n = Absent THEN 1 ELSE n + 1
\* What INCRBYFLOAT under EXISTS makes of a counter.
Incremented(n) == IF n = Absent THEN Absent ELSE n + 1

\* The spend is added to the counters that exist; an error leaves out any.
\* An embedding is not added to the account's.
Accrue(r) ==
    /\ At(r, "accrue") /\ Becomes(r, Idle)
    /\ \E applied \in SUBSET (lane \cap Subjects) :
         /\ \/ applied = (lane \cap Subjects) /\ Works
            \/ Fault
         /\ LET added == {s \in applied : s = "key" \/ r \notin Embeddings} IN
            /\ counter' = [s \in Subjects |->
                             IF s \in added THEN Incremented(counter[s]) ELSE counter[s]]
            /\ leaked' = [s \in Subjects |->
                             IF s \in added \cup (Subjects \ lane) THEN leaked[s]
                             ELSE leaked[s] + 1]
    /\ UNCHANGED <<lane, hits, trust, tokens, books, stale>>

-----------------------------------------------------------------------------
(* The rest of the world.                                                   *)

\* Time passes: the oldest request leaves a window.
Slide(w) ==
    /\ hits[w] > 0 /\ hits' = [hits EXCEPT ![w] = @ - 1]
    /\ UNCHANGED <<lane, counter, trust, tokens, books, req, past, bound>>

\* Redis loses a counter.
Evict(s) ==
    /\ counter[s] # Absent /\ Fault
    /\ counter' = [counter EXCEPT ![s] = Absent]
    /\ UNCHANGED <<lane, hits, trust, tokens, books, req, past>>

EvictTokens ==
    /\ tokens # Absent /\ Fault /\ tokens' = Absent
    /\ UNCHANGED <<lane, hits, counter, trust, books, req, past>>

\* The windows end.  A check that began decides on the sum of the old window;
\* a row that was written belongs to it.
Roll ==
    /\ rolls < MaxRolls /\ rolls' = rolls + 1
    /\ counter' = [s \in Subjects |-> Absent] /\ tokens' = Absent
    /\ spent' = 0 /\ fee' = FALSE
    /\ stale' = [s \in Subjects |-> 0] /\ leaked' = [s \in Subjects |-> 0]
    /\ req' = [r \in Requests |->
         IF req[r].pc \in {"get", "sum", "seed"}
         THEN [req[r] EXCEPT !.pc = "seed", !.old = TRUE,
                             !.sum = IF At(r, "seed") THEN @ ELSE spent]
         ELSE IF req[r].row # "none" THEN [req[r] EXCEPT !.old = TRUE]
         ELSE req[r]]
    /\ UNCHANGED <<lane, hits, trust, paid, dropping, faults>>

\* The backend books a payment and then drops the cached profile, if it can.
Pay ==
    /\ "account" \in lane /\ ~paid /\ paid' = TRUE /\ dropping' = TRUE
    /\ UNCHANGED <<lane, redis, spent, fee, req, past, bound>>

DropTrust ==
    /\ dropping /\ dropping' = FALSE
    /\ \/ Works /\ trust' = "none"
       \/ Fault /\ UNCHANGED trust
    /\ UNCHANGED <<lane, hits, counter, tokens, spent, fee, paid, req, past>>

\* A bug: the profile is kept for good.
EndsNever == FALSE
\* The profile is cached with a time to live.
Ends == trust # "none"

ExpireTrust ==
    /\ Ends /\ trust' = "none"
    /\ UNCHANGED <<lane, hits, counter, tokens, books, req, past, bound>>

World ==
    \/ \E w \in Windows : Slide(w)
    \/ \E s \in Subjects : Evict(s)
    \/ EvictTokens \/ Roll \/ Pay \/ DropTrust \/ ExpireTrust

Proceed(r) ==
    \/ CountHits(r) \/ AddHit(r)
    \/ GetCounter(r) \/ SumLedger(r) \/ Seed(r)
    \/ GetTrust(r) \/ LoadTrust(r) \/ KeepTrust(r)
    \/ Answer(r) \/ Record(r) \/ IncrTokens(r) \/ ReadMonth(r) \/ TopUp(r)
    \/ MayCharge(r) \/ InsertFee(r) \/ Commit(r) \/ Accrue(r)

Next == (\E r \in Requests : Arrive(r) \/ Proceed(r)) \/ World

Spec == Init /\ [][Next]_vars

\* A request that began ends, and the cached profile expires.
Fairness == (\A r \in Requests : WF_vars(Proceed(r))) /\ WF_vars(ExpireTrust)

FairSpec == Spec /\ Fairness

-----------------------------------------------------------------------------
(* A budget is overshot by the requests in flight ("bounded in-flight        *)
(* overage", services/policy.py:17), and once more for every counter that    *)
(* was set below what the ledger held by then, and for spend that never      *)
(* reached the counter or was not checked against it.                       *)
OvershootBounded ==
    \A s \in Subjects \cap lane :
        (s = "account" => ~paid)
        => spent <= (Limit[s] + Cardinality(Requests) - 1) * (1 + stale[s]) + leaked[s]

\* A window of the rate limiter is overfilled only by callers that counted it
\* before the others added themselves (services/rate_limiter.py:101, :127).
RateBounded ==
    /\ hits["minute"] < MinuteLimit + Cardinality(Requests)
    /\ hits["hour"] < HourLimit + Cardinality(Requests)

\* While no command fails, an account whose recorded tokens reach the threshold
\* has its fee once nothing is being recorded, whoever found the counter missing
\* and whatever was counted meanwhile (services/platform_fee.py:120).
FeeOwed ==
    "fee" \in lane /\ faults = 0 /\ spent >= Threshold
      /\ (\A r \in Requests : req[r].row # "flushed")
    => fee

RefusedByCeiling(r) ==
    /\ req[r].subject = "account" /\ req[r].pc \in {"peek", "get", "sum", "seed"}
    /\ req'[r].pc = "idle"

\* A payment lifts the account's ceiling for good (services/account_trust.py:18),
\* also when the profile was read before it and cached after it was dropped, or
\* when the call that drops it is lost.
PaidLifts == <>paid => <>[][\A r \in Requests : ~RefusedByCeiling(r)]_vars
=============================================================================
