------------------------------ MODULE KeyAccess ------------------------------
(***************************************************************************)
(* Who may use an API key: the validation of a key on the request path      *)
(* (api/deps.py, services/api_key.py), with its cache in Redis and the      *)
(* cached hold of the account, against the transactions that mint, edit and *)
(* revoke keys, suspend the account and lift the suspension, and against    *)
(* the abuse detector, which revokes and suspends in one long transaction.  *)
(*                                                                         *)
(* One account.  One Redis command, one SQL statement or one HTTP exchange  *)
(* is one action.  Sessions read what is committed; a written row is locked *)
(* until its transaction ends.  A policy is the number of edits behind it.  *)
(***************************************************************************)
EXTENDS Naturals, FiniteSets

CONSTANTS
    Keys,         \* the keys of one account
    Minted,       \* those that exist from the start
    Expiring,     \* those with an expiry
    Off,          \* those whose capture policy is {"mode": "off"}
    Requests,     \* callers, one request after another
    Admins,       \* callers of the management routes
    Findings,     \* what the abuse detector sees: keys and the account
    Detector,     \* its loop
    Account,      \* the account as a row of user_suspensions
    NoKey,        \* no key, and no entry in a cache
    MaxEdits,     \* bound: management calls and changes of the hold
    MaxFaults     \* bound: failed commands, lookups and transactions

ASSUME KeyAccessAssumption ==
    /\ Minted \subseteq Keys /\ Expiring \subseteq Keys /\ Off \subseteq Keys
    /\ Findings \subseteq Keys \cup {Account}
    /\ Detector \notin Admins /\ Account \notin Keys /\ NoKey \notin Keys
    /\ MaxEdits \in Nat /\ MaxFaults \in Nat

VARIABLES
    row,       \* api_keys, committed
    account,   \* the row in user_suspensions: "none", "active" or "lifted"
    hold,      \* users.hold_reason is set
    lapsed,    \* the keys whose expires_at has passed
    events,    \* abuse_events, committed
    auth,      \* Redis: the policy cached for a key, or NoKey
    holdCache, \* Redis: "none", "held" or "free"
    messages,  \* invalidations published and not yet handled
    req,       \* the requests
    txn,       \* the transactions of admins and of the detector
    told,      \* what the owner was told was revoked or suspended
    edits, faults

db    == <<row, account, events>>
cache == <<auth, holdCache, messages>>
bound == <<edits, faults>>
vars  == <<row, account, hold, lapsed, events, auth, holdCache, messages, req,
           txn, told, edits, faults>>

Actors    == Admins \cup {Detector}
Policies  == 0 .. MaxEdits
Row       == [minted : BOOLEAN, active : BOOLEAN, revoked : BOOLEAN, policy : Policies]
Idle      == [pc |-> "idle", key |-> NoKey, policy |-> 0, captures |-> FALSE]
NoTxn     == [pc |-> "idle", op |-> "none", on |-> NoKey, seen |-> "none",
              left |-> {}, dirty |-> << >>, noted |-> {}]

\* One state type for every variable.
TypeOK ==
    /\ row \in [Keys -> Row]
    /\ account \in {"none", "active", "lifted"}
    /\ hold \in BOOLEAN /\ lapsed \subseteq Keys
    /\ events \subseteq Findings /\ told \subseteq Findings
    /\ auth \in [Keys -> Policies \cup {NoKey}]
    /\ holdCache \in {"none", "held", "free"}
    /\ messages \subseteq Keys
    /\ req \in [Requests -> [pc : {"idle", "cached", "select", "suspension", "store", "hold",
                                   "reason", "keep free", "keep held", "admitted"},
                             key : Keys \cup {NoKey}, policy : Policies,
                             captures : BOOLEAN]]
    /\ \A a \in Actors :
         /\ txn[a].pc \in {"idle", "look", "write", "purge", "notify", "commit"}
         /\ DOMAIN txn[a].dirty \subseteq Keys \cup {Account}
    /\ edits \in 0 .. MaxEdits /\ faults \in 0 .. MaxFaults

Init ==
    /\ row = [k \in Keys |-> [minted |-> k \in Minted, active |-> k \in Minted,
                              revoked |-> FALSE, policy |-> 0]]
    /\ account = "none" /\ hold = FALSE /\ lapsed = {} /\ events = {}
    /\ auth = [k \in Keys |-> NoKey] /\ holdCache = "none" /\ messages = {}
    /\ req = [r \in Requests |-> Idle]
    /\ txn = [a \in Actors |-> NoTxn]
    /\ told = {} /\ edits = 0 /\ faults = 0

\* A Redis command, a lookup or a statement fails.
Fault == faults < MaxFaults /\ faults' = faults + 1

\* Every command is tried: it works, or it fails and costs one fault.
Works == UNCHANGED faults

-----------------------------------------------------------------------------
(* Validation: get_current_api_key, validate_key and held.                  *)

At(r, pc) == req[r].pc = pc
GoTo(r, pc) == req' = [req EXCEPT ![r].pc = pc]
Refuse(r) == req' = [req EXCEPT ![r] = Idle]
Admit(r) == GoTo(r, "admitted")

Ask(r, k) ==
    /\ At(r, "idle") \/ At(r, "admitted")
    /\ req' = [req EXCEPT ![r] = [Idle EXCEPT !.pc = "cached", !.key = k]]
    /\ UNCHANGED <<db, hold, lapsed, cache, txn, told, bound>>

\* Whether the bodies of a request are kept, on a deployment that captures by
\* default: not those of a key that reads as off.
Captures(off) == ~off

\* A hit is the key as it was cached; the entry has no capture policy.
GetCachedKey(r) ==
    LET k == req[r].key IN
    /\ At(r, "cached")
    /\ IF auth[k] = NoKey THEN GoTo(r, "select") /\ UNCHANGED auth
       ELSE IF k \in lapsed
       THEN Refuse(r) /\ auth' = [auth EXCEPT ![k] = NoKey]
       ELSE /\ req' = [req EXCEPT ![r].pc = "hold", ![r].policy = auth[k],
                                  ![r].captures = Captures(FALSE)]
            /\ UNCHANGED auth
    /\ Works /\ UNCHANGED <<db, hold, lapsed, holdCache, messages, txn, told, edits>>

CacheGetFails(r) ==
    /\ At(r, "cached") /\ Fault /\ GoTo(r, "select")
    /\ UNCHANGED <<db, hold, lapsed, cache, txn, told, edits>>

\* A bug: a key that was revoked comes back when it is set active again.
UsableIfActive(x) == x.minted /\ x.active
Usable(x) == x.minted /\ x.active /\ ~x.revoked

SelectKey(r) ==
    LET k == req[r].key IN
    /\ At(r, "select")
    /\ IF Usable(row[k])
       THEN req' = [req EXCEPT ![r].pc = "suspension", ![r].policy = row[k].policy,
                               ![r].captures = Captures(k \in Off)]
       ELSE Refuse(r)
    /\ UNCHANGED <<db, hold, lapsed, cache, txn, told, bound>>

\* A suspended account and an expired key are refused and never cached.
ActiveSuspension(r) ==
    /\ At(r, "suspension")
    /\ IF account = "active" \/ req[r].key \in lapsed
       THEN Refuse(r) ELSE GoTo(r, "store")
    /\ UNCHANGED <<db, hold, lapsed, cache, txn, told, bound>>

CacheKey(r) ==
    /\ At(r, "store") /\ GoTo(r, "hold")
    /\ \/ Works /\ auth' = [auth EXCEPT ![req[r].key] = req[r].policy]
       \/ Fault /\ UNCHANGED auth
    /\ UNCHANGED <<db, hold, lapsed, holdCache, messages, txn, told, edits>>

GetHold(r) ==
    /\ At(r, "hold")
    /\ \/ /\ Works
          /\ \/ holdCache = "none" /\ GoTo(r, "reason")
             \/ holdCache = "held" /\ Refuse(r)
             \/ holdCache = "free" /\ Admit(r)
       \/ Fault /\ GoTo(r, "reason")
    /\ UNCHANGED <<db, hold, lapsed, cache, txn, told, edits>>

\* A lookup that fails holds nobody.
HoldReason(r) ==
    /\ At(r, "reason")
    /\ \/ Works /\ GoTo(r, IF hold THEN "keep held" ELSE "keep free")
       \/ Fault /\ GoTo(r, "keep free")
    /\ UNCHANGED <<db, hold, lapsed, cache, txn, told, edits>>

KeepHold(r) ==
    /\ req[r].pc \in {"keep held", "keep free"}
    /\ IF At(r, "keep held") THEN Refuse(r) ELSE Admit(r)
    /\ \/ Works /\ holdCache' = (IF At(r, "keep held") THEN "held" ELSE "free")
       \/ Fault /\ UNCHANGED holdCache
    /\ UNCHANGED <<db, hold, lapsed, auth, messages, txn, told, edits>>

Validate(r) ==
    \/ GetCachedKey(r) \/ CacheGetFails(r) \/ SelectKey(r) \/ ActiveSuspension(r)
    \/ CacheKey(r) \/ GetHold(r) \/ HoldReason(r) \/ KeepHold(r)

-----------------------------------------------------------------------------
(* Transactions.  An admin's is one operation; the detector's is one for    *)
(* each of its findings, committed together.                                *)

Begin(a, op, on) ==
    /\ a \in Admins /\ txn[a].pc = "idle" /\ edits < MaxEdits
    /\ edits' = edits + 1
    /\ txn' = [txn EXCEPT ![a] = [NoTxn EXCEPT !.pc = "look", !.op = op, !.on = on]]
    /\ UNCHANGED <<db, hold, lapsed, cache, req, told, faults>>

CreateKey(a, k)   == Begin(a, "create", k)
RevokeKey(a, k)   == Begin(a, "revoke", k)
UpdateKey(a, k)   == \E op \in {"pause", "resume", "policy"} : Begin(a, op, k)
SuspendUser(a)    == Begin(a, "suspend", Account)
LiftSuspension(a) == Begin(a, "lift", Account)

Call(a) ==
    \/ \E k \in Keys : CreateKey(a, k) \/ RevokeKey(a, k) \/ UpdateKey(a, k)
    \/ SuspendUser(a) \/ LiftSuspension(a)

Known(f) == f \in events
First(todo) == CHOOSE f \in todo : f = Account => todo = {Account}

\* What the detector does next: the findings it has not acted on, keys first.
Todo(noted) == {f \in Findings \ noted : ~Known(f)}
Ahead(a, noted) ==
    IF a \in Admins \/ Todo(noted) = {}
    THEN [txn[a] EXCEPT !.pc = "commit", !.noted = noted]
    ELSE LET f == First(Todo(noted)) IN
         [txn[a] EXCEPT !.pc = "look", !.on = f, !.noted = noted,
                        !.op = IF f = Account THEN "suspend" ELSE "revoke"]

Tick(a) ==
    /\ a = Detector /\ txn[a].pc = "idle" /\ Todo({}) # {}
    /\ txn' = [txn EXCEPT ![a] = [Ahead(a, {}) EXCEPT !.dirty = << >>, !.left = {}]]
    /\ UNCHANGED <<db, hold, lapsed, cache, req, told, bound>>

\* What the operation finds: it answers 404, 409 or 403, or goes on to write.
Refused(a, op, on) ==
    \/ op = "create" /\ (row[on].minted \/ hold)
    \/ op \in {"revoke", "pause", "resume", "policy"} /\ ~row[on].minted
    \/ op = "revoke" /\ a # Detector /\ row[on].revoked
    \/ op = "revoke" /\ a = Detector /\ ~row[on].active
    \/ op = "suspend" /\ a = Detector /\ account = "active"
    \/ op = "lift" /\ account # "active"

Look(a) ==
    LET t == txn[a] IN
    /\ t.pc = "look"
    /\ IF Refused(a, t.op, t.on)
       THEN txn' = [txn EXCEPT ![a] = IF a \in Admins THEN NoTxn
                                      ELSE Ahead(a, t.noted \cup {t.on})]
       ELSE txn' = [txn EXCEPT ![a].pc = "write",
                               ![a].seen = IF t.on = Account THEN account ELSE row[t.on]]
    /\ UNCHANGED <<db, hold, lapsed, cache, req, told, bound>>

Locked(a, on) == \E b \in Actors \ {a} : on \in DOMAIN txn[b].dirty

\* The columns an operation changes: what it sets to the value it read stays
\* as it is.  Suspending an account that read as suspended leaves lifted_at.
Minting(x)       == [x EXCEPT !.minted = TRUE, !.active = TRUE]
Revoking(x)      == [x EXCEPT !.active = FALSE, !.revoked = TRUE]
Updating(x, t)   ==
    CASE t.op = "pause" /\ t.seen.active   -> [x EXCEPT !.active = FALSE]
      [] t.op = "resume" /\ ~t.seen.active -> [x EXCEPT !.active = TRUE]
      [] t.op = "policy"                   -> [x EXCEPT !.policy = edits]
      [] OTHER                             -> x
Suspending(t)    == IF t.seen = "active" THEN account ELSE "active"

Written(t) ==
    CASE t.op = "create"  -> Minting(row[t.on])
      [] t.op = "revoke"  -> Revoking(row[t.on])
      [] t.op = "suspend" -> Suspending(t)
      [] t.op = "lift"    -> "lifted"
      [] OTHER            -> Updating(row[t.on], t)

\* A mint has nothing cached; a suspension concerns every key of the account.
Purges(t) ==
    CASE t.op = "create" -> {}
      [] t.on = Account  -> {k \in Keys : row[k].minted}
      [] OTHER           -> {t.on}

\* The flush waits for a row another transaction wrote, and fails when a row it
\* read as missing has appeared.
Write(a) ==
    LET t == txn[a] IN
    /\ t.pc = "write" /\ ~Locked(a, t.on)
    /\ IF t.op = "suspend" /\ t.seen = "none" /\ account # "none"
       THEN txn' = [txn EXCEPT ![a] = NoTxn]
       ELSE txn' = [txn EXCEPT ![a].pc = "purge", ![a].left = Purges(t),
                      ![a].dirty = [x \in DOMAIN t.dirty \cup {t.on} |->
                                      IF x = t.on THEN Written(t) ELSE t.dirty[x]],
                      ![a].seen = "none"]
    /\ UNCHANGED <<db, hold, lapsed, cache, req, told, bound>>

\* The cached key is deleted, and the others are told to; the detector's
\* service has no publisher.  A failed delete is logged.
Purge(a, k) ==
    /\ txn[a].pc = "purge" /\ k \in txn[a].left
    /\ txn' = [txn EXCEPT ![a].left = @ \ {k}]
    /\ \/ Works /\ auth' = [auth EXCEPT ![k] = NoKey]
       \/ Fault /\ UNCHANGED auth
    /\ messages' = IF a \in Admins THEN messages \cup {k} ELSE messages
    /\ UNCHANGED <<db, hold, lapsed, holdCache, req, told, edits>>

Purged(a) ==
    /\ txn[a].pc = "purge" /\ txn[a].left = {}
    /\ txn' = [txn EXCEPT ![a].pc = IF a = Detector THEN "notify" ELSE "commit"]
    /\ UNCHANGED <<db, hold, lapsed, cache, req, told, bound>>

\* notify_owner: the backend mails the owner, before anything is committed.
Notify(a) ==
    /\ txn[a].pc = "notify"
    /\ txn' = [txn EXCEPT ![a] = Ahead(a, txn[a].noted \cup {txn[a].on})]
    /\ \/ Works /\ told' = told \cup {txn[a].on}
       \/ Fault /\ UNCHANGED told
    /\ UNCHANGED <<db, hold, lapsed, cache, req, edits>>

Commit(a) ==
    LET t == txn[a] IN
    /\ t.pc = "commit"
    /\ row' = [k \in Keys |-> IF k \in DOMAIN t.dirty THEN t.dirty[k] ELSE row[k]]
    /\ account' = IF Account \in DOMAIN t.dirty THEN t.dirty[Account] ELSE account
    /\ events' = events \cup t.noted
    /\ txn' = [txn EXCEPT ![a] = NoTxn]
    /\ UNCHANGED <<hold, lapsed, cache, req, told, bound>>

\* A bug: the findings are written on a session of their own.
RememberedAtOnce(t) == t.noted
\* What a rolled back transaction leaves of the detector's notes.
Remembered(t) == {}

\* A statement, the commit or the process fails: everything is rolled back.
Abort(a) ==
    /\ txn[a].pc # "idle" /\ Fault
    /\ txn' = [txn EXCEPT ![a] = NoTxn]
    /\ events' = events \cup Remembered(txn[a])
    /\ UNCHANGED <<row, account, hold, lapsed, cache, req, told, edits>>

Transact(a) ==
    \/ Look(a) \/ Write(a) \/ Purged(a) \/ Notify(a) \/ Commit(a)
    \/ \E k \in Keys : Purge(a, k)

-----------------------------------------------------------------------------
(* The rest of the world.                                                   *)

\* A subscriber deletes the key again; a message may be lost while it is away.
Deliver(k) ==
    /\ k \in messages /\ messages' = messages \ {k}
    /\ \/ Works /\ auth' = [auth EXCEPT ![k] = NoKey]
       \/ Fault /\ UNCHANGED auth
    /\ UNCHANGED <<db, hold, lapsed, holdCache, req, txn, told, edits>>

\* A bug: each hit renews the entry, so that one in use never ends.
EndsWhenUnused(k) == auth[k] # NoKey /\ \A r \in Requests : req[r].key # k
\* How long an entry lives: SETEX sets it once, a hit does not renew it.
Ends(k) == auth[k] # NoKey

Expire(k) ==
    /\ Ends(k) /\ auth' = [auth EXCEPT ![k] = NoKey]
    /\ UNCHANGED <<db, hold, lapsed, holdCache, messages, req, txn, told, bound>>

ExpireHold ==
    /\ holdCache # "none" /\ holdCache' = "none"
    /\ UNCHANGED <<db, hold, lapsed, auth, messages, req, txn, told, bound>>

Lapse(k) ==
    /\ k \in Expiring \ lapsed /\ row[k].minted /\ lapsed' = lapsed \cup {k}
    /\ UNCHANGED <<db, hold, cache, req, txn, told, bound>>

\* The backend's scorer holds the account.
PutHold ==
    /\ ~hold /\ edits < MaxEdits /\ hold' = TRUE /\ edits' = edits + 1
    /\ UNCHANGED <<db, lapsed, cache, req, txn, told, faults>>

\* The backend releases the hold and drops the cached one.
ReleaseHold ==
    /\ hold /\ hold' = FALSE /\ holdCache' = "none"
    /\ UNCHANGED <<db, lapsed, auth, messages, req, txn, told, bound>>

World ==
    \/ \E k \in Keys : Deliver(k) \/ Expire(k) \/ Lapse(k)
    \/ ExpireHold \/ PutHold \/ ReleaseHold

Next ==
    \/ \E r \in Requests : (\E k \in Keys : Ask(r, k)) \/ Validate(r)
    \/ \E a \in Actors : Call(a) \/ Tick(a) \/ Transact(a) \/ Abort(a)
    \/ World

Spec == Init /\ [][Next]_vars

\* Validations and transactions that began end, the detector ticks, subscribers
\* listen and Redis expires what has a time to live.  New requests, calls, holds
\* and faults are never due.
Fairness ==
    /\ \A r \in Requests : WF_vars(Validate(r))
    /\ \A a \in Actors : WF_vars(Transact(a))
    /\ WF_vars(Tick(Detector))
    /\ \A k \in Keys : WF_vars(Deliver(k)) /\ WF_vars(Expire(k))
    /\ WF_vars(ExpireHold)

FairSpec == Spec /\ Fairness

-----------------------------------------------------------------------------
(* What the committed rows say of a key.                                    *)
Granted(k) == Usable(row[k]) /\ account # "active" /\ k \notin lapsed /\ ~hold

Validating(r) == req[r].pc \notin {"idle", "admitted"}
Refuses(r) == Validating(r) /\ req'[r].pc = "idle"
Admits(r)  == Validating(r) /\ req'[r].pc = "admitted"

\* Once nothing is changed any more, every answer becomes what the committed
\* rows say and stays so: a revocation, suspension, hold or new policy that was
\* overtaken by a fill of the cache (services/api_key.py:226), a lost message
\* or a failed delete bites in the end, and a lifted one lets the caller in.
Settles ==
    <>[][\A r \in Requests :
            /\ Refuses(r) => ~Granted(req[r].key)
            /\ Admits(r)  => /\ Granted(req[r].key)
                             /\ req[r].policy = row[req[r].key].policy]_vars

\* No request in progress carries the key and no cache holds it.
Gone(k) ==
    /\ row[k].revoked /\ auth[k] = NoKey
    /\ \A r \in Requests : req[r].key = k => req[r].pc \in {"cached", "select"}

\* A key that was revoked and is out of the cache and of every validation in
\* progress is never let in again, whatever is edited, resumed, lifted or
\* purged afterwards ("It cannot be reactivated", api/v1/keys.py:335).
RevokedForGood == [][\A k \in Keys : Gone(k) => Gone(k)']_vars

\* What the owner was told becomes so: the detector notifies before it commits
\* (services/abuse_detector.py:392), and a tick that is rolled back must find
\* the same again.
ToldComesTrue ==
    \A f \in Findings :
        f \in told ~> IF f = Account THEN account # "none" ELSE ~Usable(row[f])

\* "an explicit off key NEVER captures" (src/tests/unit/test_capture_policy.py:4):
\* no request made with such a key is captured.
OffNeverCaptures ==
    \A r \in Requests :
        req[r].pc = "admitted" /\ req[r].key \in Off => ~req[r].captures
=============================================================================
