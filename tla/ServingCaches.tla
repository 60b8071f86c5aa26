--------------------------- MODULE ServingCaches ---------------------------
(***************************************************************************)
(* What the pods hold in memory of the tables they serve from: models      *)
(* (services/router.py), prices (services/pricing.py), router tags, the    *)
(* listing of models and the runtime settings (services/runtime_settings). *)
(* Some are also kept in Redis.  Entries expire; an operator's change is   *)
(* committed, then dropped from the caches here and in Redis, then told to *)
(* the other pods over pub/sub (core/cache.py), which is lost by whoever   *)
(* is not subscribed at that moment.  A catalog reconcile tells nobody.    *)
(*                                                                         *)
(* A behaviour follows one row of one kind.  It reads 1 or 2; of a model,  *)
(* 1 means served and 2 paused or retired.  Time passes in ticks.          *)
(***************************************************************************)
EXTENDS Fleet, Naturals, FiniteSets

CONSTANTS
    LocalTTL,    \* ticks a TTLCache entry lives
    SharedTTL,   \* ticks a Redis entry lives
    Latency      \* ticks a request may take from reading a row to keeping it

ASSUME CachesAssumption ==
    /\ LocalTTL \in Nat \ {0}
    /\ SharedTTL \in Nat \ {0}
    /\ Latency \in Nat

VARIABLES
    what,     \* the kind followed
    row,      \* what the table says
    gone,     \* ticks since the table stopped saying it, 0 for what it says
    local,    \* each pod's entry
    shared,   \* the entry in Redis
    reads,    \* a request of each pod on its way to the row
    ops,      \* an operator's call on each pod
    ear,      \* each pod's subscription: "down", "deaf", "open"
    inbox,    \* an invalidation is on its way to the pod
    missed,   \* history: the pod may be behind, for an invalidation did not
              \* reach it or it failed to load the settings
    raced     \* history: a copy read before the last pause may be kept after it

cacheVars == <<what, row, gone, local, shared, reads, ops, ear, inbox,
               missed, raced>>

Kinds == {"model", "price", "route", "list", "setting"}
InMemory(k) == k \in {"model", "price", "route"}
InRedis(k) == k \in {"model", "price", "list"}

\* The kinds of which it matters who was told: of the others a message that
\* is lost leaves a pod as a publish that fails does, and a crash only
\* forgets.
Told(k) == k \in {"model", "setting"}
Served == 1
Paused == 2

Empty == [val |-> 0, left |-> 0]
Entry(v, ttl) == [val |-> v, left |-> ttl]
NoRead == [pc |-> "idle", val |-> 0, age |-> 0]
NoOp == [pc |-> "none", val |-> 0]

\* Ticks are counted up to Longest, and for what may be kept at all.
Longest == IF what = "price" THEN 2 * Latency + LocalTTL + SharedTTL
           ELSE Latency + (IF LocalTTL < SharedTTL THEN SharedTTL ELSE LocalTTL)
Counted(v) == ~(what = "model" /\ v = Paused) /\ what # "setting"

CachesInit ==
    /\ what \in Kinds
    /\ row = Served
    /\ gone = [v \in {1, 2} |-> IF v = row THEN 0 ELSE Longest]
    /\ local = [p \in Pods |-> IF what = "setting" THEN Entry(row, 1) ELSE Empty]
    /\ shared = Empty
    /\ reads = [p \in Pods |-> NoRead]
    /\ ops = [p \in Pods |-> NoOp]
    /\ ear = [p \in Pods |-> "open"]
    /\ inbox = [p \in Pods |-> FALSE]
    /\ missed = [p \in Pods |-> FALSE]
    /\ raced = FALSE

-----------------------------------------------------------------------------
(* A request looks in the pod's memory, in Redis and in the table.          *)

\* A live entry in memory answers at once and changes nothing.
LookUp(p, kind, next) ==
    /\ ear[p] # "down"
    /\ what = kind
    /\ reads[p] = NoRead
    /\ local[p] = Empty
    /\ reads' = [reads EXCEPT ![p].pc = next]
    /\ UNCHANGED <<what, row, gone, local, shared, ops, ear, inbox, missed, raced>>

GetModel(p) == LookUp(p, "model", "redis")
GetPricing(p) == LookUp(p, "price", "redis")
ListModels(p) == LookUp(p, "list", "redis")
ResolveMetaModel(p) == LookUp(p, "route", "table")

\* load_routing_table, by the background loop, whatever memory holds.
RefreshRoutes(p) ==
    /\ ear[p] # "down"
    /\ what = "route"
    /\ reads[p] = NoRead
    /\ reads' = [reads EXCEPT ![p].pc = "table"]
    /\ UNCHANGED <<what, row, gone, local, shared, ops, ear, inbox, missed, raced>>

\* A bug: a copy found in Redis is kept in memory, whatever its kind.
AskRedisRefilling(p) ==
    /\ reads[p].pc = "redis"
    /\ \/ /\ shared # Empty
          /\ reads' = [reads EXCEPT ![p] =
                [pc |-> "refill", val |-> shared.val, age |-> 0]]
       \/ reads' = [reads EXCEPT ![p].pc = "table"]
    /\ UNCHANGED <<what, row, gone, local, shared, ops, ear, inbox, missed, raced>>

\* _get_from_redis: a hit is served, and of a price also kept in memory; an
\* error is a miss.
AskRedis(p) ==
    /\ reads[p].pc = "redis"
    /\ \/ /\ shared # Empty
          /\ reads' = [reads EXCEPT ![p] =
                IF what = "price" THEN [pc |-> "refill", val |-> shared.val, age |-> 0]
                ELSE NoRead]
       \/ reads' = [reads EXCEPT ![p].pc = "table"]
    /\ UNCHANGED <<what, row, gone, local, shared, ops, ear, inbox, missed, raced>>

\* The table is read; a model that is paused or retired is refused and kept
\* nowhere.
AskTable(p) ==
    /\ reads[p].pc = "table"
    /\ reads' = [reads EXCEPT ![p] =
          IF what = "model" /\ row = Paused THEN NoRead
          ELSE [pc |-> IF InMemory(what) THEN "keep" ELSE "share",
                val |-> row, age |-> 0]]
    /\ UNCHANGED <<what, row, gone, local, shared, ops, ear, inbox, missed, raced>>

\* TTLCache.set with what was read.
KeepLocal(p) ==
    /\ reads[p].pc \in {"keep", "refill"}
    /\ local' = [local EXCEPT ![p] = Entry(reads[p].val, LocalTTL)]
    /\ reads' = [reads EXCEPT ![p] =
          IF @.pc = "keep" /\ InRedis(what) THEN [@ EXCEPT !.pc = "share"]
          ELSE NoRead]
    /\ UNCHANGED <<what, row, gone, shared, ops, ear, inbox, missed, raced>>

\* _set_to_redis, whose errors are logged.
KeepShared(p) ==
    /\ reads[p].pc = "share"
    /\ shared' \in {shared, Entry(reads[p].val, SharedTTL)}
    /\ reads' = [reads EXCEPT ![p] = NoRead]
    /\ UNCHANGED <<what, row, gone, local, ops, ear, inbox, missed, raced>>

-----------------------------------------------------------------------------
(* Changes of the row, and what is told about them.                         *)

Commit(v) ==
    /\ row' = v
    /\ gone' = IF Counted(v) THEN [gone EXCEPT ![v] = 0] ELSE gone

\* A catalog reconcile commits; it drops and publishes nothing.
ReconcileRow ==
    /\ what # "setting"
    /\ Commit(3 - row)
    /\ raced' = (what = "model")
    /\ UNCHANGED <<what, local, shared, reads, ops, ear, inbox, missed>>

\* set_model_pause commits.
SetModelPause(p, v) ==
    /\ ear[p] # "down"
    /\ what = "model"
    /\ ops[p] = NoOp
    /\ Commit(v)
    /\ raced' = \E q \in Pods : reads[q].val # 0
    /\ ops' = [ops EXCEPT ![p].pc = "local"]
    /\ UNCHANGED <<what, local, shared, reads, ear, inbox, missed>>

\* update_runtime_setting: set_meta commits.
ChangeSetting(p) ==
    /\ ear[p] # "down"
    /\ what = "setting"
    /\ ops[p] = NoOp
    /\ Commit(3 - row)
    /\ ops' = [ops EXCEPT ![p] = [pc |-> "store", val |-> 3 - row]]
    /\ UNCHANGED <<what, local, shared, reads, ear, inbox, missed, raced>>

\* set_value applies its own value to the pod's store.
StoreSetting(p) ==
    /\ ops[p].pc = "store"
    /\ local' = [local EXCEPT ![p] = Entry(ops[p].val, 1)]
    /\ ops' = [ops EXCEPT ![p] = [pc |-> "publish", val |-> 0]]
    /\ UNCHANGED <<what, row, gone, shared, reads, ear, inbox, missed, raced>>

\* invalidate_cache, without a change of its own.
InvalidateCache(p) ==
    /\ ear[p] # "down"
    /\ what \in {"price", "route"}
    /\ ops[p] = NoOp
    /\ ops' = [ops EXCEPT ![p].pc = "local"]
    /\ UNCHANGED <<what, row, gone, local, shared, reads, ear, inbox, missed, raced>>

\* A bug: only memory is cleared.
ClearLocalOnly(p) ==
    /\ ops[p].pc = "local"
    /\ local' = [local EXCEPT ![p] = Empty]
    /\ ops' = [ops EXCEPT ![p].pc = "publish"]
    /\ UNCHANGED <<what, row, gone, shared, reads, ear, inbox, missed, raced>>

\* clear_all_caches: the pod's own memory, then Redis, where an error ends
\* the call before anybody is told.
ClearLocal(p) ==
    /\ ops[p].pc = "local"
    /\ local' = [local EXCEPT ![p] = Empty]
    /\ ops' = [ops EXCEPT ![p].pc = IF InRedis(what) THEN "redis" ELSE "publish"]
    /\ UNCHANGED <<what, row, gone, shared, reads, ear, inbox, missed, raced>>

ClearShared(p) ==
    /\ ops[p].pc = "redis"
    /\ \/ /\ shared' = Empty
          /\ ops' = [ops EXCEPT ![p].pc = "publish"]
          /\ UNCHANGED <<missed, raced>>
       \/ /\ ops' = [ops EXCEPT ![p] = NoOp]
          /\ missed' = [q \in Pods |-> Told(what)]
          /\ raced' = (what = "model")
          /\ UNCHANGED shared
    /\ UNCHANGED <<what, row, gone, local, reads, ear, inbox>>

\* publish: Redis hands the message to those subscribed, the sender's own
\* listener included; an error is logged.
Publish(p) ==
    /\ ops[p].pc = "publish"
    /\ ops' = [ops EXCEPT ![p] = NoOp]
    /\ \E reached \in {{q \in Pods : ear[q] = "open"}, {}} :
          /\ inbox' = [q \in Pods |-> inbox[q] \/ q \in reached]
          /\ missed' = [q \in Pods |->
                Told(what) /\ (missed[q] \/ q \notin reached)]
    /\ UNCHANGED <<what, row, gone, local, shared, reads, ear, raced>>

\* A bug: a message that comes while the settings are read is dropped.
HandleOnce(p) ==
    /\ inbox[p]
    /\ IF what = "setting"
       THEN /\ reads' = [reads EXCEPT ![p] =
                  IF @ = NoRead THEN [pc |-> "load", val |-> row, age |-> 0] ELSE @]
            /\ UNCHANGED local
       ELSE /\ local' = [local EXCEPT ![p] = Empty]
            /\ UNCHANGED reads
    /\ inbox' = [inbox EXCEPT ![p] = FALSE]
    /\ missed' = [missed EXCEPT ![p] = FALSE]
    /\ UNCHANGED <<what, row, gone, shared, ops, ear, raced>>

\* The handler registered for the target: a cache is cleared, the settings
\* are read again.  The message is gone, whatever becomes of the reading.
Handle(p) ==
    /\ inbox[p]
    /\ IF what = "setting"
       THEN /\ reads[p] = NoRead
            /\ reads' = [reads EXCEPT ![p] = [pc |-> "load", val |-> row, age |-> 0]]
            /\ UNCHANGED local
       ELSE /\ local' = [local EXCEPT ![p] = Empty]
            /\ UNCHANGED reads
    /\ inbox' = [inbox EXCEPT ![p] = FALSE]
    /\ missed' = [missed EXCEPT ![p] = FALSE]
    /\ UNCHANGED <<what, row, gone, shared, ops, ear, raced>>

\* load puts what it read in place of the store, or an error ends it before
\* it does: _handle_message logs it, the store stays as it was, and nobody
\* loads again before the next message or start.
Load(p) ==
    /\ reads[p].pc = "load"
    /\ reads' = [reads EXCEPT ![p] = NoRead]
    /\ \/ /\ local' = [local EXCEPT ![p] = Entry(reads[p].val, 1)]
          /\ UNCHANGED missed
       \/ /\ missed' = [missed EXCEPT ![p] = TRUE]
          /\ UNCHANGED local
    /\ UNCHANGED <<what, row, gone, shared, ops, ear, inbox, raced>>

-----------------------------------------------------------------------------
(* Pods come and go, subscriptions break, time passes.                      *)

\* lifespan: the settings are loaded early, the cached rows in Redis are
\* dropped, and only at its end does the pod subscribe.  A load that fails is
\* logged: the store is empty, and the pod runs on its environment.
Start(p) ==
    /\ ear[p] = "down"
    /\ ear' = [ear EXCEPT ![p] = "deaf"]
    /\ \/ /\ local' = [local EXCEPT ![p] =
                IF what = "setting" THEN Entry(row, 1) ELSE Empty]
          /\ missed' = [missed EXCEPT ![p] = FALSE]
       \/ /\ what = "setting"
          /\ local' = [local EXCEPT ![p] = Empty]
          /\ missed' = [missed EXCEPT ![p] = TRUE]
    /\ shared' = Empty
    /\ UNCHANGED <<what, row, gone, reads, ops, inbox, raced>>

Subscribe(p) ==
    /\ ear[p] = "deaf"
    /\ ear' = [ear EXCEPT ![p] = "open"]
    /\ UNCHANGED <<what, row, gone, local, shared, reads, ops, inbox, missed, raced>>

\* The listener's connection breaks, with what it had not read.
LoseSubscription(p) ==
    /\ ear[p] = "open"
    /\ Told(what)
    /\ ear' = [ear EXCEPT ![p] = "deaf"]
    /\ inbox' = [inbox EXCEPT ![p] = FALSE]
    /\ missed' = [missed EXCEPT ![p] = @ \/ inbox[p]]
    /\ UNCHANGED <<what, row, gone, local, shared, reads, ops, raced>>

\* The pod dies; a change it committed is told to nobody.
Crash(p) ==
    /\ ear[p] # "down"
    /\ Told(what)
    /\ ear' = [ear EXCEPT ![p] = "down"]
    /\ local' = [local EXCEPT ![p] = Empty]
    /\ reads' = [reads EXCEPT ![p] = NoRead]
    /\ ops' = [ops EXCEPT ![p] = NoOp]
    /\ inbox' = [inbox EXCEPT ![p] = FALSE]
    /\ missed' = IF ops[p] = NoOp THEN missed ELSE [q \in Pods |-> TRUE]
    /\ raced' = (raced \/ (what = "model" /\ ops[p] # NoOp))
    /\ UNCHANGED <<what, row, gone, shared>>

Older(e) == IF e.left <= 1 THEN Empty ELSE [e EXCEPT !.left = @ - 1]

Tick ==
    /\ what # "setting"
    /\ \A p \in Pods : reads[p].val = 0 \/ reads[p].age < Latency
    /\ gone' = [v \in {1, 2} |->
          IF v = row \/ gone[v] = Longest THEN gone[v] ELSE gone[v] + 1]
    /\ local' = [p \in Pods |-> Older(local[p])]
    /\ shared' = Older(shared)
    /\ reads' = [p \in Pods |->
          IF reads[p].val = 0 THEN reads[p] ELSE [reads[p] EXCEPT !.age = @ + 1]]
    /\ UNCHANGED <<what, row, ops, ear, inbox, missed, raced>>

CachesNext ==
    \/ \E p \in Pods :
          \/ GetModel(p)
          \/ GetPricing(p)
          \/ ListModels(p)
          \/ ResolveMetaModel(p)
          \/ RefreshRoutes(p)
          \/ AskRedis(p)
          \/ AskTable(p)
          \/ KeepLocal(p)
          \/ KeepShared(p)
          \/ \E v \in {Served, Paused} : SetModelPause(p, v)
          \/ ChangeSetting(p)
          \/ StoreSetting(p)
          \/ InvalidateCache(p)
          \/ ClearLocal(p)
          \/ ClearShared(p)
          \/ Publish(p)
          \/ Handle(p)
          \/ Load(p)
          \/ Start(p)
          \/ Subscribe(p)
          \/ LoseSubscription(p)
          \/ Crash(p)
    \/ ReconcileRow
    \/ Tick

CachesTypeOK ==
    /\ what \in Kinds
    /\ row \in {1, 2}
    /\ gone \in [{1, 2} -> 0..Longest]
    /\ local \in [Pods -> [val: 0..2, left: 0..LocalTTL]]
    /\ shared \in [val: 0..2, left: 0..SharedTTL]
    /\ reads \in [Pods -> [pc: {"idle", "redis", "table", "keep", "refill",
                               "share", "load"}, val: 0..2, age: 0..Latency]]
    /\ ops \in [Pods -> [pc: {"none", "store", "local", "redis", "publish"},
                         val: 0..2]]
    /\ ear \in [Pods -> {"down", "deaf", "open"}]
    /\ inbox \in [Pods -> BOOLEAN]
    /\ missed \in [Pods -> BOOLEAN]
    /\ raced \in BOOLEAN

\* What a pod may still serve is out of date for less than its own entry
\* lives and a request takes; of a price, whose entry in memory may come from
\* the one in Redis, for less than both live and two requests take.  So every
\* change reaches every pod, told or not.
StaleBounded ==
    what # "setting" =>
      /\ shared # Empty => gone[shared.val] < Latency + SharedTTL
      /\ \A p \in Pods : local[p] # Empty =>
            gone[local[p].val] <
              LocalTTL + (IF what = "price" THEN 2 * Latency + SharedTTL
                          ELSE Latency)

NothingPending == \A p \in Pods : ops[p] = NoOp /\ ~inbox[p]

\* Once an operator paused a model and every message is delivered, no pod
\* that got them serves it from memory and none from Redis, unless a request
\* read the row before the pause and keeps it after: "otherwise a cached
\* model serves until TTL".
PauseReaches ==
    what = "model" /\ row = Paused /\ ~raced /\ NothingPending =>
      /\ shared = Empty
      /\ \A p \in Pods : ~missed[p] => local[p] = Empty

\* Once nothing is on its way, every pod that got every message since it
\* started, and whose last load of the settings did not fail, runs with those
\* the table holds, whatever changes and reloads crossed.
SettingsAgree ==
    what = "setting" /\ NothingPending =>
      \A p \in Pods :
         ear[p] # "down" /\ ~missed[p] /\ reads[p] = NoRead => local[p].val = row
=============================================================================
