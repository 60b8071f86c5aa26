------------------------- MODULE ControlPlaneProofs -------------------------
(***************************************************************************)
(* What operators and tenants may rely on, for every number of pods, every  *)
(* lifetime of a cached entry and every time a request may take.            *)
(***************************************************************************)
EXTENDS ControlPlane, SequenceTheorems, FiniteSetTheorems, TLAPS

-----------------------------------------------------------------------------
(* The caches.                                                              *)

Moving(p) ==
    \/ GetModel(p) \/ GetPricing(p) \/ ListModels(p) \/ ResolveMetaModel(p)
    \/ RefreshRoutes(p) \/ AskRedis(p) \/ AskTable(p) \/ KeepLocal(p) \/ KeepShared(p)

Telling(p) ==
    \/ \E v \in {Served, Paused} : SetModelPause(p, v)
    \/ ChangeSetting(p) \/ StoreSetting(p) \/ InvalidateCache(p)
    \/ ClearLocal(p) \/ ClearShared(p) \/ Publish(p)

Hearing(p) ==
    \/ Handle(p) \/ Load(p) \/ Start(p) \/ Subscribe(p) \/ LoseSubscription(p) \/ Crash(p)

\* What a step of the control plane may do to the caches.
LEMMA CachesSteps ==
  ASSUME [Next]_controlVars
  PROVE  \/ \E p \in Pods : Moving(p) \/ Telling(p) \/ Hearing(p)
         \/ ReconcileRow \/ Tick \/ UNCHANGED cacheVars
BY DEF Next, CachesNext, controlVars, Moving, Telling, Hearing

Entries == [val : 0..2, left : Nat]
Reads == [pc : {"idle", "redis", "table", "keep", "refill", "share", "load"},
          val : 0..2, age : Nat]
Ops == [pc : {"none", "store", "local", "redis", "publish"}, val : 0..2]

\* Types, without the bounds the lifetimes set.
Shaped ==
    /\ what \in Kinds /\ row \in {1, 2} /\ gone \in [{1, 2} -> Nat]
    /\ local \in [Pods -> Entries] /\ shared \in Entries
    /\ reads \in [Pods -> Reads] /\ ops \in [Pods -> Ops]
    /\ ear \in [Pods -> {"down", "deaf", "open"}]
    /\ inbox \in [Pods -> BOOLEAN] /\ missed = [p \in Pods |-> missed[p]]

\* A value is an entry.
LEMMA EntryIs ==
  ASSUME NEW v \in 0..2, NEW n \in Nat
  PROVE  Entry(v, n) \in Entries /\ Entry(v, n).val = v /\ Entry(v, n).left = n
BY DEF Entry, Entries

\* What is empty or idle has its type.
LEMMA NothingIs ==
    /\ Empty \in Entries /\ Empty.val = 0 /\ Empty.left = 0
    /\ NoRead \in Reads /\ NoRead.pc = "idle" /\ NoRead.val = 0 /\ NoRead.age = 0
    /\ NoOp \in Ops /\ NoOp.pc = "none" /\ NoOp.val = 0
BY DEF Empty, Entries, NoRead, Reads, NoOp, Ops

\* An entry that grows older is gone or has one tick less.
LEMMA OlderIs ==
  ASSUME NEW e \in Entries
  PROVE  /\ Older(e) \in Entries
         /\ Older(e) = Empty \/ (Older(e).val = e.val /\ Older(e).left = e.left - 1
                                 /\ e.left > 1)
BY NothingIs DEF Older, Entries

\* The caches and what is on its way to them have their shapes.
LEMMA ShapedAlways == Spec => []Shaped
<1>1. Init => Shaped
  <2> SUFFICES ASSUME Init PROVE Shaped
    OBVIOUS
  <2>1. Longest \in Nat
    BY CachesAssumption DEF Longest
  <2>2. row = 1 /\ what \in Kinds
    BY DEF Init, CachesInit, Served
  <2>3. gone \in [{1, 2} -> Nat]
    BY <2>1 DEF Init, CachesInit
  <2>4. local \in [Pods -> Entries]
    BY <2>2, NothingIs, EntryIs DEF Init, CachesInit
  <2>5. QED
    BY <2>2, <2>3, <2>4, NothingIs DEF Init, CachesInit, Shaped
<1>2. Shaped /\ [Next]_controlVars => Shaped'
  <2> SUFFICES ASSUME Shaped, [Next]_controlVars PROVE Shaped'
    OBVIOUS
  <2> USE DEF Shaped
  <2>1. ASSUME NEW p \in Pods, Moving(p) PROVE Shaped'
    <3>1. ASSUME NEW pc, reads' = [reads EXCEPT ![p].pc = pc],
                 pc \in {"idle", "redis", "table", "keep", "refill", "share", "load"}
          PROVE  reads' \in [Pods -> Reads]
      BY <3>1 DEF Reads
    <3>2. ASSUME NEW x \in Reads, reads' = [reads EXCEPT ![p] = x]
          PROVE  reads' \in [Pods -> Reads]
      BY <3>2
    <3>3. CASE GetModel(p) \/ GetPricing(p) \/ ListModels(p) \/ ResolveMetaModel(p)
               \/ RefreshRoutes(p)
      BY <3>1, <3>3 DEF GetModel, GetPricing, ListModels, ResolveMetaModel, RefreshRoutes,
                        LookUp
    <3>4. CASE AskRedis(p)
      <4>1. shared.val \in 0..2 /\ [pc |-> "refill", val |-> shared.val, age |-> 0] \in Reads
        BY DEF Entries, Reads
      <4>2. reads' \in [Pods -> Reads]
        BY <3>1, <3>2, <3>4, <4>1, NothingIs DEF AskRedis
      <4>3. QED
        BY <3>4, <4>2 DEF AskRedis
    <3>5. CASE AskTable(p)
      <4>1. [pc |-> IF InMemory(what) THEN "keep" ELSE "share", val |-> row, age |-> 0] \in Reads
        BY DEF Reads
      <4>2. reads' \in [Pods -> Reads]
        BY <3>2, <3>5, <4>1, NothingIs DEF AskTable
      <4>3. QED
        BY <3>5, <4>2 DEF AskTable
    <3>6. reads[p].val \in 0..2 /\ reads[p] \in Reads
      BY DEF Reads
    <3>7. CASE KeepLocal(p)
      <4>1. local' \in [Pods -> Entries]
        BY <3>6, <3>7, EntryIs, CachesAssumption DEF KeepLocal
      <4>2. [reads[p] EXCEPT !.pc = "share"] \in Reads
        BY <3>6 DEF Reads
      <4>3. reads' \in [Pods -> Reads]
        BY <3>2, <3>7, <4>2, NothingIs DEF KeepLocal
      <4>4. QED
        BY <3>7, <4>1, <4>3 DEF KeepLocal
    <3>8. CASE KeepShared(p)
      <4>1. Entry(reads[p].val, SharedTTL) \in Entries
        BY <3>6, EntryIs, CachesAssumption
      <4>2. QED
        BY <3>2, <3>8, <4>1, NothingIs DEF KeepShared
    <3>9. QED
      BY <2>1, <3>3, <3>4, <3>5, <3>7, <3>8 DEF Moving
  <2>2. ASSUME NEW v \in {1, 2}, Commit(v)
        PROVE  row' \in {1, 2} /\ gone' \in [{1, 2} -> Nat]
    BY <2>2 DEF Commit
  <2>3. ASSUME NEW p \in Pods, Telling(p) PROVE Shaped'
    <3>1. ASSUME NEW x \in Ops, ops' = [ops EXCEPT ![p] = x] PROVE ops' \in [Pods -> Ops]
      BY <3>1
    <3>2. ASSUME NEW pc \in {"none", "store", "local", "redis", "publish"},
                 ops' = [ops EXCEPT ![p].pc = pc]
          PROVE  ops' \in [Pods -> Ops]
      BY <3>2 DEF Ops
    <3>3. CASE \E v \in {Served, Paused} : SetModelPause(p, v)
      BY <2>2, <3>2, <3>3 DEF SetModelPause, Served, Paused
    <3>4. CASE ChangeSetting(p)
      <4>1. 3 - row \in {1, 2} /\ [pc |-> "store", val |-> 3 - row] \in Ops
        BY DEF Ops
      <4>2. QED
        BY <2>2, <3>1, <3>4, <4>1 DEF ChangeSetting
    <3>5. CASE StoreSetting(p)
      <4>1. [pc |-> "publish", val |-> 0] \in Ops /\ ops[p].val \in 0..2
        BY DEF Ops
      <4>2. Entry(ops[p].val, 1) \in Entries
        BY <4>1, EntryIs
      <4>3. QED
        BY <3>1, <3>5, <4>1, <4>2 DEF StoreSetting
    <3>6. CASE InvalidateCache(p)
      BY <3>2, <3>6 DEF InvalidateCache
    <3>10. CASE ClearLocal(p)
      <4>1. ops' \in [Pods -> Ops]
        BY <3>2, <3>10 DEF ClearLocal
      <4>2. local' \in [Pods -> Entries]
        BY <3>10, NothingIs DEF ClearLocal
      <4>3. UNCHANGED <<what, row, gone, shared, reads, ear, inbox, missed>>
        BY <3>10 DEF ClearLocal
      <4>4. QED
        BY <4>1, <4>2, <4>3
    <3>7. CASE ClearShared(p)
      <4>1. missed' = [q \in Pods |-> missed'[q]]
        BY <3>7, Zenon DEF ClearShared
      <4>2. ops' \in [Pods -> Ops] /\ shared' \in Entries
        BY <3>1, <3>2, <3>7, NothingIs DEF ClearShared
      <4>3. QED
        BY <3>7, <4>1, <4>2 DEF ClearShared
    <3>8. CASE Publish(p)
      <4>1. missed' = [q \in Pods |-> missed'[q]] /\ inbox' \in [Pods -> BOOLEAN]
        BY <3>8 DEF Publish
      <4>2. ops' \in [Pods -> Ops]
        BY <3>1, <3>8, NothingIs DEF Publish
      <4>3. QED
        BY <3>8, <4>1, <4>2 DEF Publish
    <3>9. QED
      BY <2>3, <3>3, <3>4, <3>5, <3>6, <3>7, <3>8, <3>10 DEF Telling
  <2>4. ASSUME NEW p \in Pods, Hearing(p) PROVE Shaped'
    <3>1. reads[p].val \in 0..2
      BY DEF Reads
    <3>2. CASE Handle(p)
      <4>1. [pc |-> "load", val |-> row, age |-> 0] \in Reads
        BY DEF Reads
      <4>2. QED
        BY <3>2, <4>1, NothingIs DEF Handle
    <3>3. CASE Load(p)
      BY <3>1, <3>3, EntryIs, NothingIs DEF Load
    <3>4. CASE Start(p)
      <4>1. Entry(row, 1) \in Entries /\ Empty \in Entries
        BY EntryIs, NothingIs
      <4>2. QED
        BY <3>4, <4>1 DEF Start
    <3>5. CASE Subscribe(p) \/ LoseSubscription(p)
      BY <3>5 DEF Subscribe, LoseSubscription
    <3>6. CASE Crash(p)
      BY <3>6, NothingIs DEF Crash
    <3>7. QED
      BY <2>4, <3>2, <3>3, <3>4, <3>5, <3>6 DEF Hearing
  <2>5. CASE ReconcileRow
    <3>1. 3 - row \in {1, 2}
      OBVIOUS
    <3>2. QED
      BY <2>2, <2>5, <3>1 DEF ReconcileRow
  <2>6. CASE Tick
    <3>1. gone' \in [{1, 2} -> Nat]
      BY <2>6 DEF Tick
    <3>2. local' \in [Pods -> Entries] /\ shared' \in Entries
      BY <2>6, OlderIs DEF Tick
    <3>3. \A p \in Pods : reads[p] \in Reads /\ [reads[p] EXCEPT !.age = @ + 1] \in Reads
      BY SMTT(30) DEF Reads
    <3>4. reads' \in [Pods -> Reads]
      BY <2>6, <3>3 DEF Tick
    <3>5. QED
      BY <2>6, <3>1, <3>2, <3>4 DEF Tick
  <2>7. CASE UNCHANGED cacheVars
    BY <2>7 DEF cacheVars
  <2>8. QED
    BY <2>1, <2>3, <2>4, <2>5, <2>6, <2>7, CachesSteps
<1>3. QED
  BY <1>1, <1>2, PTL DEF Spec

-----------------------------------------------------------------------------
(* Settings.                                                                *)

Settled(p) ==
    \/ inbox[p]
    \/ reads[p].pc = "load" /\ reads[p].val = row
    \/ reads[p] = NoRead /\ local[p].val = row

(***************************************************************************)
(* A pod's settings are right or about to be, unless it missed a message,  *)
(* its last load failed or somebody is still on the way to tell.           *)
(***************************************************************************)
Agree ==
    what = "setting" =>
      /\ \A p \in Pods :
            /\ reads[p] = NoRead \/ reads[p].pc = "load"
            /\ ops[p] = NoOp \/ ops[p].pc \in {"store", "publish"}
            /\ ear[p] = "down" => reads[p] = NoRead /\ ops[p] = NoOp /\ ~inbox[p]
      /\ (\A p \in Pods : ops[p] = NoOp) =>
            \A p \in Pods : ear[p] # "down" /\ ~missed[p] => Settled(p)

\* Whatever changes, reloads, crashes and lost messages cross.
LEMMA AgreeAlways == Spec => []Agree
<1>1. Init => Agree
  BY NothingIs, EntryIs DEF Init, CachesInit, Agree, Settled, Served
<1>2. Agree /\ Shaped /\ [Next]_controlVars => Agree'
  <2> SUFFICES ASSUME Agree, Shaped, [Next]_controlVars, what' = "setting" PROVE Agree'
    BY DEF Agree
  <2>1. what = "setting"
    BY CachesSteps, Zenon DEF Moving, Telling, Hearing, GetModel, GetPricing, ListModels,
       ResolveMetaModel, LookUp, RefreshRoutes, AskRedis, AskTable, KeepLocal, KeepShared,
       SetModelPause, ChangeSetting, StoreSetting, InvalidateCache, ClearLocal, ClearShared,
       Publish, Handle, Load, Start, Subscribe, LoseSubscription, Crash, ReconcileRow, Tick,
       cacheVars
  <2> USE <2>1, NothingIs DEF Agree, Shaped, Settled
  <2>2. ASSUME NEW p \in Pods, Moving(p) PROVE FALSE
    BY <2>2 DEF Moving, GetModel, GetPricing, ListModels, ResolveMetaModel, LookUp,
       RefreshRoutes, AskRedis, AskTable, KeepLocal, KeepShared
  <2>3. ASSUME NEW p \in Pods, Telling(p) PROVE Agree'
    <3>1. CASE ChangeSetting(p)
      BY <3>1 DEF ChangeSetting
    <3>2. CASE StoreSetting(p)
      BY <3>2 DEF StoreSetting
    <3>3. CASE Publish(p)
      <4>1. \A q \in Pods : ~missed'[q] => inbox'[q]
        BY <3>3 DEF Publish, Told
      <4>2. QED
        BY <3>3, <4>1 DEF Publish
    <3>4. ~InvalidateCache(p) /\ ~ClearLocal(p) /\ ~ClearShared(p)
          /\ \A v : ~SetModelPause(p, v)
      BY DEF InvalidateCache, ClearLocal, ClearShared, SetModelPause
    <3>5. QED
      BY <2>3, <3>1, <3>2, <3>3, <3>4 DEF Telling
  <2>4. ASSUME NEW p \in Pods, Hearing(p) PROVE Agree'
    <3>1. CASE Handle(p)
      BY <3>1 DEF Handle
    <3>2. CASE Load(p)
      BY <3>2, EntryIs DEF Load
    <3>3. CASE Start(p)
      BY <3>3, EntryIs DEF Start
    <3>4. CASE Subscribe(p)
      BY <3>4 DEF Subscribe
    <3>5. CASE LoseSubscription(p)
      BY <3>5 DEF LoseSubscription
    <3>6. CASE Crash(p)
      BY <3>6 DEF Crash
    <3>7. QED
      BY <2>4, <3>1, <3>2, <3>3, <3>4, <3>5, <3>6 DEF Hearing
  <2>5. ~ReconcileRow /\ ~Tick
    BY DEF ReconcileRow, Tick
  <2>6. CASE UNCHANGED cacheVars
    BY <2>6 DEF cacheVars
  <2>7. QED
    BY <2>2, <2>3, <2>4, <2>5, <2>6, CachesSteps
<1>3. QED
  BY <1>1, <1>2, ShapedAlways, PTL DEF Spec

\* Once nothing is on its way, every pod that got every message since it
\* started, and whose last load of the settings did not fail, runs with those
\* the table holds (runtime_settings.py: load, set_value).
THEOREM SettingsAgreeAlways == Spec => []SettingsAgree
<1>1. Agree => SettingsAgree
  BY NothingIs DEF Agree, SettingsAgree, NothingPending, Settled
<1>2. QED
  BY <1>1, AgreeAlways, PTL

-----------------------------------------------------------------------------
(* Models that are paused.                                                  *)

(***************************************************************************)
(* Nobody refuses a paused model by asking: it is gone from the caches      *)
(* because the call that paused it is still clearing them, or has and       *)
(* whoever does not know yet is told, and because nobody reads it anew.     *)
(***************************************************************************)
Pausing ==
    /\ \A p \in Pods :
          /\ reads[p].pc = "load" \/ ops[p].pc = "store" => what = "setting"
          /\ reads[p].pc \in {"keep", "refill", "share"} => reads[p].val # 0
    /\ shared # Empty => shared.val # 0
    /\ what = "model" /\ row = Paused /\ ~raced =>
          /\ \A p \in Pods : reads[p].val = 0
          /\ shared = Empty \/ \E q \in Pods : ops[q].pc \in {"local", "redis"}
          /\ \A p \in Pods : local[p] = Empty \/ missed[p] \/ inbox[p]
                              \/ \E q \in Pods : ops[q] # NoOp

\* Whatever reads, refills, expires, crashes and breaks meanwhile.
LEMMA PausingAlways == Spec => []Pausing
<1>1. Init => Pausing
  BY NothingIs DEF Init, CachesInit, Pausing, Served, Paused
<1>2. Pausing /\ Shaped /\ [Next]_controlVars => Pausing'
  <2> SUFFICES ASSUME Pausing, Shaped, [Next]_controlVars PROVE Pausing'
    OBVIOUS
  <2> USE NothingIs DEF Pausing, Shaped, Served, Paused
  <2>1. ASSUME NEW p \in Pods, Moving(p) PROVE Pausing'
    <3>1. CASE GetModel(p) \/ GetPricing(p) \/ ListModels(p) \/ ResolveMetaModel(p)
               \/ RefreshRoutes(p)
      <4>1. /\ \A q \in Pods : q # p => reads'[q] = reads[q]
            /\ reads'[p].val = reads[p].val /\ reads'[p].pc \in {"redis", "table"}
        BY <3>1 DEF GetModel, GetPricing, ListModels, ResolveMetaModel, RefreshRoutes, LookUp,
                    Reads
      <4>2. UNCHANGED <<what, row, raced, shared, local, missed, inbox, ops>>
        BY <3>1 DEF GetModel, GetPricing, ListModels, ResolveMetaModel, RefreshRoutes, LookUp
      <4>3. QED
        BY <4>1, <4>2
    <3>2. CASE AskRedis(p)
      <4>1. CASE reads' = [reads EXCEPT ![p].pc = "table"]
        <5>1. /\ \A q \in Pods : q # p => reads'[q] = reads[q]
              /\ reads'[p].val = reads[p].val /\ reads'[p].pc = "table"
          BY <4>1 DEF Reads
        <5>2. UNCHANGED <<what, row, raced, shared, local, missed, inbox, ops>>
          BY <3>2 DEF AskRedis
        <5>3. QED
          BY <5>1, <5>2
      <4>2. CASE what = "price" /\ reads' = [reads EXCEPT ![p] =
                    [pc |-> "refill", val |-> shared.val, age |-> 0]] /\ shared # Empty
        BY <3>2, <4>2 DEF AskRedis
      <4>3. CASE what # "price" /\ reads' = [reads EXCEPT ![p] = NoRead]
        BY <3>2, <4>3 DEF AskRedis
      <4>4. QED
        BY <3>2, <4>1, <4>2, <4>3 DEF AskRedis
    <3>3. CASE AskTable(p)
      BY <3>3 DEF AskTable
    <3>4. CASE KeepLocal(p)
      <4>1. /\ \A q \in Pods : q # p => reads'[q] = reads[q] /\ local'[q] = local[q]
            /\ reads'[p] = NoRead \/ (reads'[p].pc = "share" /\ reads'[p].val = reads[p].val)
            /\ reads[p].val # 0
        BY <3>4 DEF KeepLocal, Reads
      <4>2. QED
        BY <3>4, <4>1 DEF KeepLocal
    <3>5. CASE KeepShared(p)
      <4>1. shared' = shared \/ (shared'.val = reads[p].val)
        BY <3>5 DEF KeepShared, Entry
      <4>2. reads[p].val # 0 /\ reads' = [reads EXCEPT ![p] = NoRead]
        BY <3>5 DEF KeepShared
      <4>3. QED
        BY <3>5, <4>1, <4>2 DEF KeepShared
    <3>6. QED
      BY <2>1, <3>1, <3>2, <3>3, <3>4, <3>5 DEF Moving
  <2>2. ASSUME NEW p \in Pods, Telling(p) PROVE Pausing'
    <3>1. CASE \E v \in {Served, Paused} : SetModelPause(p, v)
      BY <3>1 DEF SetModelPause, Commit, Ops
    <3>2. CASE ChangeSetting(p)
      BY <3>2 DEF ChangeSetting
    <3>3. CASE StoreSetting(p)
      BY <3>3 DEF StoreSetting
    <3>4. CASE InvalidateCache(p)
      BY <3>4 DEF InvalidateCache
    <3>5. CASE ClearLocal(p)
      BY <3>5 DEF ClearLocal, InRedis, Ops
    <3>6. CASE ClearShared(p)
      <4>1. UNCHANGED <<what, row, local, reads, inbox>>
        BY <3>6 DEF ClearShared
      <4>2. CASE ops' = [ops EXCEPT ![p].pc = "publish"] /\ shared' = Empty /\ UNCHANGED <<missed, raced>>
        <5>1. /\ \A q \in Pods : q # p => ops'[q] = ops[q]
              /\ ops'[p].pc = "publish" /\ ops'[p] # NoOp
          BY <4>2 DEF Ops
        <5>2. QED
          BY <4>1, <4>2, <5>1
      <4>3. CASE ops' = [ops EXCEPT ![p] = NoOp] /\ shared' = shared /\ raced' = (what = "model")
        BY <4>1, <4>3
      <4>4. QED
        BY <3>6, <4>2, <4>3 DEF ClearShared
    <3>7. CASE Publish(p)
      <4>1. what = "model" => \A q \in Pods : missed'[q] \/ inbox'[q]
        BY <3>7 DEF Publish, Told
      <4>2. QED
        BY <3>7, <4>1 DEF Publish
    <3>8. QED
      BY <2>2, <3>1, <3>2, <3>3, <3>4, <3>5, <3>6, <3>7 DEF Telling
  <2>3. ASSUME NEW p \in Pods, Hearing(p) PROVE Pausing'
    <3>1. CASE Handle(p)
      BY <3>1 DEF Handle
    <3>2. CASE Load(p)
      BY <3>2 DEF Load
    <3>3. CASE Start(p)
      BY <3>3 DEF Start
    <3>4. CASE Subscribe(p)
      BY <3>4 DEF Subscribe
    <3>5. CASE LoseSubscription(p)
      <4>1. \A q \in Pods : missed[q] \/ inbox[q] => missed'[q] \/ inbox'[q]
        BY <3>5 DEF LoseSubscription
      <4>2. QED
        BY <3>5, <4>1 DEF LoseSubscription
    <3>6. CASE Crash(p)
      <4>1. CASE ops[p] = NoOp
        BY <3>6, <4>1 DEF Crash
      <4>2. CASE ops[p] # NoOp
        BY <3>6, <4>2 DEF Crash
      <4>3. QED
        BY <4>1, <4>2
    <3>7. QED
      BY <2>3, <3>1, <3>2, <3>3, <3>4, <3>5, <3>6 DEF Hearing
  <2>4. CASE ReconcileRow
    BY <2>4 DEF ReconcileRow
  <2>5. CASE Tick
    <3>1. \A q \in Pods : reads'[q].val = reads[q].val /\ reads'[q].pc = reads[q].pc
      BY <2>5 DEF Tick, Reads
    <3>2. \A q \in Pods : local[q] = Empty => local'[q] = Empty
      BY <2>5 DEF Tick, Older
    <3>3. shared' = Empty \/ (shared'.val = shared.val /\ shared # Empty)
      BY <2>5, OlderIs DEF Tick
    <3>4. UNCHANGED <<what, row, ops, inbox, missed, raced>>
      BY <2>5 DEF Tick
    <3>5. QED
      BY <3>1, <3>2, <3>3, <3>4
  <2>6. CASE UNCHANGED cacheVars
    BY <2>6 DEF cacheVars
  <2>7. QED
    BY <2>1, <2>2, <2>3, <2>4, <2>5, <2>6, CachesSteps
<1>3. QED
  BY <1>1, <1>2, ShapedAlways, PTL DEF Spec

\* Once every message of a pause is delivered, no pod that got them serves the
\* model from memory and none from Redis, unless somebody read the row before
\* the pause and keeps it after (services/router.py).
THEOREM PauseReachesAll == Spec => []PauseReaches
<1>1. Pausing => PauseReaches
  BY NothingIs DEF Pausing, PauseReaches, NothingPending
<1>2. QED
  BY <1>1, PausingAlways, PTL

-----------------------------------------------------------------------------
(* What is out of date.                                                     *)

\* The age of what an entry in memory may have been made of.
Source == IF what = "price" THEN Latency + SharedTTL ELSE 0

Fits(e, most) == e = Empty \/ (e.val \in {1, 2} /\ e.left >= 1 /\ gone[e.val] + e.left <= most)

Reading(x) ==
    CASE x.pc \in {"keep", "share"} -> x.val \in {1, 2} /\ gone[x.val] <= x.age /\ x.age <= Latency
      [] x.pc = "refill" -> /\ what = "price" /\ x.val \in {1, 2} /\ x.age <= Latency
                            /\ gone[x.val] <= Latency + SharedTTL - 1 + x.age
      [] OTHER -> x.val = 0

NoPaused(v) == what = "model" => v # Paused

(***************************************************************************)
(* The time since the table stopped saying what an entry holds and the time *)
(* the entry still has never add up to more than its lifetime and the time  *)
(* of the request that kept it; of a price, whose entry may be made of the  *)
(* one in Redis, to that one's besides.  A paused model is never kept, so   *)
(* that nothing need be known of the time since it was last paused.         *)
(***************************************************************************)
Aged ==
    what # "setting" =>
      /\ gone[row] = 0 \/ ~NoPaused(row)
      /\ Fits(shared, Latency + SharedTTL) /\ NoPaused(shared.val)
      /\ \A p \in Pods :
            /\ Fits(local[p], Latency + LocalTTL + Source) /\ NoPaused(local[p].val)
            /\ Reading(reads[p]) /\ NoPaused(reads[p].val)
            /\ reads[p].pc # "load" /\ ops[p].pc # "store"

\* An entry of what was said until a time ago, kept for its lifetime.
LEMMA FreshFits ==
  ASSUME NEW v \in {1, 2}, NEW ttl \in Nat \ {0}, NEW n \in Nat,
         gone \in [{1, 2} -> Nat], gone[v] <= n
  PROVE  Fits(Entry(v, ttl), n + ttl)
BY EntryIs DEF Fits

\* Whatever is committed makes nothing older.
LEMMA CommitAges ==
  ASSUME Shaped, Aged, what # "setting", what' = what,
         NEW v \in {1, 2}, Commit(v),
         shared' = shared, local' = local, reads' = reads,
         \A p \in Pods : ops'[p].pc # "store"
  PROVE  Aged'
<1> USE DEF Shaped
<1>1. \A w \in {1, 2} : gone'[w] <= gone[w] /\ gone'[w] \in Nat /\ gone[w] \in Nat
  <2>1. gone' = gone \/ gone' = [gone EXCEPT ![v] = 0]
    BY DEF Commit
  <2>2. \A w \in {1, 2} : gone[w] \in Nat
    OBVIOUS
  <2>3. \A w \in {1, 2} : gone'[w] = gone[w] \/ gone'[w] = 0
    BY <2>1
  <2>4. QED
    BY <2>2, <2>3
<1>2. gone[row]' = 0 \/ ~NoPaused(row)'
  <2>1. CASE Counted(v)
    BY <2>1 DEF Commit
  <2>2. CASE ~Counted(v)
    BY <2>2 DEF Commit, Counted, NoPaused
  <2>3. QED
    BY <2>1, <2>2
<1>3. ASSUME NEW e \in Entries, NEW n \in Nat, Fits(e, n) PROVE Fits(e, n)'
  BY <1>1, <1>3 DEF Fits, Entries
<1>4. ASSUME NEW x \in Reads, Reading(x) PROVE Reading(x)'
  BY <1>1, <1>4, CachesAssumption DEF Reading, Reads
<1>5. Source \in Nat /\ Source' = Source /\ Latency \in Nat /\ SharedTTL \in Nat /\ LocalTTL \in Nat
  BY CachesAssumption DEF Source
<1>6. Latency + LocalTTL + Source \in Nat /\ Latency + SharedTTL \in Nat
  BY <1>5
<1>7. Fits(shared, Latency + SharedTTL)' /\ \A p \in Pods : Fits(local[p], Latency + LocalTTL + Source)'
  BY <1>3, <1>5, <1>6 DEF Aged
<1>8. \A p \in Pods : Reading(reads[p])'
  BY <1>4 DEF Aged
<1>9. /\ NoPaused(shared.val)'
      /\ \A p \in Pods : NoPaused(local[p].val)' /\ NoPaused(reads[p].val)' /\ reads'[p].pc # "load"
  <2>1. NoPaused(shared.val)
        /\ \A p \in Pods : NoPaused(local[p].val) /\ NoPaused(reads[p].val) /\ reads[p].pc # "load"
    BY DEF Aged
  <2>2. QED
    BY <2>1 DEF NoPaused
<1>10. QED
  BY <1>2, <1>7, <1>8, <1>9 DEF Aged

\* Whatever is read, refilled, changed, dropped and let pass.
LEMMA AgedAlways == Spec => []Aged
<1>1. Init => Aged
  BY NothingIs DEF Init, CachesInit, Aged, Fits, Reading, NoPaused, Served, Paused
<1>2. Aged /\ Shaped /\ [Next]_controlVars => Aged'
  <2> SUFFICES ASSUME Aged, Shaped, [Next]_controlVars, what # "setting" PROVE Aged'
    BY CachesSteps, Zenon DEF Aged, Moving, Telling, Hearing, GetModel, GetPricing, ListModels,
       ResolveMetaModel, LookUp, RefreshRoutes, AskRedis, AskTable, KeepLocal, KeepShared,
       SetModelPause, ChangeSetting, StoreSetting, InvalidateCache, ClearLocal, ClearShared,
       Publish, Handle, Load, Start, Subscribe, LoseSubscription, Crash, ReconcileRow, Tick,
       cacheVars
  <2> USE DEF Shaped
  <2>1. Latency \in Nat /\ SharedTTL \in Nat \ {0} /\ LocalTTL \in Nat \ {0} /\ Source \in Nat
    BY CachesAssumption DEF Source
  <2>2. ASSUME what' = what, gone' = gone, row' = row,
               Fits(shared', Latency + SharedTTL), NoPaused(shared'.val),
               NEW p \in Pods,
               Fits(local'[p], Latency + LocalTTL + Source), NoPaused(local'[p].val),
               Reading(reads'[p]), NoPaused(reads'[p].val),
               reads'[p].pc # "load", ops'[p].pc # "store",
               \A q \in Pods : q # p => reads'[q] = reads[q] /\ local'[q] = local[q]
                                      /\ ops'[q] = ops[q]
        PROVE  Aged'
    BY <2>2 DEF Aged, Fits, Reading, NoPaused, Source
  <2>3. ASSUME NEW p \in Pods, Moving(p) PROVE Aged'
    <3>1. CASE GetModel(p) \/ GetPricing(p) \/ ListModels(p) \/ ResolveMetaModel(p)
               \/ RefreshRoutes(p)
      <4>1. /\ \A q \in Pods : q # p => reads'[q] = reads[q]
            /\ reads'[p].val = 0 /\ reads'[p].pc \in {"redis", "table"}
        BY <3>1, NothingIs DEF GetModel, GetPricing, ListModels, ResolveMetaModel, RefreshRoutes,
                    LookUp, Reads
      <4>2. UNCHANGED <<what, row, gone, shared, local, ops>>
        BY <3>1 DEF GetModel, GetPricing, ListModels, ResolveMetaModel, RefreshRoutes, LookUp
      <4>3. Reading(reads'[p]) /\ NoPaused(reads'[p].val)
        BY <4>1 DEF Reading, NoPaused, Paused
      <4>4. QED
        BY <2>2, <4>1, <4>2, <4>3 DEF Aged
    <3>2. CASE AskRedis(p)
      <4>1. CASE reads' = [reads EXCEPT ![p].pc = "table"]
        <5>1. /\ \A q \in Pods : q # p => reads'[q] = reads[q]
              /\ reads'[p].val = reads[p].val /\ reads'[p].pc = "table"
          BY <4>1 DEF Reads
        <5>2. reads[p].val = 0
          BY <3>2 DEF AskRedis, Aged, Reading
        <5>3. Reading(reads'[p]) /\ NoPaused(reads'[p].val)
          BY <5>1, <5>2 DEF Reading, NoPaused, Paused
        <5>4. UNCHANGED <<what, row, gone, shared, local, ops>>
          BY <3>2 DEF AskRedis
        <5>5. QED
          BY <2>2, <5>1, <5>3, <5>4 DEF Aged
      <4>2. CASE what = "price" /\ reads' = [reads EXCEPT ![p] =
                    [pc |-> "refill", val |-> shared.val, age |-> 0]] /\ shared # Empty
        <5> DEFINE x == [pc |-> "refill", val |-> shared.val, age |-> 0]
        <5>1. shared.val \in {1, 2} /\ shared.left \in Nat /\ shared.left >= 1
              /\ gone[shared.val] + shared.left <= Latency + SharedTTL
              /\ gone[shared.val] \in Nat
          BY <4>2 DEF Aged, Fits, Entries
        <5>2. gone[shared.val] <= Latency + SharedTTL - 1 + 0 /\ 0 <= Latency
          BY <2>1, <5>1
        <5>3. Reading(x) /\ NoPaused(x.val) /\ x.pc # "load"
          BY <4>2, <5>1, <5>2 DEF Reading, NoPaused
        <5>4. reads'[p] = x /\ UNCHANGED <<what, row, gone, shared, local, ops>>
              /\ \A q \in Pods : q # p => reads'[q] = reads[q]
          BY <3>2, <4>2 DEF AskRedis
        <5>5. QED
          BY <2>2, <5>3, <5>4 DEF Aged
      <4>3. CASE reads' = [reads EXCEPT ![p] = NoRead]
        <5>1. Reading(NoRead) /\ NoPaused(NoRead.val)
          BY NothingIs DEF Reading, NoPaused, Paused
        <5>2. QED
          BY <2>2, <3>2, <4>3, <5>1, NothingIs DEF AskRedis, Aged
      <4>4. QED
        BY <3>2, <4>1, <4>2, <4>3 DEF AskRedis
    <3>3. CASE AskTable(p)
      <4> DEFINE x == [pc |-> IF InMemory(what) THEN "keep" ELSE "share", val |-> row, age |-> 0]
      <4>1. CASE what = "model" /\ row = Paused
        <5>1. Reading(NoRead) /\ NoPaused(NoRead.val)
          BY NothingIs DEF Reading, NoPaused, Paused
        <5>2. QED
          BY <2>2, <3>3, <4>1, <5>1, NothingIs DEF AskTable, Aged
      <4>2. CASE ~(what = "model" /\ row = Paused)
        <5>1. gone[row] <= 0 /\ 0 <= Latency
          BY <2>1, <4>2 DEF Aged, NoPaused
        <5>2. Reading(x) /\ NoPaused(x.val) /\ x.pc # "load"
          BY <4>2, <5>1 DEF Reading, NoPaused
        <5>3. reads'[p] = x /\ UNCHANGED <<what, row, gone, shared, local, ops>>
              /\ \A q \in Pods : q # p => reads'[q] = reads[q]
          BY <3>3, <4>2 DEF AskTable
        <5>4. QED
          BY <2>2, <5>2, <5>3 DEF Aged
      <4>3. QED
        BY <4>1, <4>2
    <3>4. CASE KeepLocal(p)
      <4>1. /\ reads[p].val \in {1, 2} /\ NoPaused(reads[p].val)
            /\ gone[reads[p].val] <= Latency + Source
        BY <2>1, <3>4 DEF KeepLocal, Aged, Reading, Source, Reads
      <4>2. Fits(Entry(reads[p].val, LocalTTL), Latency + LocalTTL + Source)
        <5>1. Latency + Source \in Nat /\ (Latency + Source) + LocalTTL = Latency + LocalTTL + Source
          BY <2>1
        <5>2. Fits(Entry(reads[p].val, LocalTTL), (Latency + Source) + LocalTTL)
          BY <2>1, <4>1, <5>1, FreshFits
        <5>3. QED
          BY <5>1, <5>2
      <4>3. /\ local'[p] = Entry(reads[p].val, LocalTTL)
            /\ UNCHANGED <<what, row, gone, shared, ops>>
            /\ \A q \in Pods : q # p => reads'[q] = reads[q] /\ local'[q] = local[q]
        BY <3>4 DEF KeepLocal
      <4>4. \/ reads'[p] = NoRead
            \/ /\ reads[p].pc = "keep" /\ reads'[p].pc = "share"
               /\ reads'[p].val = reads[p].val /\ reads'[p].age = reads[p].age
        BY <3>4 DEF KeepLocal, Reads
      <4>5. Reading(reads'[p]) /\ NoPaused(reads'[p].val) /\ reads'[p].pc # "load"
        BY <4>1, <4>4, NothingIs DEF Reading, NoPaused, Paused, Aged
      <4>6. NoPaused(Entry(reads[p].val, LocalTTL).val)
        BY <2>1, <4>1, EntryIs
      <4>7. QED
        BY <2>2, <4>2, <4>3, <4>5, <4>6 DEF Aged
    <3>5. CASE KeepShared(p)
      <4>1. /\ reads[p].val \in {1, 2} /\ NoPaused(reads[p].val)
            /\ gone[reads[p].val] <= Latency
        BY <2>1, <3>5 DEF KeepShared, Aged, Reading, Reads
      <4>2. Fits(Entry(reads[p].val, SharedTTL), Latency + SharedTTL)
            /\ NoPaused(Entry(reads[p].val, SharedTTL).val)
        BY <2>1, <4>1, FreshFits, EntryIs
      <4>3. shared' = shared \/ shared' = Entry(reads[p].val, SharedTTL)
        BY <3>5 DEF KeepShared
      <4>4. Reading(NoRead) /\ NoPaused(NoRead.val) /\ NoRead.pc # "load"
        BY NothingIs DEF Reading, NoPaused, Paused
      <4>5. /\ reads'[p] = NoRead /\ UNCHANGED <<what, row, gone, local, ops>>
            /\ \A q \in Pods : q # p => reads'[q] = reads[q]
        BY <3>5 DEF KeepShared
      <4>6. QED
        BY <2>2, <4>2, <4>3, <4>4, <4>5 DEF Aged
    <3>6. QED
      BY <2>3, <3>1, <3>2, <3>3, <3>4, <3>5 DEF Moving
  <2>4. Fits(Empty, Latency + LocalTTL + Source) /\ Fits(Empty, Latency + SharedTTL)
        /\ NoPaused(Empty.val)
    BY NothingIs DEF Fits, NoPaused, Paused
  <2>5. ASSUME NEW p \in Pods, Telling(p) PROVE Aged'
    <3>1. CASE \E v \in {Served, Paused} : SetModelPause(p, v)
      <4>1. \A q \in Pods : ops'[q].pc # "store"
        BY <3>1 DEF SetModelPause, Ops, Aged
      <4>2. QED
        BY <3>1, <4>1, CommitAges DEF SetModelPause, Served, Paused
    <3>2. CASE InvalidateCache(p)
      <4>1. ops'[p].pc # "store" /\ \A q \in Pods : q # p => ops'[q] = ops[q]
        BY <3>2 DEF InvalidateCache, Ops
      <4>2. UNCHANGED <<what, row, gone, local, shared, reads>>
        BY <3>2 DEF InvalidateCache
      <4>3. QED
        BY <2>2, <4>1, <4>2 DEF Aged
    <3>3. CASE ClearLocal(p)
      <4>1. /\ ops'[p].pc # "store" /\ local'[p] = Empty
            /\ \A q \in Pods : q # p => ops'[q] = ops[q] /\ local'[q] = local[q]
        BY <3>3 DEF ClearLocal, Ops
      <4>2. UNCHANGED <<what, row, gone, shared, reads>>
        BY <3>3 DEF ClearLocal
      <4>3. QED
        BY <2>2, <2>4, <4>1, <4>2 DEF Aged
    <3>4. CASE ClearShared(p)
      <4>1. ops'[p].pc # "store" /\ \A q \in Pods : q # p => ops'[q] = ops[q]
        BY <3>4, NothingIs DEF ClearShared, Ops
      <4>2. shared' = Empty \/ shared' = shared
        BY <3>4, Zenon DEF ClearShared
      <4>3. UNCHANGED <<what, row, gone, local, reads>>
        BY <3>4 DEF ClearShared
      <4>4. QED
        BY <2>2, <2>4, <4>1, <4>2, <4>3 DEF Aged
    <3>5. CASE Publish(p)
      <4>1. ops'[p].pc # "store" /\ \A q \in Pods : q # p => ops'[q] = ops[q]
        BY <3>5, NothingIs DEF Publish
      <4>2. UNCHANGED <<what, row, gone, local, shared, reads>>
        BY <3>5 DEF Publish
      <4>3. QED
        BY <2>2, <4>1, <4>2 DEF Aged
    <3>6. ~ChangeSetting(p) /\ ~StoreSetting(p)
      BY DEF ChangeSetting, StoreSetting, Aged
    <3>7. QED
      BY <2>5, <3>1, <3>2, <3>3, <3>4, <3>5, <3>6 DEF Telling
  <2>6. ASSUME NEW p \in Pods, Hearing(p) PROVE Aged'
    <3>1. Reading(NoRead) /\ NoPaused(NoRead.val) /\ NoRead.pc # "load" /\ NoOp.pc # "store"
      BY NothingIs DEF Reading, NoPaused, Paused
    <3>2. CASE Handle(p) \/ Subscribe(p) \/ LoseSubscription(p)
      <4>1. /\ local'[p] = Empty \/ local'[p] = local[p]
            /\ \A q \in Pods : q # p => local'[q] = local[q]
        BY <3>2 DEF Handle, Subscribe, LoseSubscription
      <4>2. UNCHANGED <<what, row, gone, shared, reads, ops>>
        BY <3>2 DEF Handle, Subscribe, LoseSubscription
      <4>3. QED
        BY <2>2, <2>4, <4>1, <4>2 DEF Aged
    <3>3. CASE Start(p)
      BY <2>2, <2>4, <3>3 DEF Start, Aged
    <3>4. CASE Crash(p)
      BY <2>2, <2>4, <3>1, <3>4 DEF Crash, Aged
    <3>5. ~Load(p)
      BY DEF Load, Aged
    <3>6. QED
      BY <2>6, <3>2, <3>3, <3>4, <3>5 DEF Hearing
  <2>7. CASE ReconcileRow
    <3>1. 3 - row \in {1, 2}
      OBVIOUS
    <3>2. QED
      BY <2>7, <3>1, CommitAges DEF ReconcileRow, Aged
  <2>8. CASE Tick
    <3>1. /\ \A v \in {1, 2} : gone[v] \in Nat /\ gone'[v] \in Nat /\ gone'[v] <= gone[v] + 1
          /\ gone'[row] = gone[row] /\ row' = row /\ what' = what
      BY <2>8 DEF Tick
    <3>2. ASSUME NEW e \in Entries, NEW n \in Nat, Fits(e, n) PROVE Fits(Older(e), n)'
      <4>1. CASE Older(e) = Empty
        BY <4>1 DEF Fits
      <4>2. CASE Older(e).val = e.val /\ Older(e).left = e.left - 1 /\ e.left > 1
        <5>1. e # Empty /\ e.left \in Nat
          BY <4>2, NothingIs DEF Entries
        <5>2. e.val \in {1, 2} /\ gone[e.val] + e.left <= n
          BY <3>2, <5>1 DEF Fits
        <5>3. gone'[e.val] + (e.left - 1) <= n /\ e.left - 1 >= 1
          BY <3>1, <4>2, <5>1, <5>2
        <5>4. QED
          BY <4>2, <5>2, <5>3 DEF Fits
      <4>3. QED
        BY <4>1, <4>2, OlderIs
    <3>3. \A e \in Entries : NoPaused(e.val) => NoPaused(Older(e).val)
      BY OlderIs, NothingIs DEF NoPaused, Paused
    <3>4. Source' = Source /\ Latency + LocalTTL + Source \in Nat /\ Latency + SharedTTL \in Nat
      BY <2>1, <3>1 DEF Source
    <3>5. Fits(shared, Latency + SharedTTL)' /\ NoPaused(shared'.val)
      BY <2>8, <3>2, <3>3, <3>4 DEF Tick, Aged
    <3>6. ASSUME NEW p \in Pods
          PROVE  /\ Fits(local[p], Latency + LocalTTL + Source)' /\ NoPaused(local'[p].val)
                 /\ Reading(reads[p])' /\ NoPaused(reads'[p].val)
                 /\ reads'[p].pc # "load" /\ ops'[p].pc # "store"
      <4>1. Fits(local[p], Latency + LocalTTL + Source)' /\ NoPaused(local'[p].val)
        BY <2>8, <3>2, <3>3, <3>4 DEF Tick, Aged
      <4>2. /\ reads'[p].pc = reads[p].pc /\ reads'[p].val = reads[p].val
            /\ reads[p].val # 0 => reads'[p].age = reads[p].age + 1 /\ reads[p].age < Latency
            /\ reads[p].age \in Nat /\ reads[p].pc # "load"
        BY <2>8 DEF Tick, Reads, Aged
      <4>3. Reading(reads[p]) /\ NoPaused(reads[p].val)
        BY DEF Aged
      <4>4. Reading(reads[p])'
        <5>1. CASE reads[p].pc \in {"keep", "share"}
          BY <2>1, <3>1, <4>2, <4>3, <5>1 DEF Reading
        <5>2. CASE reads[p].pc = "refill"
          BY <2>1, <3>1, <4>2, <4>3, <5>2 DEF Reading
        <5>3. CASE reads[p].pc \notin {"keep", "share", "refill"}
          BY <4>2, <4>3, <5>3 DEF Reading
        <5>4. QED
          BY <5>1, <5>2, <5>3
      <4>5. ops'[p].pc # "store"
        BY <2>8 DEF Tick, Aged
      <4>6. QED
        BY <4>1, <4>2, <4>3, <4>4, <4>5
    <3>7. gone[row]' = 0 \/ ~NoPaused(row)'
      BY <3>1 DEF Aged, NoPaused
    <3>8. QED
      BY <3>1, <3>5, <3>6, <3>7 DEF Aged, NoPaused
  <2>9. CASE UNCHANGED cacheVars
    BY <2>9 DEF cacheVars, Aged, Fits, Reading, NoPaused, Source
  <2>10. QED
    BY <2>3, <2>5, <2>6, <2>7, <2>8, <2>9, CachesSteps
<1>3. QED
  BY <1>1, <1>2, ShapedAlways, PTL DEF Spec

\* Every change reaches every pod: what it may still serve is out of date for
\* less than its entry lives and a request takes, of a price for less than both
\* entries live and two requests take (router.py, pricing.py, core/cache.py).
THEOREM StaleBoundedAlways == Spec => []StaleBounded
<1>1. Aged /\ Shaped => StaleBounded
  BY CachesAssumption DEF Aged, Shaped, Entries, StaleBounded, Fits, Source
<1>2. QED
  BY <1>1, AgedAlways, ShapedAlways, PTL

-----------------------------------------------------------------------------
(* A tenant's credential.                                                   *)

Using(p) ==
    \/ Arrive(p) \/ ReadRow(p) \/ CacheRow(p) \/ Reveal(p) \/ Answer(p)
    \/ MarkInvalid(p) \/ InvalidateOverlay(p)

Calling ==
    \/ \E f \in {"mlpal", "none"} : SaveKey(f)
    \/ DropOldSecret \/ StoreSecret \/ WriteRow \/ DeleteConnection \/ DeleteRow
    \/ Reverify \/ WriteStatus \/ PublishChange

\* What a step of the control plane may do to the credential.
LEMMA ConnectionSteps ==
  ASSUME [Next]_controlVars
  PROVE  \/ \E p \in Workers : Using(p)
         \/ Calling \/ (\E k \in Keys : RejectKey(k)) \/ PassTime \/ UNCHANGED connVars
BY DEF Next, ConnectionsNext, controlVars, Using, Calling

ConnRow == [id : Nat, ver : Nat, key : Nat, status : {"none", "verified", "invalid"},
            fallback : {"mlpal", "none"}]
Judged(r) == r \in ConnRow /\ (r.id # 0 => r.status # "none")

Held == [row : ConnRow, left : 0..OverlayTTL]
Asking(x) ==
    x \in [pc : {"idle", "ask", "read", "reveal", "sent", "billed", "degraded", "mark"},
           row : ConnRow, key : {x.key}, age : Nat]
Called == [pc : {"idle", "store", "write", "publish", "delete", "verify"}, row : ConnRow,
           key : Nat, status : {"none", "verified", "invalid"}, fallback : {"mlpal", "none"}]

\* Types, and that a row that is there works or does not.
Formed ==
    /\ Judged(conn) /\ written \in Nat /\ saved \in Nat
    /\ overlay \in [Workers -> Held] /\ request = [p \in Workers |-> request[p]]
    /\ call \in Called /\ (call.pc \in {"write", "store", "verify"} => call.status # "none")
    /\ \A p \in Workers :
          Judged(overlay[p].row) /\ Judged(request[p].row) /\ Asking(request[p])

\* There is nothing, and it has its type.
LEMMA NoneIs ==
    /\ Judged(NoConn) /\ ~Strictly(NoConn)
    /\ Nothing \in Held /\ Nothing.row = NoConn /\ Nothing.left = 0
    /\ Asking(NoRequest) /\ NoRequest.pc = "idle" /\ NoRequest.row = NoConn /\ NoRequest.age = 0
    /\ NoCall \in Called /\ NoCall.pc = "idle"
BY ConnectionsAssumption DEF NoConn, Judged, ConnRow, Strictly, Nothing, Held, NoRequest, Asking,
   NoCall, Called

\* A request that is served by the deployment carries no row.
LEMMA DeploymentIs ==
  ASSUME NEW why \in {"ask", "billed", "degraded"}
  PROVE  /\ Asking(Deployment(why)) /\ Deployment(why).pc = why
         /\ Deployment(why).row = NoConn /\ Deployment(why).age = 0
BY NoneIs DEF Deployment, NoRequest, Asking

\* A request is billed for no row, or for one that accepts the fallback.
LEMMA ChosenIs ==
  ASSUME NEW p \in Workers, NEW r, Judged(r)
  PROVE  /\ Asking(Chosen(p, r)) /\ Judged(Chosen(p, r).row) /\ Chosen(p, r).age = 0
         /\ Chosen(p, r).pc \in {"idle", "sent", "reveal", "billed"}
         /\ Chosen(p, r).pc = "billed" => ~Strictly(r)
<1> USE DEF Judged, Strictly
<1>1. CASE r.id = 0
  <2>1. Chosen(p, r) = Deployment("billed")
    BY <1>1 DEF Chosen
  <2>2. QED
    BY <1>1, <2>1, DeploymentIs, NoneIs
<1>2. CASE r.id # 0 /\ r.status = "invalid" /\ r.fallback = "none"
  BY <1>2, NoneIs DEF Chosen
<1>3. CASE r.id # 0 /\ r.status = "invalid" /\ r.fallback # "none"
  BY <1>3, DeploymentIs, NoneIs DEF Chosen
<1>4. CASE r.id # 0 /\ r.status = "verified"
  <2> DEFINE k == Hit(p, r).key
  <2>1. \/ Chosen(p, r) = [pc |-> "sent", row |-> r, age |-> 0, key |-> k]
        \/ Chosen(p, r) = [pc |-> "reveal", row |-> r, key |-> 0, age |-> 0]
    BY <1>4 DEF Chosen
  <2> HIDE DEF k
  <2>2. QED
    BY <2>1 DEF Asking
<1>5. QED
  BY <1>1, <1>2, <1>3, <1>4 DEF ConnRow

\* A write of the row keeps all but its version.
LEMMA WriteIs ==
  ASSUME NEW r, Judged(r), written \in Nat, Write(r)
  PROVE  /\ Judged(conn') /\ written' \in Nat
         /\ conn'.id = r.id /\ conn'.fallback = r.fallback
BY DEF Judged, ConnRow, Write

\* The row, what is cached of it and what is made of it have their types.
LEMMA FormedAlways == Spec => []Formed
<1>1. Init => Formed
  BY NoneIs DEF Init, ConnectionsInit, Formed
<1>2. Formed /\ [Next]_controlVars => Formed'
  <2> SUFFICES ASSUME Formed, [Next]_controlVars PROVE Formed'
    OBVIOUS
  <2> USE DEF Formed
  <2>1. ASSUME UNCHANGED <<conn, written, saved, call>>, NEW p \in Workers,
               overlay' = overlay \/ overlay' = [overlay EXCEPT ![p] = Nothing]
                 \/ \E h \in Held : Judged(h.row) /\ overlay' = [overlay EXCEPT ![p] = h],
               request' = request
                 \/ \E x : Asking(x) /\ Judged(x.row) /\ request' = [request EXCEPT ![p] = x]
        PROVE  Formed'
    <3>1. overlay' \in [Workers -> Held] /\ \A q \in Workers : Judged(overlay'[q].row)
      BY <2>1, NoneIs
    <3>2. /\ request' = [q \in Workers |-> request'[q]]
          /\ \A q \in Workers : Judged(request'[q].row) /\ Asking(request'[q])
      BY <2>1
    <3>3. QED
      BY <2>1, <3>1, <3>2
  <2>2. ASSUME NEW p \in Workers, Using(p) PROVE Formed'
    <3>1. Judged(overlay[p].row) /\ Judged(request[p].row) /\ Asking(request[p])
      OBVIOUS
    <3>2. CASE Arrive(p)
      BY <2>1, <3>1, <3>2, ChosenIs, DeploymentIs, NoneIs DEF Arrive, Deployment
    <3>3. CASE ReadRow(p)
      <4>1. CASE request' = [request EXCEPT ![p].pc = "read", ![p].row = conn]
        <5> DEFINE x == [request[p] EXCEPT !.pc = "read", !.row = conn]
        <5>1. Asking(x) /\ Judged(x.row)
          BY <3>1 DEF Asking, Judged
        <5>2. request' = [request EXCEPT ![p] = x]
          BY <3>1, <4>1 DEF Asking
        <5> HIDE DEF x
        <5>3. QED
          BY <2>1, <3>3, <5>1, <5>2 DEF ReadRow
      <4>2. CASE request' = [request EXCEPT ![p] = Deployment("degraded")]
        BY <2>1, <3>3, <4>2, DeploymentIs, NoneIs DEF ReadRow
      <4>3. QED
        BY <3>3, <4>1, <4>2 DEF ReadRow
    <3>4. CASE CacheRow(p)
      <4>1. [row |-> request[p].row, left |-> OverlayTTL - request[p].age] \in Held
            \/ ~(request[p].age < OverlayTTL)
        BY <3>1, ConnectionsAssumption DEF Held, Judged, Asking
      <4>2. QED
        BY <2>1, <3>1, <3>4, <4>1, ChosenIs DEF CacheRow
    <3>5. CASE Reveal(p)
      <4>1. Asking([pc |-> "sent", row |-> request[p].row, key |-> request[p].row.key, age |-> 0])
        BY <3>1 DEF Asking, Judged
      <4>2. QED
        BY <2>1, <3>1, <3>5, <4>1, DeploymentIs, NoneIs DEF Reveal
    <3>6. CASE Answer(p)
      <4>1. Asking([NoRequest EXCEPT !.pc = "mark", !.row = request[p].row])
            /\ [NoRequest EXCEPT !.pc = "mark", !.row = request[p].row].row = request[p].row
        BY <3>1 DEF Asking, Judged, NoRequest
      <4>2. QED
        BY <2>1, <3>1, <3>6, <4>1, NoneIs DEF Answer
    <3>7. CASE MarkInvalid(p)
      <4>1. Judged([conn EXCEPT !.status = "invalid"])
        BY DEF Judged, ConnRow
      <4>2. Judged(conn') /\ written' \in Nat
        BY <3>7, <4>1, WriteIs DEF MarkInvalid
      <4>3. /\ request' = [request EXCEPT ![p] = NoRequest] /\ UNCHANGED <<saved, call>>
            /\ overlay' = [overlay EXCEPT ![p] = Nothing]
        BY <3>7 DEF MarkInvalid
      <4>4. QED
        BY <4>2, <4>3, NoneIs
    <3>8. CASE InvalidateOverlay(p)
      BY <2>1, <3>8 DEF InvalidateOverlay
    <3>9. QED
      BY <2>2, <3>2, <3>3, <3>4, <3>5, <3>6, <3>7, <3>8 DEF Using
  <2>3. CASE Calling
    <3>1. conn \in ConnRow
      BY DEF Judged
    <3>2. CASE \E f \in {"mlpal", "none"} : SaveKey(f)
      <4>1. PICK f \in {"mlpal", "none"}, s \in {"verified", "invalid"} :
               call' = [NoCall EXCEPT !.pc = "store", !.key = saved + 1,
                                      !.status = s, !.fallback = f]
        BY <3>2 DEF SaveKey, Probed
      <4>2. call' \in Called /\ call'.status # "none"
        <5>1. /\ call' = [pc |-> "store", row |-> NoConn, key |-> saved + 1,
                          status |-> s, fallback |-> f]
              /\ saved + 1 \in Nat /\ NoConn \in ConnRow
          <6>1. NoConn \in ConnRow
            BY NoneIs DEF Judged
          <6>2. call' = [pc |-> "store", row |-> NoConn, key |-> saved + 1,
                         status |-> s, fallback |-> f]
            BY <4>1 DEF NoCall
          <6>3. QED
            BY <6>1, <6>2
        <5>2. QED
          BY <5>1 DEF Called
      <4>3. UNCHANGED <<conn, written, overlay, request>> /\ saved' \in Nat
        BY <3>2 DEF SaveKey
      <4>4. QED
        BY <4>2, <4>3
    <3>3. CASE DropOldSecret \/ StoreSecret
      <4>1. call' \in Called /\ call'.status = call.status /\ call.pc = "store"
        BY <3>3 DEF DropOldSecret, StoreSecret, Called
      <4>2. UNCHANGED <<conn, written, overlay, request, saved>>
        BY <3>3 DEF DropOldSecret, StoreSecret
      <4>3. QED
        BY <4>1, <4>2
    <3>4. [NoCall EXCEPT !.pc = "publish"] \in Called /\ [NoCall EXCEPT !.pc = "delete"] \in Called
          /\ [NoCall EXCEPT !.pc = "publish"].pc = "publish"
          /\ [NoCall EXCEPT !.pc = "delete"].pc = "delete"
      BY NoneIs DEF NoCall, Called
    <3>5. CASE WriteRow
      <4> DEFINE r == [id |-> IF conn.id = 0 THEN written + 1 ELSE conn.id,
                       ver |-> 0, key |-> call.key, status |-> call.status,
                       fallback |-> call.fallback]
      <4>1. Judged(r) /\ Write(r)
        BY <3>1, <3>5 DEF WriteRow, Judged, ConnRow, Called
      <4> HIDE DEF r
      <4>2. Judged(conn') /\ written' \in Nat
        BY <4>1, WriteIs
      <4>3. UNCHANGED <<overlay, request, saved>> /\ call' = [NoCall EXCEPT !.pc = "publish"]
        BY <3>5 DEF WriteRow
      <4>4. QED
        BY <3>4, <4>2, <4>3
    <3>6. CASE DeleteConnection
      BY <3>4, <3>6 DEF DeleteConnection
    <3>7. CASE DeleteRow
      BY <3>4, <3>7, NoneIs DEF DeleteRow
    <3>8. CASE Reverify
      <4>1. PICK s \in {"verified", "invalid"} :
               call' = [NoCall EXCEPT !.pc = "verify", !.row = conn, !.status = s]
        BY <3>8 DEF Reverify, Probed
      <4>2. call' \in Called /\ call'.status # "none"
        BY <3>1, <4>1, NoneIs DEF NoCall, Called
      <4>3. UNCHANGED <<conn, written, overlay, request, saved>>
        BY <3>8 DEF Reverify
      <4>4. QED
        BY <4>2, <4>3
    <3>9. CASE WriteStatus
      <4>1. Judged([conn EXCEPT !.status = call.status])
        BY <3>1, <3>9 DEF WriteStatus, Judged, ConnRow, Called
      <4>2. Judged(conn') /\ written' \in Nat
        BY <3>9, <4>1, WriteIs DEF WriteStatus
      <4>3. UNCHANGED <<overlay, request, saved>> /\ call' = [NoCall EXCEPT !.pc = "publish"]
        BY <3>9 DEF WriteStatus
      <4>4. QED
        BY <3>4, <4>2, <4>3
    <3>10. CASE PublishChange
      <4>1. \A q \in Workers : overlay'[q] = Nothing \/ overlay'[q] = overlay[q]
        BY <3>10 DEF PublishChange
      <4>2. overlay' = [q \in Workers |-> overlay'[q]]
        BY <3>10 DEF PublishChange
      <4>3. UNCHANGED <<conn, written, request, saved>> /\ call' = NoCall
        BY <3>10 DEF PublishChange
      <4>4. overlay' \in [Workers -> Held] /\ \A q \in Workers : Judged(overlay'[q].row)
        BY <4>1, <4>2, NoneIs
      <4>5. QED
        BY <4>3, <4>4, NoneIs
    <3>11. QED
      BY <2>3, <3>2, <3>3, <3>5, <3>6, <3>7, <3>8, <3>9, <3>10 DEF Calling
  <2>4. CASE \E k \in Keys : RejectKey(k)
    BY <2>4 DEF RejectKey
  <2>5. CASE PassTime
    <3>1. ASSUME NEW q \in Workers
          PROVE  overlay'[q] \in Held /\ Judged(overlay'[q].row)
      <4>1. CASE overlay[q].left <= 1
        BY <2>5, <4>1, NoneIs DEF PassTime
      <4>2. CASE ~(overlay[q].left <= 1)
        <5>1. overlay'[q] = [overlay[q] EXCEPT !.left = @ - 1]
          BY <2>5, <4>2 DEF PassTime
        <5>2. QED
          BY <4>2, <5>1, ConnectionsAssumption DEF Held
      <4>3. QED
        BY <4>1, <4>2
    <3>2. ASSUME NEW q \in Workers
          PROVE  Judged(request'[q].row) /\ Asking(request'[q])
      <4>1. request'[q] = request[q] \/ request'[q] = [request[q] EXCEPT !.age = @ + 1]
        BY <2>5 DEF PassTime
      <4>2. QED
        BY <4>1 DEF Asking
    <3>3. /\ overlay' = [q \in Workers |-> overlay'[q]] /\ request' = [q \in Workers |-> request'[q]]
          /\ UNCHANGED <<conn, written, saved, call>>
      BY <2>5 DEF PassTime
    <3>4. QED
      BY <3>1, <3>2, <3>3
  <2>6. CASE UNCHANGED connVars
    BY <2>6 DEF connVars
  <2>7. QED
    BY <2>2, <2>3, <2>4, <2>5, <2>6, ConnectionSteps
<1>3. QED
  BY <1>1, <1>2, PTL DEF Spec

\* What a pod's cached row and its request may still bill a tenant for, who
\* asked for no fallback s ticks ago: a cached row that accepts it lives no
\* longer than that allows, a request that read one has waited as long.
Tight(s, o, x) ==
    /\ o.left > 0 /\ ~Strictly(o.row) => s + o.left <= OverlayTTL
    /\ x.pc \in Pending => x.age <= Wait
    /\ x.pc = "read" /\ ~Strictly(x.row) => s <= x.age
    /\ x.pc = "billed" => s <= OverlayTTL \/ s <= Wait
Loose ==
    /\ strict \in Nat /\ (~Strictly(conn) => strict = 0)
    /\ \A p \in Workers : Tight(strict, overlay[p], request[p])

\* The moment the tenant asks, nothing is out of date yet.
LEMMA TightAtFirst ==
  ASSUME NEW s, NEW o \in Held, NEW x, Asking(x), Tight(s, o, x)
  PROVE  Tight(0, o, x)
BY ConnectionsAssumption DEF Tight, Held, Asking

\* Nothing is held against an empty cache and a request that waits for nothing.
LEMMA EmptyIsTight ==
  ASSUME NEW s, NEW o \in Held, NEW x, Asking(x), Tight(s, o, x)
  PROVE  /\ Tight(s, Nothing, x)
         /\ Tight(s, o, NoRequest) /\ Tight(s, Nothing, NoRequest)
BY NoneIs DEF Tight, Pending

\* What a tick adds to the time out of date it takes from what is left.
LEMMA TickKeepsTight ==
  ASSUME NEW s \in Nat, NEW t \in Nat, t <= s + 1,
         NEW o \in Held, NEW u \in Held, u = Nothing \/ (u.row = o.row /\ u.left = o.left - 1),
         NEW x, Asking(x), x.pc \notin Leaving, x.pc \in Pending => x.age < Wait,
         NEW y, Asking(y), y.pc = x.pc, y.row = x.row,
         x.pc \in Pending => y.age = x.age + 1, Tight(s, o, x)
  PROVE  Tight(t, u, y)
<1>1. u.left > 0 /\ ~Strictly(u.row) => t + u.left <= OverlayTTL
  <2>1. CASE u = Nothing
    BY <2>1, NoneIs
  <2>2. CASE u.row = o.row /\ u.left = o.left - 1
    BY <2>2, ConnectionsAssumption DEF Tight, Held
  <2>3. QED
    BY <2>1, <2>2
<1>2. y.pc \in Pending => y.age <= Wait
  BY ConnectionsAssumption DEF Asking
<1>3. y.pc = "read" /\ ~Strictly(y.row) => t <= y.age
  BY DEF Tight, Pending, Asking
<1>4. y.pc # "billed"
  BY DEF Leaving
<1>5. QED
  BY <1>1, <1>2, <1>3, <1>4 DEF Tight

\* A cached row that bills the tenant, or a request that will, is not out of
\* date for longer than it may be.
LEMMA LooseAlways == Spec => []Loose
<1>1. Init => Loose
  BY NoneIs DEF Init, ConnectionsInit, Loose, Tight, Pending
<1>2. Loose /\ Formed /\ Formed' /\ [Next]_controlVars => Loose'
  <2> SUFFICES ASSUME Loose, Formed, Formed', [Next]_controlVars PROVE Loose'
    OBVIOUS
  <2>1. \A p \in Workers :
           /\ overlay[p] \in Held /\ Asking(request[p]) /\ Judged(overlay[p].row)
           /\ overlay'[p] \in Held /\ Asking(request'[p]) /\ Judged(request[p].row)
           /\ Tight(strict, overlay[p], request[p])
    BY DEF Formed, Loose
  <2>2. ASSUME UNCHANGED <<conn, strict>>, NEW p \in Workers,
               \A q \in Workers : q # p => overlay'[q] = overlay[q] /\ request'[q] = request[q],
               Tight(strict, overlay'[p], request'[p])
        PROVE  Loose'
    BY <2>1, <2>2 DEF Loose, Strictly
  <2>3. /\ overlay = [q \in Workers |-> overlay[q]] /\ request = [q \in Workers |-> request[q]]
        /\ Judged(conn) /\ Judged(conn)' /\ strict \in Nat /\ written \in Nat
    BY DEF Formed, Loose
  <2>4. ASSUME NEW p \in Workers, Using(p) PROVE Loose'
    <3> USE <2>1, <2>3
    <3>1. CASE Arrive(p)
      <4>1. /\ UNCHANGED <<conn, strict, overlay>>
            /\ \A q \in Workers : q # p => request'[q] = request[q]
            /\ \/ overlay[p].left > 0 /\ request'[p] = Chosen(p, overlay[p].row)
               \/ request'[p] = Deployment("ask")
        BY <3>1 DEF Arrive, Deployment
      <4>2. CASE request'[p] = Deployment("ask")
        <5>1. request'[p].pc = "ask" /\ request'[p].age = 0
          BY <4>2, DeploymentIs
        <5>2. Tight(strict, overlay'[p], request'[p])
          BY <4>1, <5>1, ConnectionsAssumption DEF Tight
        <5>3. QED
          BY <2>2, <4>1, <5>2
      <4>3. CASE overlay[p].left > 0 /\ request'[p] = Chosen(p, overlay[p].row)
        <5>1. /\ request'[p].pc \in {"idle", "sent", "reveal", "billed"} /\ request'[p].age = 0
              /\ request'[p].pc = "billed" => ~Strictly(overlay[p].row)
          BY <4>3, ChosenIs
        <5>2. Tight(strict, overlay'[p], request'[p])
          BY <4>1, <4>3, <5>1, ConnectionsAssumption DEF Tight, Held
        <5>3. QED
          BY <2>2, <4>1, <5>2
      <4>4. QED
        BY <4>1, <4>2, <4>3
    <3>2. CASE ReadRow(p)
      <4>1. /\ UNCHANGED <<conn, strict, overlay>> /\ request[p].pc = "ask"
            /\ \A q \in Workers : q # p => request'[q] = request[q]
            /\ \/ request'[p] = [request[p] EXCEPT !.pc = "read", !.row = conn]
               \/ request'[p] = Deployment("degraded")
        BY <3>2 DEF ReadRow
      <4>2. CASE request'[p] = Deployment("degraded")
        <5>1. request'[p].pc = "degraded"
          BY <4>2, DeploymentIs
        <5>2. Tight(strict, overlay'[p], request'[p])
          BY <4>1, <5>1 DEF Tight, Pending
        <5>3. QED
          BY <2>2, <4>1, <5>2
      <4>3. CASE request'[p] = [request[p] EXCEPT !.pc = "read", !.row = conn]
        <5>1. request'[p].pc = "read" /\ request'[p].row = conn /\ request'[p].age = request[p].age
          BY <4>3 DEF Asking
        <5>2. request[p].age \in Nat /\ request[p].age <= Wait /\ (~Strictly(conn) => strict = 0)
          BY <4>1 DEF Tight, Pending, Asking, Loose
        <5>3. Tight(strict, overlay'[p], request'[p])
          BY <4>1, <5>1, <5>2 DEF Tight
        <5>4. QED
          BY <2>2, <4>1, <5>3
      <4>4. QED
        BY <4>1, <4>2, <4>3
    <3>3. CASE CacheRow(p)
      <4>1. /\ UNCHANGED <<conn, strict>> /\ request[p].pc = "read"
            /\ \A q \in Workers : q # p => request'[q] = request[q] /\ overlay'[q] = overlay[q]
            /\ request'[p] = Chosen(p, request[p].row)
            /\ \/ /\ request[p].age < OverlayTTL
                  /\ overlay'[p] = [row |-> request[p].row, left |-> OverlayTTL - request[p].age]
               \/ overlay'[p] = Nothing
        BY <3>3 DEF CacheRow
      <4>2. /\ request'[p].pc \in {"idle", "sent", "reveal", "billed"} /\ request'[p].age = 0
            /\ request'[p].pc = "billed" => ~Strictly(request[p].row)
        BY <4>1, ChosenIs
      <4>3. /\ request[p].age \in Nat /\ request[p].age <= Wait
            /\ ~Strictly(request[p].row) => strict <= request[p].age
        BY <4>1 DEF Tight, Pending, Asking
      <4>4. overlay'[p].left > 0 /\ ~Strictly(overlay'[p].row)
               => strict + overlay'[p].left <= OverlayTTL
        <5>1. CASE overlay'[p] = Nothing
          BY <5>1, NoneIs
        <5>2. CASE overlay'[p] = [row |-> request[p].row, left |-> OverlayTTL - request[p].age]
          BY <4>3, <5>2, ConnectionsAssumption
        <5>3. QED
          BY <4>1, <5>1, <5>2
      <4>5. Tight(strict, overlay'[p], request'[p])
        BY <4>2, <4>3, <4>4, ConnectionsAssumption DEF Tight
      <4>6. QED
        BY <2>2, <4>1, <4>5
    <3>4. CASE Reveal(p)
      <4>1. /\ UNCHANGED <<conn, strict, overlay>>
            /\ \A q \in Workers : q # p => request'[q] = request[q]
            /\ \/ request'[p].pc = "sent" /\ request'[p].age = 0
               \/ request'[p] = Deployment("degraded")
        BY <3>4 DEF Reveal
      <4>2. request'[p].pc \in {"sent", "degraded"}
        BY <4>1, DeploymentIs
      <4>3. Tight(strict, overlay'[p], request'[p])
        BY <4>1, <4>2 DEF Tight, Pending
      <4>4. QED
        BY <2>2, <4>1, <4>3
    <3>5. CASE Answer(p)
      <4>1. /\ UNCHANGED <<conn, strict, overlay>>
            /\ \A q \in Workers : q # p => request'[q] = request[q]
            /\ request'[p].pc = "mark" \/ request'[p] = NoRequest
        BY <3>5, NoneIs DEF Answer, NoRequest
      <4>2. request'[p].pc \in {"mark", "idle"}
        BY <4>1, NoneIs
      <4>3. Tight(strict, overlay'[p], request'[p])
        BY <4>1, <4>2 DEF Tight, Pending
      <4>4. QED
        BY <2>2, <4>1, <4>3
    <3>6. CASE MarkInvalid(p)
      <4>1. /\ UNCHANGED strict /\ overlay'[p] = Nothing /\ request'[p] = NoRequest
            /\ \A q \in Workers : q # p => request'[q] = request[q] /\ overlay'[q] = overlay[q]
            /\ Write([conn EXCEPT !.status = "invalid"]) \/ UNCHANGED conn
        BY <3>6 DEF MarkInvalid
      <4>2. conn'.id = conn.id /\ conn'.fallback = conn.fallback
        BY <4>1 DEF Write, Judged, ConnRow
      <4>3. Strictly(conn') <=> Strictly(conn)
        BY <4>2 DEF Strictly
      <4>4. Tight(strict, overlay'[p], request'[p])
        BY <4>1, EmptyIsTight
      <4>5. \A q \in Workers : Tight(strict', overlay'[q], request'[q])
        BY <4>1, <4>4
      <4>6. QED
        BY <4>1, <4>3, <4>5 DEF Loose, Strictly
    <3>7. CASE InvalidateOverlay(p)
      <4>1. /\ UNCHANGED <<conn, strict, request>> /\ overlay'[p] = Nothing
            /\ \A q \in Workers : q # p => overlay'[q] = overlay[q]
        BY <3>7 DEF InvalidateOverlay
      <4>2. Tight(strict, overlay'[p], request'[p])
        BY <4>1, EmptyIsTight
      <4>3. QED
        BY <2>2, <4>1, <4>2
    <3>8. QED
      BY <2>4, <3>1, <3>2, <3>3, <3>4, <3>5, <3>6, <3>7 DEF Using
  <2>5. CASE Calling
    <3>1. ASSUME UNCHANGED <<overlay, request>>,
                 \/ strict' = strict /\ (Strictly(conn') <=> Strictly(conn))
                 \/ strict' = 0
          PROVE  Loose'
      <4>1. CASE strict' = 0
        BY <2>1, <3>1, <4>1, TightAtFirst DEF Loose
      <4>2. CASE strict' = strict /\ (Strictly(conn') <=> Strictly(conn))
        BY <3>1, <4>2 DEF Loose, Strictly
      <4>3. QED
        BY <3>1, <4>1, <4>2
    <3>2. CASE \E f \in {"mlpal", "none"} : SaveKey(f)
      BY <3>1, <3>2 DEF SaveKey
    <3>3. CASE DropOldSecret \/ StoreSecret \/ DeleteConnection \/ Reverify
      BY <3>1, <3>3 DEF DropOldSecret, StoreSecret, DeleteConnection, Reverify
    <3>4. CASE WriteRow
      <4>1. /\ UNCHANGED <<overlay, request>>
            /\ \/ strict' = 0
               \/ strict' = strict /\ Strictly(conn) /\ Strictly(conn')
        BY <3>4 DEF WriteRow
      <4>2. QED
        BY <3>1, <4>1
    <3>5. CASE DeleteRow
      BY <3>1, <3>5 DEF DeleteRow
    <3>6. CASE WriteStatus
      <4>1. UNCHANGED <<overlay, request, strict>>
            /\ (Write([conn EXCEPT !.status = call.status]) \/ UNCHANGED conn)
        BY <3>6 DEF WriteStatus
      <4>2. conn'.id = conn.id /\ conn'.fallback = conn.fallback
        BY <2>3, <4>1 DEF Write, Judged, ConnRow
      <4>3. QED
        BY <3>1, <4>1, <4>2 DEF Strictly
    <3>7. CASE PublishChange
      <4>1. UNCHANGED <<conn, strict, request>>
            /\ \A q \in Workers : overlay'[q] = Nothing \/ overlay'[q] = overlay[q]
        BY <3>7 DEF PublishChange
      <4>2. \A q \in Workers : Tight(strict', overlay'[q], request'[q])
        BY <2>1, <4>1, EmptyIsTight
      <4>3. QED
        BY <4>1, <4>2 DEF Loose, Strictly
    <3>8. QED
      BY <2>5, <3>2, <3>3, <3>4, <3>5, <3>6, <3>7 DEF Calling
  <2>6. CASE \E k \in Keys : RejectKey(k)
    BY <2>6 DEF RejectKey, Loose, Strictly
  <2>7. CASE PassTime
    <3>1. strict' \in Nat /\ strict' <= strict + 1 /\ (~Strictly(conn) => strict' = 0)
          /\ conn' = conn
      BY <2>3, <2>7 DEF PassTime, Later
    <3>2. ASSUME NEW p \in Workers PROVE Tight(strict', overlay'[p], request'[p])
      <4>1. overlay'[p] = Nothing \/ overlay'[p] = [overlay[p] EXCEPT !.left = @ - 1]
        BY <2>7 DEF PassTime
      <4>2. overlay'[p] = Nothing
            \/ (overlay'[p].row = overlay[p].row /\ overlay'[p].left = overlay[p].left - 1)
        BY <2>1, <4>1 DEF Held
      <4>3. /\ request[p].pc \notin Leaving
            /\ request[p].pc \in Pending => request[p].age < Wait
            /\ request'[p] = IF request[p].pc \in Pending
                             THEN [request[p] EXCEPT !.age = @ + 1] ELSE request[p]
        BY <2>7 DEF PassTime
      <4>4. /\ request'[p].pc = request[p].pc /\ request'[p].row = request[p].row
            /\ request[p].pc \in Pending => request'[p].age = request[p].age + 1
        BY <2>1, <4>3 DEF Asking
      <4>5. QED
        BY <2>1, <2>3, <3>1, <4>2, <4>3, <4>4, TickKeepsTight
    <3>3. QED
      BY <3>1, <3>2 DEF Loose, Strictly
  <2>8. CASE UNCHANGED connVars
    BY <2>8 DEF connVars, Loose, Strictly
  <2>9. QED
    BY <2>4, <2>5, <2>6, <2>7, <2>8, ConnectionSteps
<1>3. QED
  BY <1>1, <1>2, FormedAlways, PTL DEF Spec

\* A tenant who asked for no fallback is billed for the deployment's keys only
\* by a row cached or a request begun before it asked, whatever marks,
\* replacements and checks crossed (services/connections.py).
THEOREM NotBilledAlways == Spec => []NotBilled
<1>1. Loose => NotBilled
  BY DEF Loose, Tight, NotBilled
<1>2. QED
  BY <1>1, LooseAlways, PTL

-----------------------------------------------------------------------------
(* The keys.                                                                *)

\* The clients a pod has.
Clients(p) == {pool[p][i] : i \in 1 .. Len(pool[p])}

Client == [at : Nat \X Nat, key : Nat]

\* Some row or some client still goes by that version and that key; no row is version 0.
Version(v, k) ==
    \/ v = 0 /\ k = 0
    \/ conn.ver = v /\ conn.key = k
    \/ call.row.ver = v /\ call.row.key = k
    \/ \E p \in Workers :
         \/ overlay[p].row.ver = v /\ overlay[p].row.key = k
         \/ request[p].row.ver = v /\ request[p].row.key = k
         \/ \E c \in Clients(p) : c.at[2] = v /\ c.key = k

\* The key of a row that is there is one the tenant saved.
Named(r) == r.id # 0 => r.key \in Keys

\* A version has one key, whoever goes by it.
OneKey ==
    /\ written \in Nat
    /\ \A v, k : Version(v, k) => v \in Nat /\ v <= written
    /\ \A v, j, k : Version(v, j) /\ Version(v, k) => j = k

\* Clients are in order and every row names a saved key.
Pools ==
    /\ DOMAIN pool = Workers
    /\ saved \in 0 .. MaxKeys
    /\ \A p \in Workers : pool[p] \in Seq(Client)
    /\ Named(conn) /\ (conn.id = 0 => conn.key = 0) /\ Named(call.row)
    /\ call.pc \in {"store", "write"} => call.key \in Keys
    /\ \A p \in Workers : Named(overlay[p].row) /\ Named(request[p].row)

\* What is sent goes with the key of its row.
SentRight == \A p \in Workers : request[p].pc = "sent" => request[p].key = request[p].row.key

KeyInv == OneKey /\ Pools /\ SentRight

\* With c the row's key and t the ticks since each key was: k was within the last n.
Recent(c, t, k, n) == k = c \/ t[k] <= n

\* What is cached was replaced after it was read, what is waiting no longer ago than it waits.
FreshEnough(c, t, o, x) ==
    /\ o.left > 0 /\ o.row.id # 0 => Recent(c, t, o.row.key, OverlayTTL - o.left)
    /\ x.pc \in Pending => x.age <= Wait
    /\ x.pc = "read" /\ x.row.id # 0 => Recent(c, t, x.row.key, x.age)
    /\ x.pc = "reveal" => x.row.id # 0 /\ Recent(c, t, x.row.key, LongestHeld + x.age)
    /\ x.pc = "sent" => x.row.id # 0 /\ Recent(c, t, x.row.key, LongestHeld + Wait)

Rotation ==
    /\ replaced \in [Keys -> Nat]
    /\ conn.id # 0 => replaced[conn.key] = 0
    /\ \A p \in Workers : FreshEnough(conn.key, replaced, overlay[p], request[p])

\* What the pool makes of its clients it had, but for the one it was given.
LEMMA UsedIs ==
  ASSUME NEW S, NEW clients \in Seq(S), NEW c \in S
  PROVE  Used(clients, c) \in Seq(S)
<1> DEFINE places == {i \in 1..Len(clients) : clients[i].at = c.at}
           i == CHOOSE j \in places : TRUE
           others == IF places = {} THEN clients
                     ELSE SubSeq(clients, 1, i - 1) \o SubSeq(clients, i + 1, Len(clients))
           all == Append(others, c)
           first == Len(all) - (IF Len(all) > PoolSize THEN PoolSize ELSE Len(all)) + 1
<1>1. Used(clients, c) = SubSeq(all, first, Len(all))
  BY DEF Used
<1>2. Len(clients) \in Nat /\ \A j \in 1..Len(clients) : clients[j] \in S
  BY LenProperties, ElementOfSeq
<1>3. others \in Seq(S)
  <2>1. CASE places = {}
    BY <2>1
  <2>2. CASE places # {}
    <3>1. i \in 1..Len(clients)
      BY <2>2
    <3> HIDE DEF i, places
    <3>2. SubSeq(clients, 1, i - 1) \in Seq(S)
      BY <1>2, <3>1, SubSeqProperties
    <3>3. SubSeq(clients, i + 1, Len(clients)) \in Seq(S)
      BY <1>2, <3>1, SubSeqProperties
    <3>4. SubSeq(clients, 1, i - 1) \o SubSeq(clients, i + 1, Len(clients)) \in Seq(S)
      BY <3>2, <3>3, ConcatProperties
    <3>5. QED
      BY <2>2, <3>4
  <2>3. QED
    BY <2>1, <2>2
<1> HIDE DEF others, places, i
<1>4. all \in Seq(S)
  BY <1>3
<1> HIDE DEF all
<1>5. Len(all) \in Nat /\ \A j \in 1..Len(all) : all[j] \in S
  BY <1>4, LenProperties, ElementOfSeq
<1>6. first \in Int /\ first >= 1
  BY <1>5, ConnectionsAssumption
<1> HIDE DEF first
<1>7. SubSeq(all, first, Len(all)) \in Seq(S)
  BY <1>5, <1>6, SubSeqProperties
<1>8. QED
  BY <1>1, <1>7

\* The clients of a pod after one was used.
LEMMA ClientsUsed ==
  ASSUME NEW p \in Workers, NEW T, pool[p] \in Seq(T), NEW c \in T
  PROVE  LET u == Used(pool[p], c) IN
         /\ u \in Seq(T)
         /\ \A i \in 1..Len(u) : u[i] \in Clients(p) \cup {c}
<1> DEFINE S == Clients(p) \cup {c}
           u == Used(pool[p], c)
<1>1. u \in Seq(T)
  BY UsedIs
<1>2. pool[p] \in Seq(S)
  <2>1. pool[p] \in [1..Len(pool[p]) -> T] /\ Len(pool[p]) \in Nat
    BY LenProperties
  <2>2. pool[p] \in [1..Len(pool[p]) -> S]
    BY <2>1 DEF Clients
  <2>3. QED
    BY <2>1, <2>2, SeqDef
<1>3. c \in S
  OBVIOUS
<1> HIDE DEF S
<1>4. u \in Seq(S)
  BY <1>2, <1>3, UsedIs
<1> HIDE DEF u
<1>5. \A i \in 1..Len(u) : u[i] \in S
  BY <1>4, ElementOfSeq
<1>6. QED
  BY <1>1, <1>5 DEF u, S

\* A version that is new is the last one written.
LEMMA OneKeyStill ==
  ASSUME OneKey, NEW j, written' = written \/ written' = written + 1,
         \A v, k : Version(v, k)' => Version(v, k) \/ (written' = written + 1 /\ v = written + 1 /\ k = j)
  PROVE  OneKey'
<1>1. \A v, k : Version(v, k)' => v \in Nat /\ v <= written'
  <2> SUFFICES ASSUME NEW v, NEW k, Version(v, k)' PROVE v \in Nat /\ v <= written'
    OBVIOUS
  <2>1. CASE Version(v, k)
    <3>1. v \in Nat /\ v <= written /\ written \in Nat
      BY <2>1 DEF OneKey
    <3>2. CASE written' = written
      BY <3>1, <3>2
    <3>3. CASE written' = written + 1
      BY <3>1, <3>3
    <3>4. QED
      BY <3>2, <3>3
  <2>2. CASE written' = written + 1 /\ v = written + 1
    BY <2>2 DEF OneKey
  <2>3. QED
    BY <2>1, <2>2
<1>2. written' \in Nat
  BY DEF OneKey
<1>3. ASSUME NEW v, NEW k, NEW l, Version(v, k)', Version(v, l)'
      PROVE  k = l
  <2>1. CASE Version(v, k) /\ Version(v, l)
    BY <2>1 DEF OneKey
  <2>2. CASE written' = written + 1 /\ v = written + 1
    <3>1. ~(v <= written)
      BY <2>2 DEF OneKey
    <3>2. ~Version(v, k) /\ ~Version(v, l)
      BY <3>1 DEF OneKey
    <3>3. QED
      BY <1>3, <3>2
  <2>3. QED
    BY <1>3, <2>1, <2>2
<1>4. QED
  BY <1>1, <1>2, <1>3 DEF OneKey

\* What one pod does leaves every version its key: it takes rows that are known and
\* builds clients for the row of its request.
LEMMA PodKeeps ==
  ASSUME KeyInv, NEW p \in Workers, UNCHANGED <<conn, written, saved, call>>,
         DOMAIN pool' = Workers, pool'[p] \in Seq(Client),
         \A q \in Workers : q # p =>
             pool'[q] = pool[q] /\ overlay'[q].row = overlay[q].row /\ request'[q] = request[q],
         overlay'[p].row \in {overlay[p].row, request[p].row, NoConn},
         request'[p].row \in {request[p].row, overlay[p].row, conn, NoConn},
         \A i \in 1..Len(pool'[p]) :
             \/ pool'[p][i] \in Clients(p)
             \/ pool'[p][i].at[2] = request[p].row.ver /\ pool'[p][i].key = request[p].row.key,
         request'[p].pc = "sent" => request'[p].key = request'[p].row.key
  PROVE  KeyInv'
<1>1. NoConn.ver = 0 /\ NoConn.key = 0 /\ NoConn.id = 0
  BY DEF NoConn
<1>2. ASSUME NEW v, NEW k, Version(v, k)' PROVE Version(v, k)
  <2>1. CASE v = 0 /\ k = 0
    BY <2>1 DEF Version
  <2>2. CASE (conn.ver = v /\ conn.key = k)' \/ (call.row.ver = v /\ call.row.key = k)'
    BY <2>2 DEF Version
  <2>3. ASSUME NEW q \in Workers,
               \/ overlay'[q].row.ver = v /\ overlay'[q].row.key = k
               \/ request'[q].row.ver = v /\ request'[q].row.key = k
        PROVE  Version(v, k)
    <3>1. CASE q # p
      BY <2>3, <3>1 DEF Version
    <3>2. CASE q = p
      BY <1>1, <2>3, <3>2 DEF Version
    <3>3. QED
      BY <3>1, <3>2
  <2>4. ASSUME NEW q \in Workers, NEW i \in 1..Len(pool'[q]), pool'[q][i].at[2] = v, pool'[q][i].key = k
        PROVE  Version(v, k)
    <3>1. CASE q # p
      <4>1. pool[q][i] \in Clients(q) /\ pool[q][i].at[2] = v /\ pool[q][i].key = k
        BY <2>4, <3>1 DEF Clients
      <4>2. QED
        BY <4>1 DEF Version
    <3>2. CASE q = p
      <4>1. CASE pool'[p][i] \in Clients(p)
        BY <2>4, <3>2, <4>1 DEF Version
      <4>2. CASE pool'[p][i].at[2] = request[p].row.ver /\ pool'[p][i].key = request[p].row.key
        BY <2>4, <3>2, <4>2 DEF Version
      <4>3. QED
        BY <3>2, <4>1, <4>2
    <3>3. QED
      BY <3>1, <3>2
  <2>5. QED
    BY <1>2, <2>1, <2>2, <2>3, <2>4 DEF Version, Clients
<1>3. OneKey'
  BY <1>2, OneKeyStill DEF KeyInv
<1>4. Pools'
  <2>1. \A q \in Workers : pool'[q] \in Seq(Client)
    BY DEF KeyInv, Pools
  <2>2. \A q \in Workers : Named(overlay'[q].row) /\ Named(request'[q].row)
    BY <1>1 DEF KeyInv, Pools, Named
  <2>3. QED
    BY <2>1, <2>2 DEF KeyInv, Pools, Named
<1>5. SentRight'
  <2>1. ASSUME NEW q \in Workers, request'[q].pc = "sent" PROVE request'[q].key = request'[q].row.key
    <3>1. CASE q # p
      BY <2>1, <3>1 DEF KeyInv, SentRight
    <3>2. CASE q = p
      BY <2>1, <3>2
    <3>3. QED
      BY <3>1, <3>2
  <2>2. QED
    BY <2>1 DEF SentRight
<1>6. QED
  BY <1>3, <1>4, <1>5 DEF KeyInv

\* The client that is found for a row was built with the key of the row.
LEMMA HitIs ==
  ASSUME OneKey, Pools, NEW p \in Workers, NEW r, Version(r.ver, r.key), Pooled(p, r) # {}
  PROVE  Hit(p, r) \in Clients(p) /\ Hit(p, r) \in Client /\ Hit(p, r).key = r.key
<1> DEFINE i == CHOOSE j \in Pooled(p, r) : TRUE
<1>1. i \in 1..Len(pool[p]) /\ pool[p][i].at = PoolKey(r)
  BY DEF Pooled
<1> HIDE DEF i
<1>2. Hit(p, r) = pool[p][i]
  BY DEF Hit, i
<1>3. pool[p][i] \in Client
  BY <1>1, ElementOfSeq DEF Pools
<1>4. Hit(p, r) \in Clients(p)
  BY <1>1, <1>2 DEF Clients
<1>5. Hit(p, r).at[2] = r.ver
  BY <1>1, <1>2 DEF PoolKey
<1>6. Version(r.ver, Hit(p, r).key)
  BY <1>4, <1>5 DEF Version
<1>7. QED
  BY <1>2, <1>3, <1>4, <1>6 DEF OneKey

\* Resolving a row takes a client of it, if there is one, to the end of the pool, and
\* sends its key.
LEMMA ResolvedBy ==
  ASSUME KeyInv, NEW p \in Workers, NEW r, Judged(r), Version(r.ver, r.key)
  PROVE  /\ DOMAIN Touched(p, r) = Workers /\ Touched(p, r)[p] \in Seq(Client)
         /\ \A i \in 1..Len(Touched(p, r)[p]) : Touched(p, r)[p][i] \in Clients(p)
         /\ \A q \in Workers : q # p => Touched(p, r)[q] = pool[q]
         /\ Chosen(p, r).row \in {r, NoConn}
         /\ Chosen(p, r).pc = "sent" => Chosen(p, r).key = Chosen(p, r).row.key
         /\ Chosen(p, r).pc \in {"sent", "reveal"} => Chosen(p, r).row = r /\ r.id # 0
<1>1. DOMAIN pool = Workers /\ pool[p] \in Seq(Client)
      /\ \A i \in 1..Len(pool[p]) : pool[p][i] \in Clients(p)
  BY DEF KeyInv, Pools, Clients
<1>2. /\ DOMAIN Touched(p, r) = Workers /\ Touched(p, r)[p] \in Seq(Client)
      /\ \A i \in 1..Len(Touched(p, r)[p]) : Touched(p, r)[p][i] \in Clients(p)
      /\ \A q \in Workers : q # p => Touched(p, r)[q] = pool[q]
  <2>1. CASE r.status = "verified" /\ Pooled(p, r) # {}
    <3> DEFINE u == Used(pool[p], Hit(p, r))
    <3>1. Hit(p, r) \in Clients(p) /\ Hit(p, r) \in Client
      BY <2>1, HitIs DEF KeyInv
    <3>2. u \in Seq(Client) /\ \A i \in 1..Len(u) : u[i] \in Clients(p) \cup {Hit(p, r)}
      BY <1>1, <3>1, ClientsUsed
    <3>3. Touched(p, r) = [pool EXCEPT ![p] = u]
      BY <2>1 DEF Touched
    <3> HIDE DEF u
    <3>4. QED
      BY <1>1, <3>1, <3>2, <3>3
  <2>2. CASE ~(r.status = "verified" /\ Pooled(p, r) # {})
    <3>1. Touched(p, r) = pool
      BY <2>2 DEF Touched
    <3>2. QED
      BY <1>1, <3>1
  <2>3. QED
    BY <2>1, <2>2
<1>3. /\ Chosen(p, r).row \in {r, NoConn}
      /\ Chosen(p, r).pc = "sent" => Chosen(p, r).key = Chosen(p, r).row.key
      /\ Chosen(p, r).pc \in {"sent", "reveal"} => Chosen(p, r).row = r /\ r.id # 0
  <2>1. CASE r.id = 0
    <3>1. Chosen(p, r) = Deployment("billed")
      BY <2>1 DEF Chosen
    <3>2. QED
      BY <3>1, DeploymentIs
  <2>2. CASE r.id # 0 /\ r.status # "verified"
    <3>1. Chosen(p, r) \in {NoRequest, Deployment("billed")}
      BY <2>2 DEF Chosen
    <3>2. QED
      BY <3>1, DeploymentIs, NoneIs
  <2>3. CASE r.id # 0 /\ r.status = "verified"
    <3>1. CASE Pooled(p, r) # {}
      <4>1. Hit(p, r).key = r.key
        BY <3>1, HitIs DEF KeyInv
      <4>2. Chosen(p, r) = [pc |-> "sent", row |-> r, age |-> 0, key |-> Hit(p, r).key]
        BY <2>3, <3>1 DEF Chosen
      <4>3. QED
        BY <2>3, <4>1, <4>2
    <3>2. CASE Pooled(p, r) = {}
      <4>1. Chosen(p, r) = [pc |-> "reveal", row |-> r, key |-> 0, age |-> 0]
        BY <2>3, <3>2 DEF Chosen
      <4>2. QED
        BY <2>3, <4>1
    <3>3. QED
      BY <3>1, <3>2
  <2>4. QED
    BY <2>1, <2>2, <2>3
<1>4. QED
  BY <1>2, <1>3

\* A pod serves a request, and every version keeps its key.
LEMMA KeyUsing ==
  ASSUME KeyInv, Formed, NEW p \in Workers, Using(p), ~MarkInvalid(p)
  PROVE  KeyInv'
<1>1. /\ DOMAIN pool = Workers /\ pool[p] \in Seq(Client)
      /\ \A i \in 1..Len(pool[p]) : pool[p][i] \in Clients(p)
      /\ Judged(overlay[p].row) /\ Judged(request[p].row) /\ Asking(request[p])
      /\ Version(overlay[p].row.ver, overlay[p].row.key)
      /\ Version(request[p].row.ver, request[p].row.key)
      /\ DOMAIN overlay = Workers /\ DOMAIN request = Workers
      /\ request[p].pc = "sent" => request[p].key = request[p].row.key
  BY DEF KeyInv, Pools, Clients, Formed, Version, SentRight
<1>2. Nothing.row = NoConn /\ NoRequest.row = NoConn /\ NoRequest.pc = "idle"
      /\ \A why \in {"ask", "billed", "degraded"} :
            Deployment(why).pc = why /\ Deployment(why).row = NoConn
  BY NoneIs, DeploymentIs
<1>3. CASE Arrive(p)
  <2>1. /\ UNCHANGED <<conn, written, saved, call, overlay>>
        /\ \A q \in Workers : q # p => request'[q] = request[q]
        /\ \/ /\ request'[p] = Chosen(p, overlay[p].row)
              /\ pool' = Touched(p, overlay[p].row)
           \/ request'[p] = Deployment("ask") /\ pool' = pool
    BY <1>1, <1>3 DEF Arrive, Deployment
  <2>2. CASE request'[p] = Chosen(p, overlay[p].row) /\ pool' = Touched(p, overlay[p].row)
    <3>1. /\ DOMAIN pool' = Workers /\ pool'[p] \in Seq(Client)
          /\ \A i \in 1..Len(pool'[p]) : pool'[p][i] \in Clients(p)
          /\ \A q \in Workers : q # p => pool'[q] = pool[q]
          /\ request'[p].row \in {overlay[p].row, NoConn}
          /\ request'[p].pc = "sent" => request'[p].key = request'[p].row.key
      BY <1>1, <2>2, ResolvedBy
    <3>2. QED
      BY <2>1, <3>1, PodKeeps
  <2>3. CASE request'[p] = Deployment("ask") /\ pool' = pool
    BY <1>1, <1>2, <2>1, <2>3, PodKeeps
  <2>4. QED
    BY <2>1, <2>2, <2>3
<1>4. CASE ReadRow(p)
  <2>1. /\ UNCHANGED <<conn, written, saved, call, overlay, pool>>
        /\ \A q \in Workers : q # p => request'[q] = request[q]
        /\ \/ request'[p] = [request[p] EXCEPT !.pc = "read", !.row = conn]
           \/ request'[p] = Deployment("degraded")
    BY <1>1, <1>4 DEF ReadRow
  <2>2. request'[p].row \in {conn, NoConn} /\ request'[p].pc # "sent"
    <3>1. CASE request'[p] = [request[p] EXCEPT !.pc = "read", !.row = conn]
      BY <1>1, <3>1 DEF Asking
    <3>2. CASE request'[p] = Deployment("degraded")
      BY <1>2, <3>2
    <3>3. QED
      BY <2>1, <3>1, <3>2
  <2>3. QED
    BY <1>1, <2>1, <2>2, PodKeeps
<1>5. CASE CacheRow(p)
  <2>1. /\ UNCHANGED <<conn, written, saved, call>>
        /\ \A q \in Workers : q # p => request'[q] = request[q] /\ overlay'[q] = overlay[q]
        /\ overlay'[p].row \in {request[p].row, NoConn}
        /\ request'[p] = Chosen(p, request[p].row)
        /\ pool' = Touched(p, request[p].row)
    <3>1. /\ overlay'[p] = IF request[p].age < OverlayTTL
                           THEN [row |-> request[p].row, left |-> OverlayTTL - request[p].age]
                           ELSE Nothing
      BY <1>1, <1>5 DEF CacheRow
    <3>2. overlay'[p].row \in {request[p].row, NoConn}
      BY <1>2, <3>1
    <3>3. QED
      BY <1>1, <1>5, <3>2 DEF CacheRow
  <2>2. /\ DOMAIN pool' = Workers /\ pool'[p] \in Seq(Client)
        /\ \A i \in 1..Len(pool'[p]) : pool'[p][i] \in Clients(p)
        /\ \A q \in Workers : q # p => pool'[q] = pool[q]
        /\ request'[p].row \in {request[p].row, NoConn}
        /\ request'[p].pc = "sent" => request'[p].key = request'[p].row.key
    BY <1>1, <2>1, ResolvedBy
  <2>3. QED
    BY <2>1, <2>2, PodKeeps
<1>6. CASE Reveal(p)
  <2> DEFINE c == [at |-> PoolKey(request[p].row), key |-> request[p].row.key]
             u == Used(pool[p], c)
  <2>1. /\ UNCHANGED <<conn, written, saved, call, overlay>>
        /\ \A q \in Workers : q # p => request'[q] = request[q]
        /\ \/ /\ request'[p] = [pc |-> "sent", row |-> request[p].row,
                                key |-> request[p].row.key, age |-> 0]
              /\ pool' = [pool EXCEPT ![p] = u]
           \/ request'[p] = Deployment("degraded") /\ pool' = pool
    BY <1>1, <1>6 DEF Reveal
  <2>2. c \in Client /\ c.at[2] = request[p].row.ver /\ c.key = request[p].row.key
    BY <1>1 DEF Client, PoolKey, Judged, ConnRow
  <2> HIDE DEF c
  <2>3. u \in Seq(Client) /\ \A i \in 1..Len(u) : u[i] \in Clients(p) \cup {c}
    BY <1>1, <2>2, ClientsUsed
  <2> HIDE DEF u
  <2>4. CASE /\ request'[p] = [pc |-> "sent", row |-> request[p].row,
                               key |-> request[p].row.key, age |-> 0]
             /\ pool' = [pool EXCEPT ![p] = u]
    <3>1. /\ DOMAIN pool' = Workers /\ pool'[p] = u
          /\ \A q \in Workers : q # p => pool'[q] = pool[q]
          /\ request'[p].row = request[p].row /\ request'[p].key = request'[p].row.key
      BY <1>1, <2>4
    <3>2. QED
      BY <2>1, <2>2, <2>3, <3>1, PodKeeps
  <2>5. CASE request'[p] = Deployment("degraded") /\ pool' = pool
    BY <1>1, <1>2, <2>1, <2>5, PodKeeps
  <2>6. QED
    BY <2>1, <2>4, <2>5
<1>7. CASE Answer(p)
  <2>1. /\ UNCHANGED <<conn, written, saved, call, overlay, pool>>
        /\ \A q \in Workers : q # p => request'[q] = request[q]
        /\ \/ request'[p] = [NoRequest EXCEPT !.pc = "mark", !.row = request[p].row]
           \/ request'[p] = NoRequest
    BY <1>1, <1>7 DEF Answer
  <2>2. request'[p].row \in {request[p].row, NoConn} /\ request'[p].pc # "sent"
    BY <1>2, <2>1 DEF NoRequest
  <2>3. QED
    BY <1>1, <2>1, <2>2, PodKeeps
<1>8. CASE InvalidateOverlay(p)
  <2>1. /\ UNCHANGED <<conn, written, saved, call, request, pool>>
        /\ \A q \in Workers : q # p => overlay'[q] = overlay[q]
        /\ overlay'[p] = Nothing
    BY <1>1, <1>8 DEF InvalidateOverlay
  <2>2. QED
    BY <1>1, <1>2, <2>1, PodKeeps
<1>9. QED
  BY <1>3, <1>4, <1>5, <1>6, <1>7, <1>8 DEF Using

\* A write of the row is a new version; rows and requests are as they were or gone.
LEMMA RowsKeep ==
  ASSUME KeyInv, pool' = pool, NEW j,
         \A q \in Workers :
            /\ overlay'[q].row \in {overlay[q].row, NoConn}
            /\ request'[q].row \in {request[q].row, NoConn}
            /\ request'[q].pc = "sent" => request'[q].key = request'[q].row.key,
         call'.row \in {call.row, conn, NoConn},
         \/ written' = written /\ conn' \in {conn, NoConn}
         \/ written' = written + 1 /\ conn'.ver = written + 1 /\ conn'.key = j,
         saved' \in 0 .. MaxKeys, Named(conn'), conn'.id = 0 => conn'.key = 0,
         call'.pc \in {"store", "write"} => call'.key \in Keys
  PROVE  KeyInv'
<1>1. NoConn.ver = 0 /\ NoConn.key = 0 /\ NoConn.id = 0
  BY DEF NoConn
<1>2. ASSUME NEW v, NEW k, Version(v, k)'
      PROVE  Version(v, k) \/ (written' = written + 1 /\ v = written + 1 /\ k = j)
  <2>1. CASE v = 0 /\ k = 0
    BY <2>1 DEF Version
  <2>2. CASE conn'.ver = v /\ conn'.key = k
    BY <1>1, <2>2 DEF Version
  <2>3. CASE call'.row.ver = v /\ call'.row.key = k
    BY <1>1, <2>3 DEF Version
  <2>4. ASSUME NEW q \in Workers,
               \/ overlay'[q].row.ver = v /\ overlay'[q].row.key = k
               \/ request'[q].row.ver = v /\ request'[q].row.key = k
        PROVE  Version(v, k)
    BY <1>1, <2>4 DEF Version
  <2>5. ASSUME NEW q \in Workers, \E c \in Clients(q) : c.at[2] = v /\ c.key = k
        PROVE  Version(v, k)
    BY <2>5 DEF Version
  <2>6. \A q \in Workers : Clients(q)' = Clients(q)
    BY DEF Clients
  <2>7. QED
    BY <1>2, <2>1, <2>2, <2>3, <2>4, <2>5, <2>6 DEF Version
<1>3. OneKey'
  <2>1. OneKey /\ (written' = written \/ written' = written + 1)
    BY DEF KeyInv
  <2>2. QED
    BY <1>2, <2>1, OneKeyStill
<1>4. Pools'
  <2>2. Named(call.row)' /\ \A q \in Workers : Named(overlay'[q].row) /\ Named(request'[q].row)
    <3>1. Named(NoConn)
      BY <1>1 DEF Named
    <3>2. \A q \in Workers : Named(overlay[q].row) /\ Named(request[q].row)
      BY DEF KeyInv, Pools
    <3>3. Named(call.row) /\ Named(conn)
      BY DEF KeyInv, Pools
    <3>4. Named(call.row)'
      BY <1>1, <3>3 DEF Named
    <3>5. \A q \in Workers : Named(overlay'[q].row) /\ Named(request'[q].row)
      BY <3>1, <3>2
    <3>6. QED
      BY <3>4, <3>5
  <2>3. Named(conn)'
    BY DEF Named
  <2>4. (\A p \in Workers : Named(overlay[p].row) /\ Named(request[p].row))'
    BY <2>2 DEF Named
  <2>5. QED
    BY <2>2, <2>3, <2>4 DEF KeyInv, Pools
<1>5. SentRight'
  BY DEF SentRight
<1>6. QED
  BY <1>3, <1>4, <1>5 DEF KeyInv

\* The tenant's calls and the marks.
LEMMA KeyWritten ==
  ASSUME KeyInv, Formed, Calling \/ \E p \in Workers : MarkInvalid(p)
  PROVE  KeyInv'
<1> USE DEF KeyInv
<1>1. /\ saved \in 0 .. MaxKeys /\ Named(conn) /\ (conn.id = 0 => conn.key = 0) /\ written \in Nat
      /\ call.pc \in {"store", "write"} => call.key \in Keys
      /\ MaxKeys \in Nat /\ conn \in ConnRow /\ call \in Called
      /\ DOMAIN overlay = Workers /\ DOMAIN request = Workers
  BY ConnectionsAssumption DEF Pools, OneKey, Formed, Judged
<1>2. /\ Nothing.row = NoConn /\ NoRequest.row = NoConn /\ NoRequest.pc = "idle"
      /\ NoConn.id = 0 /\ NoConn.key = 0 /\ Named(NoConn)
      /\ NoCall.pc = "idle" /\ NoCall.row = NoConn
  BY NoneIs DEF NoConn, Named, NoCall
<1>3. \A q \in Workers : request[q].pc = "sent" => request[q].key = request[q].row.key
  BY DEF SentRight
<1>4. ASSUME NEW r \in ConnRow, Write(r)
      PROVE  /\ written' = written + 1 /\ conn'.ver = written + 1 /\ conn'.key = r.key
             /\ conn'.id = r.id
  BY <1>4 DEF Write, ConnRow
<1>5. ASSUME NEW s \in {"verified", "invalid", "none"}
      PROVE  LET r == [conn EXCEPT !.status = s] IN r \in ConnRow /\ r.key = conn.key /\ r.id = conn.id
  BY <1>1 DEF ConnRow
<1>6. ASSUME NEW p \in Workers, MarkInvalid(p) PROVE KeyInv'
  <2>1. /\ UNCHANGED <<saved, pool, call>>
        /\ \A q \in Workers :
             /\ overlay'[q].row \in {overlay[q].row, NoConn}
             /\ request'[q].row \in {request[q].row, NoConn}
             /\ request'[q].pc = "sent" => request'[q].key = request'[q].row.key
    BY <1>1, <1>2, <1>3, <1>6 DEF MarkInvalid
  <2>2. Write([conn EXCEPT !.status = "invalid"]) \/ UNCHANGED <<conn, written>>
    BY <1>6 DEF MarkInvalid
  <2>3. CASE UNCHANGED <<conn, written>>
    BY <1>1, <2>1, <2>3, RowsKeep
  <2>4. CASE Write([conn EXCEPT !.status = "invalid"])
    <3>1. written' = written + 1 /\ conn'.ver = written + 1 /\ conn'.key = conn.key /\ conn'.id = conn.id
      BY <1>4, <1>5, <2>4
    <3>2. Named(conn') /\ (conn'.id = 0 => conn'.key = 0)
      BY <1>1, <3>1 DEF Named
    <3>3. QED
      BY <1>1, <2>1, <3>1, <3>2, RowsKeep
  <2>5. QED
    BY <2>2, <2>3, <2>4
<1>7. ASSUME UNCHANGED <<pool, overlay, request>>
      PROVE  \A q \in Workers :
             /\ overlay'[q].row \in {overlay[q].row, NoConn}
             /\ request'[q].row \in {request[q].row, NoConn}
             /\ request'[q].pc = "sent" => request'[q].key = request'[q].row.key
  BY <1>3, <1>7
<1>8. CASE \E f \in {"mlpal", "none"} : SaveKey(f)
  <2>1. PICK f, s : call' = [NoCall EXCEPT !.pc = "store", !.key = saved + 1, !.status = s, !.fallback = f]
    BY <1>8 DEF SaveKey
  <2>2. call'.row = NoConn /\ call'.key = saved + 1
    BY <1>2, <2>1 DEF NoCall
  <2>3. /\ UNCHANGED <<pool, overlay, request, conn, written>> /\ saved' = saved + 1 /\ saved < MaxKeys
    BY <1>8 DEF SaveKey
  <2>4. saved' \in 0 .. MaxKeys /\ saved + 1 \in Keys
    BY <1>1, <2>3 DEF Keys
  <2>5. QED
    BY <1>1, <1>7, <2>2, <2>3, <2>4, RowsKeep
<1>9. CASE DropOldSecret \/ StoreSecret
  <2>1. /\ UNCHANGED <<pool, overlay, request, conn, written, saved>>
        /\ call'.row = call.row /\ call.pc = "store" /\ call'.key = call.key
    BY <1>1, <1>9 DEF DropOldSecret, StoreSecret, Called
  <2>2. QED
    BY <1>1, <1>7, <2>1, RowsKeep
<1>10. ASSUME NEW pc \in {"publish", "delete"}
       PROVE  [NoCall EXCEPT !.pc = pc].row = NoConn /\ [NoCall EXCEPT !.pc = pc].pc = pc
  BY <1>2 DEF NoCall
<1>11. CASE WriteRow
  <2> DEFINE id == IF conn.id = 0 THEN written + 1 ELSE conn.id
             r == [id |-> id, ver |-> 0, key |-> call.key, status |-> call.status,
                   fallback |-> call.fallback]
  <2>1. Write(r) /\ UNCHANGED <<pool, overlay, request, saved>>
        /\ call' = [NoCall EXCEPT !.pc = "publish"] /\ call.pc = "write"
    BY <1>11 DEF WriteRow
  <2>2. id \in Nat /\ id # 0 /\ call.key \in Keys
    BY <1>1, <2>1 DEF ConnRow
  <2> HIDE DEF id
  <2>3. r \in ConnRow /\ r.key = call.key /\ r.id = id
    BY <1>1, <2>2 DEF ConnRow, Called
  <2> HIDE DEF r
  <2>4. written' = written + 1 /\ conn'.ver = written + 1 /\ conn'.key = call.key /\ conn'.id = id
    BY <1>4, <2>1, <2>3
  <2>5. Named(conn')
    BY <2>2, <2>4 DEF Named
  <2>6. call'.row = NoConn /\ call'.pc = "publish"
    BY <1>10, <2>1
  <2>7. QED
    BY <1>1, <1>7, <2>1, <2>2, <2>4, <2>5, <2>6, RowsKeep
<1>12. CASE DeleteConnection
  <2>1. UNCHANGED <<pool, overlay, request, conn, written, saved>>
        /\ call' = [NoCall EXCEPT !.pc = "delete"]
    BY <1>12 DEF DeleteConnection
  <2>2. call'.row = NoConn /\ call'.pc = "delete"
    BY <1>10, <2>1
  <2>3. QED
    BY <1>1, <1>7, <2>1, <2>2, RowsKeep
<1>13. CASE DeleteRow
  <2>1. UNCHANGED <<pool, overlay, request, written, saved>> /\ conn' = NoConn
        /\ call' = [NoCall EXCEPT !.pc = "publish"]
    BY <1>13 DEF DeleteRow
  <2>2. call'.row = NoConn /\ call'.pc = "publish"
    BY <1>10, <2>1
  <2>3. QED
    BY <1>1, <1>2, <1>7, <2>1, <2>2, RowsKeep
<1>14. CASE Reverify
  <2>1. PICK s : call' = [NoCall EXCEPT !.pc = "verify", !.row = conn, !.status = s]
    BY <1>14 DEF Reverify
  <2>2. call'.row = conn /\ call'.pc = "verify"
    BY <2>1 DEF NoCall
  <2>3. UNCHANGED <<pool, overlay, request, conn, written, saved>>
    BY <1>14 DEF Reverify
  <2>4. QED
    BY <1>1, <1>7, <2>2, <2>3, RowsKeep
<1>15. CASE WriteStatus
  <2>1. UNCHANGED <<pool, overlay, request, saved>> /\ call' = [NoCall EXCEPT !.pc = "publish"]
        /\ (Write([conn EXCEPT !.status = call.status]) \/ UNCHANGED <<conn, written>>)
    BY <1>15 DEF WriteStatus
  <2>2. call'.row = NoConn /\ call'.pc = "publish"
    BY <1>10, <2>1
  <2>3. CASE UNCHANGED <<conn, written>>
    BY <1>1, <1>7, <2>1, <2>2, <2>3, RowsKeep
  <2>4. CASE Write([conn EXCEPT !.status = call.status])
    <3>1. call.status \in {"verified", "invalid", "none"}
      BY <1>1 DEF Called
    <3>2. written' = written + 1 /\ conn'.ver = written + 1 /\ conn'.key = conn.key /\ conn'.id = conn.id
      BY <1>4, <1>5, <2>4, <3>1
    <3>3. Named(conn') /\ (conn'.id = 0 => conn'.key = 0)
      BY <1>1, <3>2 DEF Named
    <3>4. QED
      BY <1>1, <1>7, <2>1, <2>2, <3>2, <3>3, RowsKeep
  <2>5. QED
    BY <2>1, <2>3, <2>4
<1>16. CASE PublishChange
  <2>1. /\ UNCHANGED <<pool, request, conn, written, saved>> /\ call' = NoCall
        /\ \A q \in Workers : overlay'[q] = Nothing \/ overlay'[q] = overlay[q]
    BY <1>16 DEF PublishChange
  <2>2. \A q \in Workers :
             /\ overlay'[q].row \in {overlay[q].row, NoConn}
             /\ request'[q].row \in {request[q].row, NoConn}
             /\ request'[q].pc = "sent" => request'[q].key = request'[q].row.key
    BY <1>2, <1>3, <2>1
  <2>3. QED
    BY <1>1, <1>2, <2>1, <2>2, RowsKeep
<1>17. QED
  BY <1>6, <1>8, <1>9, <1>11, <1>12, <1>13, <1>14, <1>15, <1>16 DEF Calling

\* A tick leaves the keys and the rows as they are.
LEMMA KeyPasses ==
  ASSUME KeyInv, Formed, PassTime
  PROVE  KeyInv'
<1>1. UNCHANGED <<conn, saved, written, pool, call>>
  BY DEF PassTime
<1>2. \A q \in Workers :
         /\ overlay'[q].row \in {overlay[q].row, NoConn}
         /\ request'[q].row \in {request[q].row, NoConn}
         /\ request'[q].pc = "sent" => request'[q].key = request'[q].row.key
  <2> SUFFICES ASSUME NEW q \in Workers
               PROVE  /\ overlay'[q].row \in {overlay[q].row, NoConn}
                      /\ request'[q].row \in {request[q].row, NoConn}
                      /\ request'[q].pc = "sent" => request'[q].key = request'[q].row.key
    OBVIOUS
  <2>1. overlay[q] \in Held /\ Asking(request[q])
        /\ (request[q].pc = "sent" => request[q].key = request[q].row.key)
    BY DEF Formed, KeyInv, SentRight
  <2>2. overlay'[q] = Nothing \/ overlay'[q] = [overlay[q] EXCEPT !.left = @ - 1]
    BY DEF PassTime
  <2>3. overlay'[q].row \in {overlay[q].row, NoConn}
    BY <2>1, <2>2, NoneIs DEF Held
  <2>4. request'[q] = request[q] \/ request'[q] = [request[q] EXCEPT !.age = @ + 1]
    BY DEF PassTime
  <2>5. request'[q].row = request[q].row /\ request'[q].pc = request[q].pc
        /\ request'[q].key = request[q].key
    BY <2>1, <2>4 DEF Asking
  <2>6. QED
    BY <2>1, <2>3, <2>5
<1>3. QED
  BY <1>1, <1>2, RowsKeep DEF KeyInv, Pools

\* At the start there is no row, no key and no client.
LEMMA KeyAtFirst == Init => KeyInv
<1> SUFFICES ASSUME Init PROVE KeyInv
  OBVIOUS
<1>1. /\ conn = NoConn /\ saved = 0 /\ written = 0 /\ call = NoCall
      /\ pool = [p \in Workers |-> <<>>]
      /\ \A p \in Workers : overlay[p] = Nothing /\ request[p] = NoRequest
  BY DEF Init, ConnectionsInit
<1>2. NoConn.ver = 0 /\ NoConn.key = 0 /\ NoConn.id = 0 /\ NoCall.row = NoConn
      /\ NoCall.pc = "idle" /\ Nothing.row = NoConn /\ NoRequest.row = NoConn
      /\ NoRequest.pc = "idle"
  BY DEF NoConn, NoCall, Nothing, NoRequest
<1>3. \A v, k : Version(v, k) => v = 0 /\ k = 0
  BY <1>1, <1>2 DEF Version, Clients
<1>4. OneKey
  BY <1>1, <1>3 DEF OneKey
<1>5. Pools
  BY <1>1, <1>2, ConnectionsAssumption DEF Pools, Named
<1>6. SentRight
  BY <1>1, <1>2 DEF SentRight
<1>7. QED
  BY <1>4, <1>5, <1>6 DEF KeyInv

\* A version of the row has one key, and what is sent goes with the key of its row.
LEMMA KeysAlways == Spec => []KeyInv
<1>1. KeyInv /\ Formed /\ [Next]_controlVars => KeyInv'
  <2> SUFFICES ASSUME KeyInv, Formed, [Next]_controlVars PROVE KeyInv'
    OBVIOUS
  <2>1. CASE UNCHANGED <<conn, saved, written, overlay, pool, request, call>>
    BY <2>1 DEF KeyInv, OneKey, Version, Clients, Pools, SentRight
  <2>2. CASE UNCHANGED connVars
    BY <2>1, <2>2 DEF connVars
  <2>3. CASE \E k \in Keys : RejectKey(k)
    BY <2>1, <2>3 DEF RejectKey
  <2>4. QED
    BY <2>2, <2>3, KeyUsing, KeyWritten, KeyPasses, ConnectionSteps
<1>2. QED
  BY <1>1, KeyAtFirst, FormedAlways, PTL DEF Spec

-----------------------------------------------------------------------------
(* How long a replaced key is used.                                         *)

\* What was recent stays so when no key's time grows.
LEMMA FreshStill ==
  ASSUME NEW c, NEW d, NEW t, NEW u, NEW o \in Held, NEW x, Asking(x),
         Named(o.row), Named(x.row), FreshEnough(c, t, o, x),
         \A k \in Keys : \A n \in Nat : Recent(c, t, k, n) => Recent(d, u, k, n)
  PROVE  FreshEnough(d, u, o, x)
<1>1. OverlayTTL - o.left \in Nat /\ x.age \in Nat /\ Wait \in Nat /\ LongestHeld \in Nat
  BY ConnectionsAssumption DEF Held, Asking, LongestHeld
<1>2. LongestHeld + x.age \in Nat /\ LongestHeld + Wait \in Nat
  BY <1>1
<1>3. QED
  BY <1>1, <1>2 DEF FreshEnough, Named

\* Nothing is held against an empty cache and a request that waits for nothing.
LEMMA EmptyIsFresh ==
  ASSUME NEW c, NEW t, NEW o, NEW x, FreshEnough(c, t, o, x)
  PROVE  /\ FreshEnough(c, t, Nothing, x)
         /\ FreshEnough(c, t, o, NoRequest) /\ FreshEnough(c, t, Nothing, NoRequest)
BY NoneIs DEF FreshEnough, Pending

\* What a tick adds to the time out of date is what it takes from the time left.
LEMMA TickKeepsFresh ==
  ASSUME NEW c, NEW t \in [Keys -> Nat], NEW u \in [Keys -> Nat],
         \A k \in Keys : k = c \/ u[k] <= t[k] + 1,
         NEW o \in Held, NEW h \in Held, h = Nothing \/ (h.row = o.row /\ h.left = o.left - 1),
         NEW x, Asking(x), x.pc \notin Leaving, x.pc \in Pending => x.age < Wait,
         NEW y, Asking(y), y.pc = x.pc, y.row = x.row,
         x.pc \in Pending => y.age = x.age + 1,
         Named(o.row), Named(x.row), FreshEnough(c, t, o, x)
  PROVE  FreshEnough(c, u, h, y)
<1>1. \A k \in Keys : \A n \in Nat : Recent(c, t, k, n) => Recent(c, u, k, n + 1)
  BY DEF Recent
<1>2. /\ OverlayTTL \in Nat /\ o.left \in 0..OverlayTTL /\ x.age \in Nat /\ y.age \in Nat
      /\ Wait \in Nat /\ LongestHeld \in Nat
  BY ConnectionsAssumption DEF Held, Asking, LongestHeld
<1>3. ASSUME h.left > 0, h.row.id # 0 PROVE Recent(c, u, h.row.key, OverlayTTL - h.left)
  <2>1. h.row = o.row /\ h.left = o.left - 1 /\ o.left > 0
    BY <1>2, <1>3, NoneIs
  <2>2. Recent(c, t, o.row.key, OverlayTTL - o.left) /\ o.row.key \in Keys
    BY <1>3, <2>1 DEF FreshEnough, Named
  <2>3. OverlayTTL - o.left \in Nat /\ (OverlayTTL - o.left) + 1 = OverlayTTL - h.left
    BY <1>2, <2>1
  <2>4. Recent(c, u, o.row.key, (OverlayTTL - o.left) + 1)
    BY <1>1, <2>2, <2>3
  <2>5. QED
    BY <2>1, <2>3, <2>4
<1>4. y.pc \in Pending => y.age <= Wait
  BY <1>2
<1>5. ASSUME y.pc = "read", y.row.id # 0 PROVE Recent(c, u, y.row.key, y.age)
  BY <1>1, <1>2, <1>5 DEF FreshEnough, Named, Pending
<1>6. ASSUME y.pc = "reveal"
      PROVE  y.row.id # 0 /\ Recent(c, u, y.row.key, LongestHeld + y.age)
  <2>1. y.row.id # 0 /\ y.row.key \in Keys /\ Recent(c, t, y.row.key, LongestHeld + x.age)
        /\ y.age = x.age + 1
    BY <1>6 DEF FreshEnough, Named, Pending
  <2>2. LongestHeld + x.age \in Nat /\ (LongestHeld + x.age) + 1 = LongestHeld + y.age
    BY <1>2, <2>1
  <2>3. Recent(c, u, y.row.key, (LongestHeld + x.age) + 1)
    BY <1>1, <2>1, <2>2
  <2>4. QED
    BY <2>1, <2>2, <2>3
<1>7. y.pc # "sent"
  BY DEF Leaving
<1>8. QED
  BY <1>3, <1>4, <1>5, <1>6, <1>7 DEF FreshEnough

\* A pod serves a request, and what it caches and sends is recent.
LEMMA RotationUsing ==
  ASSUME Rotation, KeyInv, Formed, NEW p \in Workers, Using(p)
  PROVE  Rotation'
<1> DEFINE Fresh(o, x) == FreshEnough(conn.key, replaced, o, x)
           Late(k, n) == Recent(conn.key, replaced, k, n)
<1>1. /\ \A q \in Workers : overlay[q] \in Held /\ Asking(request[q]) /\ Judged(overlay[q].row)
                            /\ Judged(request[q].row) /\ Fresh(overlay[q], request[q])
                            /\ Named(overlay[q].row) /\ Named(request[q].row)
      /\ replaced \in [Keys -> Nat] /\ (conn.id # 0 => replaced[conn.key] = 0) /\ Judged(conn)
      /\ DOMAIN overlay = Workers /\ DOMAIN request = Workers
      /\ Wait \in Nat /\ OverlayTTL \in Nat /\ LongestHeld \in Nat
      /\ LongestHeld >= Wait /\ LongestHeld >= OverlayTTL
      /\ Version(overlay[p].row.ver, overlay[p].row.key)
      /\ Version(request[p].row.ver, request[p].row.key)
  BY ConnectionsAssumption DEF Formed, Rotation, LongestHeld, KeyInv, Pools, Version
<1>2. ASSUME UNCHANGED <<conn, replaced>>,
             \A q \in Workers : q # p => overlay'[q] = overlay[q] /\ request'[q] = request[q],
             Fresh(overlay'[p], request'[p])
      PROVE  Rotation'
  BY <1>1, <1>2 DEF Rotation
<1>3. \A k \in Keys : \A m, n \in Nat : Late(k, m) /\ m <= n => Late(k, n)
  BY <1>1 DEF Recent
<1>4. ASSUME NEW x, x.pc \notin Pending \cup {"sent"}
      PROVE  Fresh(overlay[p], x) /\ Fresh(Nothing, x)
  BY <1>1, <1>4, NoneIs DEF FreshEnough, Pending
<1>5. CASE Arrive(p)
  <2>1. /\ UNCHANGED <<conn, replaced, overlay>>
        /\ \A q \in Workers : q # p => request'[q] = request[q]
        /\ \/ overlay[p].left > 0 /\ request'[p] = Chosen(p, overlay[p].row)
           \/ request'[p] = Deployment("ask")
    BY <1>1, <1>5 DEF Arrive, Deployment
  <2>2. CASE request'[p] = Deployment("ask")
    <3>1. request'[p].pc = "ask" /\ request'[p].age = 0
      BY <2>2, DeploymentIs
    <3>2. Fresh(overlay'[p], request'[p])
      BY <1>1, <2>1, <3>1 DEF FreshEnough
    <3>3. QED
      BY <1>2, <2>1, <3>2
  <2>3. CASE overlay[p].left > 0 /\ request'[p] = Chosen(p, overlay[p].row)
    <3>1. /\ request'[p].pc \in {"idle", "sent", "reveal", "billed"} /\ request'[p].age = 0
      BY <1>1, <2>3, ChosenIs
    <3>2. request'[p].pc \in {"sent", "reveal"} =>
             request'[p].row = overlay[p].row /\ overlay[p].row.id # 0
      BY <1>1, <2>3, ResolvedBy
    <3>3. ASSUME overlay[p].row.id # 0
          PROVE  Late(overlay[p].row.key, LongestHeld + 0)
                 /\ Late(overlay[p].row.key, LongestHeld + Wait)
      <4>1. Late(overlay[p].row.key, OverlayTTL - overlay[p].left) /\ overlay[p].row.key \in Keys
        BY <1>1, <2>3, <3>3 DEF FreshEnough, Named
      <4>2. OverlayTTL - overlay[p].left \in Nat /\ OverlayTTL - overlay[p].left <= LongestHeld + 0
            /\ OverlayTTL - overlay[p].left <= LongestHeld + Wait
            /\ LongestHeld + 0 \in Nat /\ LongestHeld + Wait \in Nat
        BY <1>1 DEF Held
      <4> HIDE DEF Late
      <4>3. QED
        BY <1>3, <4>1, <4>2
    <3>4. Fresh(overlay'[p], request'[p])
      BY <1>1, <2>1, <3>1, <3>2, <3>3 DEF FreshEnough
    <3>5. QED
      BY <1>2, <2>1, <3>4
  <2>4. QED
    BY <2>1, <2>2, <2>3
<1>6. CASE ReadRow(p)
  <2>1. /\ UNCHANGED <<conn, replaced, overlay>> /\ request[p].pc = "ask"
        /\ \A q \in Workers : q # p => request'[q] = request[q]
        /\ \/ request'[p] = [request[p] EXCEPT !.pc = "read", !.row = conn]
           \/ request'[p] = Deployment("degraded")
    BY <1>1, <1>6 DEF ReadRow
  <2>2. CASE request'[p] = Deployment("degraded")
    <3>1. request'[p].pc \notin Pending \cup {"sent"}
      BY <2>2, DeploymentIs DEF Pending
    <3>2. QED
      BY <1>2, <1>4, <2>1, <3>1
  <2>3. CASE request'[p] = [request[p] EXCEPT !.pc = "read", !.row = conn]
    <3>1. request'[p].pc = "read" /\ request'[p].row = conn /\ request'[p].age = request[p].age
      BY <1>1, <2>3 DEF Asking
    <3>2. request[p].age <= Wait
      BY <1>1, <2>1 DEF FreshEnough, Pending
    <3>3. Fresh(overlay'[p], request'[p])
      BY <1>1, <2>1, <3>1, <3>2 DEF FreshEnough, Recent
    <3>4. QED
      BY <1>2, <2>1, <3>3
  <2>4. QED
    BY <2>1, <2>2, <2>3
<1>7. CASE CacheRow(p)
  <2>1. /\ UNCHANGED <<conn, replaced>> /\ request[p].pc = "read"
        /\ \A q \in Workers : q # p => request'[q] = request[q] /\ overlay'[q] = overlay[q]
        /\ request'[p] = Chosen(p, request[p].row)
        /\ \/ /\ request[p].age < OverlayTTL
              /\ overlay'[p] = [row |-> request[p].row, left |-> OverlayTTL - request[p].age]
           \/ overlay'[p] = Nothing
    BY <1>1, <1>7 DEF CacheRow
  <2>2. /\ request'[p].pc \in {"idle", "sent", "reveal", "billed"} /\ request'[p].age = 0
        /\ request'[p].pc \in {"sent", "reveal"} =>
             request'[p].row = request[p].row /\ request[p].row.id # 0
    BY <1>1, <2>1, ChosenIs, ResolvedBy
  <2>3. /\ request[p].age \in Nat /\ request[p].age <= Wait
        /\ request[p].row.id # 0 => /\ Late(request[p].row.key, request[p].age)
                                    /\ request[p].row.key \in Keys
    BY <1>1, <2>1 DEF FreshEnough, Pending, Asking, Named
  <2>4. request[p].row.id # 0 => Late(request[p].row.key, LongestHeld + 0)
                                 /\ Late(request[p].row.key, LongestHeld + Wait)
    <3>1. request[p].age <= LongestHeld + 0 /\ request[p].age <= LongestHeld + Wait
          /\ LongestHeld + 0 \in Nat /\ LongestHeld + Wait \in Nat
      BY <1>1, <2>3
    <3> HIDE DEF Late
    <3>2. QED
      BY <1>3, <2>3, <3>1
  <2>5. overlay'[p].left > 0 /\ overlay'[p].row.id # 0
           => Late(overlay'[p].row.key, OverlayTTL - overlay'[p].left)
    <3>1. CASE overlay'[p] = Nothing
      BY <3>1, NoneIs
    <3>2. CASE overlay'[p] = [row |-> request[p].row, left |-> OverlayTTL - request[p].age]
      <4>1. overlay'[p].row = request[p].row /\ OverlayTTL - overlay'[p].left = request[p].age
        BY <1>1, <2>3, <3>2
      <4>2. QED
        BY <2>3, <4>1
    <3>3. QED
      BY <2>1, <3>1, <3>2
  <2>6. Fresh(overlay'[p], request'[p])
    BY <1>1, <2>2, <2>4, <2>5 DEF FreshEnough
  <2>7. QED
    BY <1>2, <2>1, <2>6
<1>8. CASE Reveal(p)
  <2>1. /\ UNCHANGED <<conn, replaced, overlay>> /\ request[p].pc = "reveal"
        /\ \A q \in Workers : q # p => request'[q] = request[q]
        /\ \/ request'[p].pc = "sent" /\ request'[p].row = request[p].row
           \/ request'[p] = Deployment("degraded")
    BY <1>1, <1>8 DEF Reveal
  <2>2. CASE request'[p] = Deployment("degraded")
    <3>1. request'[p].pc \notin Pending \cup {"sent"}
      BY <2>2, DeploymentIs DEF Pending
    <3>2. QED
      BY <1>2, <1>4, <2>1, <3>1
  <2>3. CASE request'[p].pc = "sent" /\ request'[p].row = request[p].row
    <3>1. /\ request[p].age \in Nat /\ request[p].age <= Wait /\ request[p].row.id # 0
          /\ request[p].row.key \in Keys /\ Late(request[p].row.key, LongestHeld + request[p].age)
      BY <1>1, <2>1 DEF FreshEnough, Pending, Asking, Named
    <3>2. Late(request[p].row.key, LongestHeld + Wait)
      <4>1. LongestHeld + request[p].age \in Nat /\ LongestHeld + Wait \in Nat
            /\ LongestHeld + request[p].age <= LongestHeld + Wait
        BY <1>1, <3>1
      <4> HIDE DEF Late
      <4>2. QED
        BY <1>3, <3>1, <4>1
    <3>3. Fresh(overlay'[p], request'[p])
      BY <1>1, <2>1, <2>3, <3>1, <3>2 DEF FreshEnough, Pending
    <3>4. QED
      BY <1>2, <2>1, <3>3
  <2>4. QED
    BY <2>1, <2>2, <2>3
<1>9. CASE Answer(p)
  <2>1. /\ UNCHANGED <<conn, replaced, overlay>>
        /\ \A q \in Workers : q # p => request'[q] = request[q]
        /\ request'[p].pc = "mark" \/ request'[p] = NoRequest
    BY <1>1, <1>9, NoneIs DEF Answer, NoRequest
  <2>2. request'[p].pc \notin Pending \cup {"sent"}
    BY <2>1, NoneIs DEF Pending
  <2>3. QED
    BY <1>2, <1>4, <2>1, <2>2
<1>10. CASE MarkInvalid(p)
  <2>1. /\ UNCHANGED replaced /\ overlay'[p] = Nothing /\ request'[p] = NoRequest
        /\ \A q \in Workers : q # p => request'[q] = request[q] /\ overlay'[q] = overlay[q]
        /\ Write([conn EXCEPT !.status = "invalid"]) \/ UNCHANGED conn
    BY <1>1, <1>10 DEF MarkInvalid
  <2>2. conn'.id = conn.id /\ conn'.key = conn.key
    BY <1>1, <2>1 DEF Write, Judged, ConnRow
  <2>3. Fresh(overlay'[p], request'[p])
    BY <1>1, <2>1, EmptyIsFresh
  <2>4. QED
    BY <1>1, <2>1, <2>2, <2>3 DEF Rotation
<1>11. CASE InvalidateOverlay(p)
  <2>1. /\ UNCHANGED <<conn, replaced, request>> /\ overlay'[p] = Nothing
        /\ \A q \in Workers : q # p => overlay'[q] = overlay[q]
    BY <1>1, <1>11 DEF InvalidateOverlay
  <2>2. Fresh(overlay'[p], request'[p])
    BY <1>1, <2>1, EmptyIsFresh
  <2>3. QED
    BY <1>2, <2>1, <2>2
<1>12. QED
  BY <1>5, <1>6, <1>7, <1>8, <1>9, <1>10, <1>11 DEF Using

\* The tenant's calls replace the key of the row, and make none older.
LEMMA RotationCalling ==
  ASSUME Rotation, KeyInv, Formed, Calling
  PROVE  Rotation'
<1>1. /\ \A q \in Workers : /\ overlay[q] \in Held /\ Asking(request[q])
                            /\ Named(overlay[q].row) /\ Named(request[q].row)
                            /\ FreshEnough(conn.key, replaced, overlay[q], request[q])
      /\ replaced \in [Keys -> Nat] /\ (conn.id # 0 => replaced[conn.key] = 0)
      /\ (conn.id = 0 => conn.key = 0) /\ Judged(conn) /\ call \in Called
      /\ call.pc \in {"store", "write"} => call.key \in Keys
      /\ 0 \notin Keys
  BY ConnectionsAssumption DEF Formed, Rotation, KeyInv, Pools, Keys
<1>2. ASSUME UNCHANGED <<replaced, overlay, request>>, conn'.key = conn.key, conn'.id = conn.id
      PROVE  Rotation'
  BY <1>1, <1>2 DEF Rotation
<1>3. ASSUME UNCHANGED <<overlay, request>>, replaced' \in [Keys -> Nat],
             conn'.id # 0 => replaced'[conn'.key] = 0,
             \A k \in Keys : replaced'[k] = replaced[k] \/ replaced'[k] = 0
      PROVE  Rotation'
  <2>1. \A k \in Keys : \A n \in Nat :
           Recent(conn.key, replaced, k, n) => Recent(conn'.key, replaced', k, n)
    BY <1>1, <1>3 DEF Recent
  <2>2. \A q \in Workers : FreshEnough(conn'.key, replaced', overlay[q], request[q])
    BY <1>1, <2>1, FreshStill
  <2>3. QED
    BY <1>3, <2>2 DEF Rotation
<1>4. CASE \E f \in {"mlpal", "none"} : SaveKey(f)
  BY <1>2, <1>4 DEF SaveKey
<1>5. CASE DropOldSecret \/ StoreSecret \/ DeleteConnection \/ Reverify
  BY <1>2, <1>5 DEF DropOldSecret, StoreSecret, DeleteConnection, Reverify
<1>6. CASE WriteRow
  <2>1. UNCHANGED <<overlay, request>> /\ call.key \in Keys
        /\ replaced' = [replaced EXCEPT ![call.key] = 0]
        /\ conn'.key = call.key
    BY <1>1, <1>6 DEF WriteRow, Write
  <2>2. QED
    BY <1>1, <1>3, <2>1
<1>7. CASE DeleteRow
  <2>1. UNCHANGED <<overlay, request, replaced>> /\ conn'.id = 0
    BY <1>7 DEF DeleteRow, NoConn
  <2>2. QED
    BY <1>1, <1>3, <2>1
<1>8. CASE WriteStatus
  <2>1. UNCHANGED <<overlay, request, replaced>>
        /\ (Write([conn EXCEPT !.status = call.status]) \/ UNCHANGED conn)
    BY <1>8 DEF WriteStatus
  <2>2. conn'.id = conn.id /\ conn'.key = conn.key
    BY <1>1, <2>1 DEF Write, Judged, ConnRow
  <2>3. QED
    BY <1>2, <2>1, <2>2
<1>9. CASE PublishChange
  <2>1. UNCHANGED <<conn, replaced, request>>
        /\ \A q \in Workers : overlay'[q] = Nothing \/ overlay'[q] = overlay[q]
    BY <1>9 DEF PublishChange
  <2>2. \A q \in Workers : FreshEnough(conn.key, replaced, overlay'[q], request[q])
    BY <1>1, <2>1, EmptyIsFresh
  <2>3. QED
    BY <1>1, <2>1, <2>2 DEF Rotation
<1>10. QED
  BY <1>4, <1>5, <1>6, <1>7, <1>8, <1>9 DEF Calling

\* What is cached, waits or is sent was the row's key not long ago.
LEMMA RotationAlways == Spec => []Rotation
<1>1. Init => Rotation
  <2> SUFFICES ASSUME Init PROVE Rotation
    OBVIOUS
  <2>1. /\ conn = NoConn /\ replaced \in [Keys -> Nat]
        /\ \A p \in Workers : overlay[p] = Nothing /\ request[p] = NoRequest
    BY DEF Init, ConnectionsInit
  <2>2. NoConn.id = 0 /\ NoRequest.pc = "idle" /\ Nothing.left = 0
    BY NoneIs DEF NoConn
  <2>3. QED
    BY <2>1, <2>2 DEF Rotation, FreshEnough, Pending
<1>2. Rotation /\ KeyInv /\ Formed /\ Formed' /\ [Next]_controlVars => Rotation'
  <2> SUFFICES ASSUME Rotation, KeyInv, Formed, Formed', [Next]_controlVars PROVE Rotation'
    OBVIOUS
  <2>1. CASE UNCHANGED <<conn, replaced, overlay, request>>
    BY <2>1 DEF Rotation
  <2>2. CASE \E k \in Keys : RejectKey(k)
    BY <2>1, <2>2 DEF RejectKey
  <2>3. CASE UNCHANGED connVars
    BY <2>1, <2>3 DEF connVars
  <2>4. CASE PassTime
    <3>1. /\ \A q \in Workers : /\ overlay[q] \in Held /\ Asking(request[q])
                                /\ overlay'[q] \in Held /\ Asking(request'[q])
                                /\ Named(overlay[q].row) /\ Named(request[q].row)
                                /\ FreshEnough(conn.key, replaced, overlay[q], request[q])
          /\ replaced \in [Keys -> Nat] /\ (conn.id # 0 => replaced[conn.key] = 0)
          /\ Named(conn)
      BY DEF Formed, Rotation, KeyInv, Pools
    <3>2. /\ conn' = conn /\ replaced' \in [Keys -> Nat]
          /\ \A k \in Keys : replaced'[k] <= replaced[k] + 1
          /\ conn.key \in Keys => replaced'[conn.key] = 0
      <4>1. conn' = conn
        BY <2>4 DEF PassTime
      <4>2. replaced' = [k \in Keys |-> IF k = conn.key THEN 0 ELSE Later(replaced[k], LongAgo)]
        BY <2>4 DEF PassTime
      <4>3. \A k \in Keys : Later(replaced[k], LongAgo) \in Nat
                            /\ Later(replaced[k], LongAgo) <= replaced[k] + 1
        BY <3>1 DEF Later
      <4>4. QED
        BY <3>1, <4>1, <4>2, <4>3
    <3>3. ASSUME NEW p \in Workers
          PROVE  FreshEnough(conn.key, replaced', overlay'[p], request'[p])
      <4>1. overlay'[p] = Nothing \/ overlay'[p] = [overlay[p] EXCEPT !.left = @ - 1]
        BY <2>4 DEF PassTime
      <4>2. overlay'[p] = Nothing
            \/ (overlay'[p].row = overlay[p].row /\ overlay'[p].left = overlay[p].left - 1)
        BY <3>1, <4>1 DEF Held
      <4>3. /\ request[p].pc \notin Leaving
            /\ request[p].pc \in Pending => request[p].age < Wait
            /\ request'[p] = IF request[p].pc \in Pending
                             THEN [request[p] EXCEPT !.age = @ + 1] ELSE request[p]
        BY <2>4 DEF PassTime
      <4>4. /\ request'[p].pc = request[p].pc /\ request'[p].row = request[p].row
            /\ request[p].pc \in Pending => request'[p].age = request[p].age + 1
        BY <3>1, <4>3 DEF Asking
      <4>5. QED
        BY <3>1, <3>2, <4>2, <4>3, <4>4, TickKeepsFresh
    <3>4. conn.id # 0 => replaced'[conn.key] = 0
      BY <3>1, <3>2 DEF Named
    <3>5. QED
      BY <3>2, <3>3, <3>4 DEF Rotation
  <2>5. QED
    BY <2>2, <2>3, <2>4, RotationUsing, RotationCalling, ConnectionSteps
<1>3. QED
  BY <1>1, <1>2, KeysAlways, FormedAlways, PTL DEF Spec

\* A request is sent with the key of the row it was resolved by, and a key the
\* tenant replaced or removed no longer than a cached row lives, or a request
\* waits for the row, and then for custody, although nobody was told and the
\* clients built of it stay pooled (services/connections.py).
THEOREM RotationTakesHold == Spec => []RotationTakesEffect
<1>1. KeyInv /\ Rotation => RotationTakesEffect
  BY DEF KeyInv, SentRight, Rotation, FreshEnough, Recent, RotationTakesEffect
<1>2. QED
  BY <1>1, KeysAlways, RotationAlways, PTL

-----------------------------------------------------------------------------
(* The catalog.                                                              *)

\* A step of a pod that does not commit.
Syncing(p) ==
    \/ \E d \in Docs(table) : Boot(p, d) \/ Pull(p, d)
    \/ Stop(p) \/ ReadTables(p) \/ RecordVersion(p)

\* What a step of the control plane may do to the catalog.
LEMMA CatalogSteps ==
  ASSUME [Next]_controlVars
  PROVE  \/ \E p \in Pods : Syncing(p) \/ CommitTables(p)
         \/ PauseModel \/ SetMode \/ Midnight \/ UNCHANGED catalogVars
BY DEF Next, CatalogNext, controlVars, Syncing

\* Rows have their types, and no price is in force before its day.
Sane(t, r, today) ==
    /\ t = "registry" => r \in RegistryRows
    /\ t = "pricing" => r \in [Days -> PriceRow] /\ \A d \in Days : r[d].active => d <= today

\* A task has its type, and its plan was made before.
Bound(t, x, today) ==
    /\ x.pc \in {"due", "planned"} => x.doc \in Docs(t)
    /\ x.pc = "planned" =>
         /\ x = [pc |-> "planned", why |-> x.why, doc |-> x.doc, read |-> x.read,
                 on |-> x.on, alone |-> x.alone]
         /\ x.on \in Days /\ x.on <= today /\ Sane(t, x.read, today)

CatalogShape ==
    /\ table \in Tables /\ day \in Days /\ Sane(table, rows, day)
    /\ syncs = [q \in Pods |-> syncs[q]] /\ \A p \in Pods : Bound(table, syncs[p], day)

-----------------------------------------------------------------------------
(* The registry.                                                            *)

Follows(row1, doc) == row1.source = "mlpal-feed" \/ (row1.source = "none" /\ doc # "absent")

\* What the row is brought to.
Brought(row1, doc) ==
    IF Follows(row1, doc)
    THEN [source |-> "mlpal-feed", active |-> WantedRow(row1, doc).active,
          deprecated |-> WantedRow(row1, doc).deprecated, paused |-> WantedRow(row1, doc).paused]
    ELSE row1

\* Whoever reconciles what was read with a document brings the row there, unless another
\* has inserted it; and once it is there nothing is written any more.
LEMMA RegistryBrought ==
  ASSUME NEW read \in RegistryRows, NEW doc \in {"listed", "retired", "absent"}, NEW now \in {read, Brought(read, doc)},
         NEW o \in SyncRegistry(read, doc, now)
  PROVE  /\ o.ok => o.rows = Brought(read, doc)
         /\ now = read => o.ok
<1>1. CASE read.source = "none" /\ doc # "absent"
  <2>1. CASE now.source # "none"
    BY <1>1, <2>1 DEF SyncRegistry, Refused
  <2>2. CASE now.source = "none"
    <3>1. o = Written([source |-> "mlpal-feed", active |-> FeedRow(doc).active,
                       deprecated |-> FeedRow(doc).deprecated, paused |-> FeedRow(doc).paused])
      BY <1>1, <2>2 DEF SyncRegistry
    <3>2. o.ok /\ o.rows = [source |-> "mlpal-feed", active |-> FeedRow(doc).active,
                       deprecated |-> FeedRow(doc).deprecated, paused |-> FeedRow(doc).paused]
      BY <3>1 DEF Written
    <3>3. WantedRow(read, doc) = FeedRow(doc)
      BY <1>1 DEF WantedRow
    <3>4. QED
      BY <1>1, <3>2, <3>3 DEF Brought, Follows
  <2>3. QED
    BY <2>1, <2>2
<1>2. CASE read.source = "mlpal-feed"
  <2> DEFINE want == WantedRow(read, doc)
  <2>1. want.active \in BOOLEAN /\ want.deprecated \in BOOLEAN /\ want.paused \in BOOLEAN
    BY DEF WantedRow, FeedRow, RegistryRows
  <2>2. o = Written(WriteColumns(read, want, now))
    BY <1>2 DEF SyncRegistry
  <2>3. Brought(read, doc) = [source |-> "mlpal-feed", active |-> want.active,
                              deprecated |-> want.deprecated, paused |-> want.paused]
    BY <1>2 DEF Brought, Follows
  <2> HIDE DEF want
  <2>4. /\ DOMAIN now = {"source", "active", "deprecated", "paused"} /\ now.source = "mlpal-feed"
        /\ now = [x \in DOMAIN now |-> now[x]]
        /\ now.active \in {read.active, want.active}
        /\ now.deprecated \in {read.deprecated, want.deprecated}
        /\ now.paused \in {read.paused, want.paused}
    BY <1>2, <2>3 DEF RegistryRows
  <2> DEFINE a == IF want.active # read.active THEN want.active ELSE now.active
             d == IF want.deprecated # read.deprecated THEN want.deprecated ELSE now.deprecated
             u == IF want.paused # read.paused THEN want.paused ELSE now.paused
  <2>5. a = want.active /\ d = want.deprecated /\ u = want.paused
    BY <2>4, Zenon
  <2>7. WriteColumns(read, want, now) = [[[now EXCEPT !.active = a] EXCEPT !.deprecated = d]
                                           EXCEPT !.paused = u]
    BY <2>4 DEF WriteColumns
  <2> HIDE DEF a, d, u
  <2>8. WriteColumns(read, want, now) = Brought(read, doc)
    BY <2>3, <2>4, <2>5, <2>7
  <2>6. QED
    BY <2>2, <2>8 DEF Written
<1>3. CASE ~Follows(read, doc)
  <2>1. o = Written(now) /\ Brought(read, doc) = read
    BY <1>3 DEF SyncRegistry, Follows, Brought
  <2>2. QED
    BY <2>1 DEF Written
<1>4. QED
  BY <1>1, <1>2, <1>3 DEF Follows

\* A row that was brought there stays, and says what the document says.
LEMMA BroughtStays ==
  ASSUME table = "registry", NEW r \in RegistryRows, NEW doc \in Docs(table), NEW today
  PROVE  /\ Brought(r, doc) \in RegistryRows
         /\ Brought(Brought(r, doc), doc) = Brought(r, doc)
         /\ Agrees(Brought(r, doc), doc, today)
         /\ Agrees(r, doc, today) => Brought(r, doc) = r
<1> DEFINE b == Brought(r, doc)
<1>1. doc \in {"listed", "retired", "absent"}
  BY DEF Docs
<1>2. CASE ~Follows(r, doc)
  <2>1. b = r /\ (r.source = "local" \/ (r.source = "none" /\ doc = "absent"))
    BY <1>2 DEF Brought, Follows, RegistryRows
  <2>2. QED
    BY <2>1 DEF Agrees
<1>3. CASE Follows(r, doc)
  <2> DEFINE w == WantedRow(r, doc)
             v == WantedRow(b, doc)
  <2>1. b = [source |-> "mlpal-feed", active |-> w.active, deprecated |-> w.deprecated,
             paused |-> w.paused]
    BY <1>3 DEF Brought
  <2>2. w.active \in BOOLEAN /\ w.deprecated \in BOOLEAN /\ w.paused \in BOOLEAN
    BY DEF WantedRow, FeedRow, RegistryRows
  <2> HIDE DEF b, w, v
  <2>3. b \in RegistryRows /\ b.source = "mlpal-feed" /\ b.active = w.active
        /\ b.deprecated = w.deprecated /\ b.paused = w.paused
    BY <2>1, <2>2 DEF RegistryRows
  <2>4. v.active = w.active /\ v.deprecated = w.deprecated /\ v.paused = w.paused
    <3>1. v.active = w.active
      BY DEF WantedRow, FeedRow, v, w
    <3>2. v.deprecated = w.deprecated
      BY DEF WantedRow, FeedRow, v, w
    <3>3. v.paused = w.paused
      BY <2>3 DEF WantedRow, FeedRow, v, w
    <3>4. QED
      BY <3>1, <3>2, <3>3
  <2>5. Brought(b, doc) = b
    <3>1. Brought(b, doc) = [source |-> "mlpal-feed", active |-> v.active,
                             deprecated |-> v.deprecated, paused |-> v.paused]
      BY <2>3 DEF Brought, Follows, v
    <3>2. QED
      BY <2>1, <2>4, <3>1
  <2>6. doc # "absent" => WantedRow(r, doc) = FeedRow(doc)
    BY DEF WantedRow
  <2>7. Agrees(b, doc, today)
    <3>1. CASE doc = "absent"
      <4>1. ~b.active /\ b.deprecated
        BY <2>3, <3>1 DEF WantedRow, w
      <4>2. QED
        BY <2>3, <3>1, <4>1 DEF Agrees
    <3>2. CASE doc # "absent"
      <4>1. \A c \in Columns : b[c] = FeedRow(doc)[c]
        BY <2>3, <2>6, <3>2 DEF Columns, w
      <4>2. QED
        BY <2>3, <3>2, <4>1 DEF Agrees
    <3>3. QED
      BY <3>1, <3>2
  <2>8. Agrees(r, doc, today) => b = r
    <3> SUFFICES ASSUME Agrees(r, doc, today) PROVE b = r
      OBVIOUS
    <3>1. r.source = "mlpal-feed"
          /\ IF doc = "absent" THEN ~r.active /\ r.deprecated
             ELSE \A c \in Columns : r[c] = FeedRow(doc)[c]
      BY <1>3, Zenon DEF Agrees, Follows
    <3>2. r.active = w.active /\ r.deprecated = w.deprecated /\ r.paused = w.paused
      <4>1. CASE doc = "absent"
        BY <3>1, <4>1 DEF WantedRow, RegistryRows, w
      <4>2. CASE doc # "absent"
        BY <2>6, <3>1, <4>2 DEF Columns, w
      <4>3. QED
        BY <4>1, <4>2
    <3>3. QED
      BY <2>1, <3>1, <3>2 DEF RegistryRows
  <2>9. QED
    BY <2>3, <2>5, <2>7, <2>8 DEF b
<1>4. QED
  BY <1>2, <1>3

-----------------------------------------------------------------------------
(* Prices.                                                                  *)

Prices == [Days -> PriceRow]

\* Some row in force asks what the document says, and today's does.
Asks(r, doc) == \E d \in Days : r[d].active /\ r[d].rate = doc
Topped(r, doc, today) == r[today].active /\ r[today].rate = doc

\* A row of today that is in force is the current price.
LEMMA ToppedIsCurrent ==
  ASSUME NEW r \in Prices, NEW doc, NEW today \in Days, Topped(r, doc, today)
  PROVE  CurrentPrice(r, today) = doc /\ Asks(r, doc)
<1> DEFINE inForce == {d \in ActiveDays(r) : d <= today}
           d == CHOOSE d \in inForce : \A e \in inForce : e <= d
<1>1. today \in inForce /\ \A e \in inForce : e <= today
  BY DEF ActiveDays, Topped, Days
<1>2. \A e \in inForce : e \in Nat
  BY DEF ActiveDays, Days
<1>3. inForce # {} /\ CurrentPrice(r, today) = r[d].rate
  BY <1>1 DEF CurrentPrice
<1> HIDE DEF inForce
<1>4. d \in inForce /\ \A e \in inForce : e <= d
  BY <1>1
<1> HIDE DEF d
<1>5. d = today
  BY <1>1, <1>2, <1>4
<1>6. QED
  BY <1>3, <1>5 DEF Topped, Asks

\* The one price in force is the current one.
LEMMA OnlyIsCurrent ==
  ASSUME NEW r \in Prices, NEW today \in Days, NEW d \in Days, d <= today, ActiveDays(r) = {d}
  PROVE  CurrentPrice(r, today) = r[d].rate
<1>1. {e \in ActiveDays(r) : e <= today} = {d}
  OBVIOUS
<1>2. (CHOOSE x \in {d} : \A e \in {d} : e <= x) = d
  BY DEF Days
<1>3. QED
  BY <1>1, <1>2 DEF CurrentPrice

\* Without a price in force there is no current price.
LEMMA NoneIsCurrent ==
  ASSUME NEW r, NEW today, ActiveDays(r) = {}
  PROVE  CurrentPrice(r, today) = 0
BY DEF CurrentPrice

\* At most one price is in force.
Single(r) == Cardinality(ActiveDays(r)) <= 1

\* Of at most one price there is none or one.
LEMMA SingleIs ==
  ASSUME NEW r, Single(r)
  PROVE  ActiveDays(r) = {} \/ \E d \in Days : ActiveDays(r) = {d}
<1>1. IsFiniteSet(ActiveDays(r)) /\ ActiveDays(r) \subseteq Days
  <2>1. IsFiniteSet(Days)
    BY CatalogAssumption, FS_Interval DEF Days
  <2>2. QED
    BY <2>1, FS_Subset DEF ActiveDays
<1>2. CASE ActiveDays(r) # {}
  <2>1. PICK d \in ActiveDays(r) : TRUE
    BY <1>2
  <2>2. Cardinality(ActiveDays(r)) <= 1
    BY DEF Single
  <2>3. Cardinality(ActiveDays(r)) = 1
    <3>1. Cardinality(ActiveDays(r)) \in Nat /\ Cardinality(ActiveDays(r)) # 0
      BY <1>1, <1>2, FS_CardinalityType, FS_EmptySet
    <3>2. QED
      BY <2>2, <3>1
  <2>4. \E x : ActiveDays(r) = {x}
    BY <1>1, <2>3, FS_Singleton
  <2>5. QED
    BY <1>1, <2>4
<1>3. QED
  BY <1>2

\* The prices with today's row in force.
PricedToday(now, doc, today) == [now EXCEPT ![today] = [rate |-> doc, active |-> TRUE]]

\* Putting a price in force today changes today's row only.
LEMMA PricedTodayIs ==
  ASSUME NEW now \in Prices, NEW doc \in Rates, NEW today \in Days
  PROVE  /\ PricedToday(now, doc, today) \in Prices
         /\ Topped(PricedToday(now, doc, today), doc, today)
         /\ \A e \in Days \ {today} : PricedToday(now, doc, today)[e] = now[e]
BY DEF PricedToday, Prices, PriceRow, Topped

\* Nothing else is ever written; and when the plan knows today's row it is written.
LEMMA ActivateIs ==
  ASSUME NEW read, NEW now, NEW doc, NEW today, NEW o, o \in ActivatePrice(read, now, doc, today)
  PROVE  /\ o.ok => o.rows = PricedToday(now, doc, today)
         /\ read[today].rate = now[today].rate => o.ok
<1>1. PICK seen \in {read, now} : o = IF seen[today].rate # 0 \/ now[today].rate = 0
                                      THEN Written(PricedToday(now, doc, today)) ELSE Refused
  BY DEF ActivatePrice, PricedToday
<1>2. CASE o = Written(PricedToday(now, doc, today))
  BY <1>2 DEF Written
<1>3. CASE o = Refused /\ ~(seen[today].rate # 0 \/ now[today].rate = 0)
  <2>1. ~o.ok
    BY <1>3 DEF Refused
  <2>2. QED
    BY <1>3, <2>1
<1>4. QED
  BY <1>1, <1>2, <1>3

\* Taking a price out of force.
LEMMA DeactivateIs ==
  ASSUME NEW r \in Prices, NEW d \in Days
  PROVE  /\ Deactivate(r, d) \in Prices /\ ~Deactivate(r, d)[d].active
         /\ Deactivate(r, d)[d].rate = r[d].rate
         /\ \A e \in Days \ {d} : Deactivate(r, d)[e] = r[e]
         /\ \A e \in Days : Deactivate(r, d)[e].rate = r[e].rate
         /\ \A e \in Days : Deactivate(r, d)[e].active => r[e].active
         /\ ~r[d].active => Deactivate(r, d) = r
<1>1. Deactivate(r, d) = [r EXCEPT ![d] = [r[d] EXCEPT !.active = FALSE]]
  BY DEF Deactivate
<1>2. r[d] \in PriceRow
  BY DEF Prices
<1>3. [r[d] EXCEPT !.active = FALSE] \in PriceRow
      /\ [r[d] EXCEPT !.active = FALSE].active = FALSE
      /\ [r[d] EXCEPT !.active = FALSE].rate = r[d].rate
      /\ (~r[d].active => [r[d] EXCEPT !.active = FALSE] = r[d])
  BY <1>2 DEF PriceRow
<1> DEFINE x == [r[d] EXCEPT !.active = FALSE]
<1> HIDE DEF x
<1>4. Deactivate(r, d) = [r EXCEPT ![d] = x] /\ x \in PriceRow /\ x.active = FALSE
      /\ x.rate = r[d].rate /\ (~r[d].active => x = r[d])
  BY <1>1, <1>3 DEF x
<1>5. QED
  BY <1>4 DEF Prices

\* What a reconcile makes of the prices: nothing, or today's row is in force, and whatever
\* else is was before; the superseded price of the plan is not.
Repriced(read, now, doc, today, new) ==
    /\ new \in Prices
    /\ new = now \/ Topped(new, doc, today)
    /\ \A e \in Days \ {today} : new[e].active => now[e].active /\ new[e].rate = now[e].rate
    /\ \A d \in Days : ActiveDays(read) = {d} =>
         IF read[d].rate = doc THEN new = now
         ELSE Topped(new, doc, today) /\ (d # today => ~new[d].active)

\* A reconcile that is not turned down does that.
LEMMA PricedBy ==
  ASSUME NEW read, NEW now \in Prices, NEW doc \in Rates, NEW today \in Days,
         NEW o, o \in SyncPricing(read, doc, now, today), o.ok
  PROVE  Repriced(read, now, doc, today, o.rows)
<1> USE DEF Repriced
<1>1. CASE ActiveDays(read) = {}
  <2>1. o \in ActivatePrice(read, now, doc, today)
    BY <1>1 DEF SyncPricing
  <2>2. o.rows = PricedToday(now, doc, today)
    BY <2>1, ActivateIs
  <2>3. /\ o.rows \in Prices /\ Topped(o.rows, doc, today)
        /\ \A e \in Days \ {today} : o.rows[e] = now[e]
    BY <2>2, PricedTodayIs
  <2>4. QED
    BY <1>1, <2>3
<1>2. CASE ActiveDays(read) # {}
  <2>1. PICK d \in ActiveDays(read) :
           o \in IF read[d].rate = doc THEN {Written(now)}
                 ELSE ActivatePrice(read, Deactivate(now, d), doc, today)
    BY <1>2 DEF SyncPricing
  <2>2. d \in Days
    BY DEF ActiveDays
  <2>3. \A x \in Days : ActiveDays(read) = {x} => x = d
    OBVIOUS
  <2>4. CASE read[d].rate = doc
    <3>1. o.rows = now
      BY <2>1, <2>4 DEF Written
    <3>2. QED
      BY <2>3, <2>4, <3>1
  <2>5. CASE read[d].rate # doc
    <3> DEFINE less == Deactivate(now, d)
    <3>1. o \in ActivatePrice(read, less, doc, today)
      BY <2>1, <2>5
    <3>2. /\ less \in Prices /\ ~less[d].active
          /\ \A e \in Days : less[e].active => now[e].active
          /\ \A e \in Days : less[e].rate = now[e].rate
      BY <2>2, DeactivateIs
    <3> HIDE DEF less
    <3>3. o.rows = PricedToday(less, doc, today)
      BY <3>1, ActivateIs
    <3>4. /\ o.rows \in Prices /\ Topped(o.rows, doc, today)
          /\ \A e \in Days \ {today} : o.rows[e] = less[e]
      BY <3>2, <3>3, PricedTodayIs
    <3>5. QED
      BY <2>2, <2>3, <2>5, <3>2, <3>4
  <2>6. QED
    BY <2>4, <2>5
<1>3. QED
  BY <1>1, <1>2

-----------------------------------------------------------------------------
(* Routes.                                                                  *)

\* What the rows of a tag are brought to.
Target(doc) == [q \in Places |-> Candidate(doc, q)]

\* A reconcile that finds what it read, or what it wants, comes to what it wants.
LEMMA RoutedTo ==
  ASSUME NEW read, NEW doc, NEW now, now \in {read, Target(doc)},
         NEW o, o \in SyncRouting(read, doc, now)
  PROVE  /\ o.ok => o.rows = Target(doc)
         /\ now = read => o.ok
<1> DEFINE hit == \E p \in Places : read[p] = "none" /\ Candidate(doc, p) # "none" /\ now[p] # "none"
           all == [p \in Places |->
                     IF Candidate(doc, p) = read[p] \/ (read[p] # "none" /\ now[p] = "none")
                     THEN now[p] ELSE Candidate(doc, p)]
<1>1. o = IF hit THEN Refused ELSE Written(all)
  BY Zenon DEF SyncRouting
<1>2. CASE hit
  <2>1. now # read
    BY <1>2
  <2>2. ~o.ok
    BY <1>1, <1>2 DEF Refused
  <2>3. QED
    BY <2>1, <2>2
<1>3. CASE ~hit
  <2>1. \A p \in Places : all[p] = Candidate(doc, p)
    <3> SUFFICES ASSUME NEW p \in Places PROVE all[p] = Candidate(doc, p)
      OBVIOUS
    <3> DEFINE c == Candidate(doc, p)
    <3>1. now[p] \in {read[p], c}
      BY DEF Target
    <3>2. ~(read[p] = "none" /\ c # "none" /\ now[p] # "none")
      BY <1>3
    <3>3. all[p] = IF c = read[p] \/ (read[p] # "none" /\ now[p] = "none") THEN now[p] ELSE c
      OBVIOUS
    <3> HIDE DEF all, hit
    <3>4. all[p] = c
      <4> HIDE DEF c
      <4>1. QED
        BY <3>1, <3>2, <3>3
    <3>5. QED
      BY <3>4
  <2>2. all = Target(doc)
    BY <2>1 DEF Target
  <2> HIDE DEF all, hit
  <2>3. QED
    BY <1>1, <1>3, <2>2 DEF Written
<1>4. QED
  BY <1>2, <1>3

-----------------------------------------------------------------------------
\* The price the plan read is not in force any more, unless it is the one asked for.
Superseded(read, r, doc, today) ==
    \A d \in Days \ {today} : read[d].active /\ read[d].rate # doc => ~r[d].active

\* Prices that copies of a plan may have written since it was made.
PriceSettled(read, doc, r, today) ==
    \/ r = read
    \/ Topped(r, doc, today) /\ Superseded(read, r, doc, today)
    \/ Asks(read, doc) /\ CurrentPrice(r, today) = doc

\* What the rows may be while nobody but copies of the plan wrote.
Kept(t, x, r, today) ==
    /\ t = "registry" => r \in {x.read, Brought(x.read, x.doc)}
    /\ t = "routing" => r \in {x.read, Target(x.doc)}
    /\ t = "pricing" =>
         /\ r = x.read \/ Asks(r, x.doc)
         /\ x.on = today /\ Single(x.read) => PriceSettled(x.read, x.doc, r, today)

PlansHold ==
    \A p \in Pods : syncs[p].pc = "planned" /\ syncs[p].alone => Kept(table, syncs[p], rows, day)

\* To put a price in force that is in force changes nothing, nor does taking the one it
\* superseded out of force again.
LEMMA NothingMore ==
  ASSUME NEW r \in Prices, NEW doc, NEW today \in Days, Topped(r, doc, today)
  PROVE  /\ PricedToday(r, doc, today) = r
         /\ \A d \in Days : (d # today => ~r[d].active) =>
              PricedToday(Deactivate(r, d), doc, today) = r
<1>1. r[today] \in PriceRow
  BY DEF Prices
<1>2. r[today] = [rate |-> doc, active |-> TRUE]
  BY <1>1 DEF Topped, PriceRow
<1>3. PricedToday(r, doc, today) = r
  BY <1>2 DEF PricedToday, Prices
<1>4. ASSUME NEW d \in Days, d # today => ~r[d].active
      PROVE  PricedToday(Deactivate(r, d), doc, today) = r
  <2> DEFINE s == Deactivate(r, d)
  <2>1. CASE d = today
    <3>1. s \in Prices /\ \A e \in Days \ {today} : s[e] = r[e]
      BY <2>1, DeactivateIs
    <3> HIDE DEF s
    <3>2. PricedToday(s, doc, today) = r
      BY <1>2, <3>1 DEF PricedToday, Prices
    <3>3. QED
      BY <3>2 DEF s
  <2>2. CASE d # today
    <3>1. s = r
      BY <1>4, <2>2, DeactivateIs
    <3>2. QED
      BY <1>3, <3>1
  <2>3. QED
    BY <2>1, <2>2
<1>5. QED
  BY <1>3, <1>4

\* A copy of a plan leaves the prices settled for another.
LEMMA PricesStaySettled ==
  ASSUME NEW read \in Prices, NEW mine \in Prices, NEW doc \in Rates, NEW r \in Prices, NEW today \in Days,
         r = read \/ Asks(r, doc), Single(mine), PriceSettled(mine, doc, r, today),
         NEW o, o \in SyncPricing(read, doc, r, today), o.ok
  PROVE  PriceSettled(mine, doc, o.rows, today)
<1> DEFINE new == o.rows
<1>1. Repriced(read, r, doc, today, new)
  BY PricedBy
<1> HIDE DEF new
<1>2. CASE new = r
  BY <1>2 DEF new
<1>3. CASE new # r /\ r = mine
  <2>1. Topped(new, doc, today)
    BY <1>1, <1>3 DEF Repriced
  <2>2. Superseded(mine, new, doc, today)
    <3>1. ActiveDays(mine) = {} \/ \E d \in Days : ActiveDays(mine) = {d}
      BY SingleIs
    <3>2. ASSUME NEW d \in Days \ {today}, mine[d].active, mine[d].rate # doc
          PROVE  ~new[d].active
      <4>1. ActiveDays(mine) = {d}
        BY <3>1, <3>2 DEF ActiveDays
      <4>2. ~Asks(mine, doc)
        BY <3>2, <4>1 DEF Asks, ActiveDays
      <4>3. read = mine
        BY <1>3, <4>2
      <4>4. QED
        BY <1>1, <3>2, <4>1, <4>3 DEF Repriced
    <3>3. QED
      BY <3>2 DEF Superseded
  <2>3. QED
    BY <2>1, <2>2 DEF PriceSettled, new
<1>4. CASE new # r /\ Topped(r, doc, today) /\ Superseded(mine, r, doc, today)
  <2>1. Topped(new, doc, today) /\ Superseded(mine, new, doc, today)
    BY <1>1, <1>4 DEF Repriced, Superseded
  <2>2. QED
    BY <2>1 DEF PriceSettled, new
<1>5. CASE new # r /\ Asks(mine, doc)
  <2>1. CurrentPrice(new, today) = doc
    BY <1>1, <1>5, ToppedIsCurrent DEF Repriced
  <2>2. QED
    BY <1>5, <2>1 DEF PriceSettled, new
<1>6. QED
  BY <1>2, <1>3, <1>4, <1>5 DEF PriceSettled

\* A reconcile over settled prices is not turned down when they are as read, leaves the
\* price the document asks for, and writes nothing when that is the price already.
LEMMA PricesConverge ==
  ASSUME NEW read \in Prices, NEW doc \in Rates, NEW r \in Prices, NEW today \in Days,
         \A d \in Days : r[d].active => d <= today,
         Single(read), PriceSettled(read, doc, r, today),
         NEW o, o \in SyncPricing(read, doc, r, today)
  PROVE  /\ r = read => o.ok
         /\ o.ok => CurrentPrice(o.rows, today) = doc
         /\ o.ok /\ CurrentPrice(r, today) = doc => o.rows = r
<1>1. doc # 0
  BY CatalogAssumption
<1>2. CASE ActiveDays(read) = {}
  <2>1. o \in ActivatePrice(read, r, doc, today)
    BY <1>2 DEF SyncPricing
  <2>2. o.ok => o.rows = PricedToday(r, doc, today)
    BY <2>1, ActivateIs
  <2>3. r = read => o.ok
    BY <2>1, ActivateIs
  <2>4. o.ok => CurrentPrice(o.rows, today) = doc
    BY <2>2, PricedTodayIs, ToppedIsCurrent
  <2>5. ASSUME o.ok, CurrentPrice(r, today) = doc PROVE o.rows = r
    <3>1. r # read
      BY <1>1, <1>2, <2>5, NoneIsCurrent
    <3>2. ~Asks(read, doc)
      BY <1>2 DEF Asks, ActiveDays
    <3>3. Topped(r, doc, today)
      BY <3>1, <3>2 DEF PriceSettled
    <3>4. QED
      BY <2>2, <2>5, <3>3, NothingMore
  <2>6. QED
    BY <2>3, <2>4, <2>5
<1>3. ASSUME NEW d \in Days, ActiveDays(read) = {d}
      PROVE  /\ r = read => o.ok
             /\ o.ok => CurrentPrice(o.rows, today) = doc
             /\ o.ok /\ CurrentPrice(r, today) = doc => o.rows = r
  <2>1. CASE read[d].rate = doc
    <3>1. o = Written(r)
      BY <1>3, <2>1 DEF SyncPricing
    <3>2. o.ok /\ o.rows = r
      BY <3>1 DEF Written
    <3>3. CurrentPrice(r, today) = doc
      <4>1. CASE r = read
        <5>1. d <= today
          BY <1>3, <4>1 DEF ActiveDays
        <5>2. QED
          BY <1>3, <2>1, <4>1, <5>1, OnlyIsCurrent
      <4>2. CASE Topped(r, doc, today)
        BY <4>2, ToppedIsCurrent
      <4>3. QED
        BY <4>1, <4>2 DEF PriceSettled
    <3>4. QED
      BY <3>2, <3>3
  <2>2. CASE read[d].rate # doc
    <3> DEFINE less == Deactivate(r, d)
    <3>1. o \in ActivatePrice(read, less, doc, today)
      BY <1>3, <2>2 DEF SyncPricing
    <3>2. less \in Prices /\ \A e \in Days : less[e].rate = r[e].rate
      BY DeactivateIs
    <3>3. ~Asks(read, doc)
      BY <1>3, <2>2 DEF Asks, ActiveDays
    <3>4. Topped(r, doc, today) => \/ r = read
                                   \/ PricedToday(less, doc, today) = r
      <4>1. CASE Superseded(read, r, doc, today)
        <5>1. d # today => ~r[d].active
          BY <1>3, <2>2, <4>1 DEF Superseded, ActiveDays
        <5>2. QED
          BY <5>1, NothingMore
      <4>2. QED
        BY <3>3, <4>1 DEF PriceSettled
    <3> HIDE DEF less
    <3>5. o.ok => o.rows = PricedToday(less, doc, today)
      BY <3>1, ActivateIs
    <3>6. r = read => o.ok
      BY <3>1, <3>2, ActivateIs
    <3>7. o.ok => CurrentPrice(o.rows, today) = doc
      BY <3>2, <3>5, PricedTodayIs, ToppedIsCurrent
    <3>8. ASSUME o.ok, CurrentPrice(r, today) = doc PROVE o.rows = r
      <4>1. r # read
        <5> SUFFICES ASSUME r = read PROVE FALSE
          OBVIOUS
        <5>1. d <= today
          BY <1>3 DEF ActiveDays
        <5>2. CurrentPrice(r, today) = read[d].rate
          BY <1>3, <5>1, OnlyIsCurrent
        <5>3. QED
          BY <2>2, <3>8, <5>2
      <4>2. QED
        BY <3>3, <3>4, <3>5, <3>8, <4>1 DEF PriceSettled
    <3>9. QED
      BY <3>6, <3>7, <3>8
  <2>3. QED
    BY <2>1, <2>2
<1>4. QED
  BY <1>2, <1>3, SingleIs

-----------------------------------------------------------------------------
(* Any of the tables.                                                       *)

\* A transaction that goes through, or that nobody disturbed, comes to what the followed
\* table comes to.
LEMMA Outcomes ==
  ASSUME table \in Tables, NEW read, NEW doc, NEW now, NEW today, NEW alone,
         NEW o, o \in Reconcile(read, doc, now, today, alone), o.ok \/ alone
  PROVE  /\ table = "registry" => o \in SyncRegistry(read, doc, now)
         /\ table = "pricing" => o \in SyncPricing(read, doc, now, today)
         /\ table = "routing" => o \in SyncRouting(read, doc, now)
<1>1. o \notin (IF alone THEN {} ELSE {Refused})
  BY DEF Refused
<1>2. o \in (CASE table = "registry" -> SyncRegistry(read, doc, now)
               [] table = "pricing"  -> SyncPricing(read, doc, now, today)
               [] table = "routing"  -> SyncRouting(read, doc, now))
  BY <1>1 DEF Reconcile
<1>3. QED
  BY <1>2 DEF Tables

\* What is written to a registered row is a row.
LEMMA RegistrySane ==
  ASSUME NEW read \in RegistryRows, NEW doc, NEW now \in RegistryRows,
         NEW o, o \in SyncRegistry(read, doc, now), o.ok
  PROVE  o.rows \in RegistryRows
<1>1. CASE o = Refused
  <2>1. ~o.ok
    BY <1>1 DEF Refused
  <2>2. QED
    BY <2>1
<1>2. CASE o = Written([source |-> "mlpal-feed", active |-> FeedRow(doc).active,
                        deprecated |-> FeedRow(doc).deprecated, paused |-> FeedRow(doc).paused])
  <2>1. o.rows = [source |-> "mlpal-feed", active |-> FeedRow(doc).active,
                  deprecated |-> FeedRow(doc).deprecated, paused |-> FeedRow(doc).paused]
    BY <1>2 DEF Written
  <2>2. FeedRow(doc).active \in BOOLEAN /\ FeedRow(doc).deprecated \in BOOLEAN
        /\ FeedRow(doc).paused \in BOOLEAN
    BY DEF FeedRow
  <2>3. QED
    BY <2>1, <2>2 DEF RegistryRows
<1>3. CASE o = Written(WriteColumns(read, WantedRow(read, doc), now))
  <2> DEFINE want == WantedRow(read, doc)
  <2>1. want.active \in BOOLEAN /\ want.deprecated \in BOOLEAN /\ want.paused \in BOOLEAN
    BY DEF WantedRow, FeedRow, RegistryRows
  <2>2. o.rows = WriteColumns(read, want, now)
    BY <1>3 DEF Written
  <2> HIDE DEF want
  <2>3. QED
    BY <2>1, <2>2 DEF WriteColumns, RegistryRows
<1>4. CASE o = Written(now)
  BY <1>4 DEF Written
<1>5. QED
  BY <1>1, <1>2, <1>3, <1>4 DEF SyncRegistry

\* What is written is sane.
LEMMA OutcomeSane ==
  ASSUME table \in Tables, NEW read, NEW doc \in Docs(table), NEW now, NEW today \in Days, NEW alone,
         Sane(table, read, today), Sane(table, now, today),
         NEW o, o \in Reconcile(read, doc, now, today, alone), o.ok
  PROVE  Sane(table, o.rows, today)
<1>1. CASE table = "registry"
  <2>1. o \in SyncRegistry(read, doc, now)
    BY <1>1, Outcomes
  <2>2. QED
    BY <1>1, <2>1, RegistrySane DEF Sane
<1>2. CASE table = "pricing"
  <2>1. o \in SyncPricing(read, doc, now, today) /\ doc \in Rates /\ now \in Prices
    BY <1>2, Outcomes DEF Docs, Sane, Prices
  <2>2. Repriced(read, now, doc, today, o.rows)
    BY <2>1, PricedBy
  <2>3. \A d \in Days : o.rows[d].active => d <= today
    <3> SUFFICES ASSUME NEW d \in Days, o.rows[d].active PROVE d <= today
      OBVIOUS
    <3>1. CASE d = today
      BY <3>1 DEF Days
    <3>2. CASE d # today
      BY <1>2, <2>2, <3>2 DEF Repriced, Sane
    <3>3. QED
      BY <3>1, <3>2
  <2>4. QED
    BY <1>2, <2>2, <2>3 DEF Repriced, Sane, Prices
<1>3. CASE table = "routing"
  BY <1>3 DEF Sane
<1>4. QED
  BY <1>1, <1>2, <1>3 DEF Tables

\* A copy of a plan that commits leaves what another may find.
LEMMA CopyKeeps ==
  ASSUME table \in Tables, NEW x, NEW y, y.doc = x.doc, x.doc \in Docs(table), day \in Days,
         Sane(table, x.read, day), Sane(table, y.read, day), Sane(table, rows, day),
         Kept(table, x, rows, day), Kept(table, y, rows, day), NEW alone,
         NEW o, o \in Reconcile(x.read, x.doc, rows, day, alone), o.ok
  PROVE  Kept(table, y, o.rows, day)
<1>1. CASE table = "registry"
  <2> DEFINE doc == x.doc
             read == x.read
             mine == y.read
  <2>1. o \in SyncRegistry(read, doc, rows)
    BY <1>1, Outcomes
  <2>2. /\ read \in RegistryRows /\ mine \in RegistryRows
        /\ doc \in Docs(table) /\ doc \in {"listed", "retired", "absent"}
        /\ rows \in {read, Brought(read, doc)} /\ rows \in {mine, Brought(mine, doc)}
    BY <1>1 DEF Sane, Docs, Kept
  <2> HIDE DEF doc, read, mine
  <2>3. o.rows = Brought(read, doc)
    BY <2>1, <2>2, RegistryBrought
  <2>4. Brought(Brought(mine, doc), doc) = Brought(mine, doc)
        /\ Brought(Brought(read, doc), doc) = Brought(read, doc)
    BY <1>1, <2>2, BroughtStays
  <2>5. o.rows \in {mine, Brought(mine, doc)}
    BY <2>2, <2>3, <2>4
  <2>6. QED
    BY <1>1, <2>5 DEF Kept, doc, mine
<1>2. CASE table = "routing"
  <2>1. o \in SyncRouting(x.read, x.doc, rows) /\ rows \in {x.read, Target(x.doc)}
    BY <1>2, Outcomes DEF Kept
  <2>2. o.rows = Target(x.doc)
    BY <2>1, RoutedTo
  <2>3. QED
    BY <1>2, <2>2 DEF Kept
<1>3. CASE table = "pricing"
  <2> DEFINE doc == x.doc
             read == x.read
             mine == y.read
  <2>1. o \in SyncPricing(read, doc, rows, day)
    BY <1>3, Outcomes
  <2>2. /\ read \in Prices /\ mine \in Prices /\ rows \in Prices /\ doc \in Rates
        /\ rows = read \/ Asks(rows, doc)
        /\ rows = mine \/ Asks(rows, doc)
        /\ y.on = day /\ Single(mine) => PriceSettled(mine, doc, rows, day)
    BY <1>3 DEF Sane, Docs, Kept, Prices
  <2> HIDE DEF doc, read, mine
  <2>3. o.rows = rows \/ Asks(o.rows, doc)
    <3>1. Repriced(read, rows, doc, day, o.rows)
      BY <2>1, <2>2, PricedBy
    <3>2. QED
      BY <2>2, <3>1, ToppedIsCurrent DEF Repriced
  <2>4. y.on = day /\ Single(mine) => PriceSettled(mine, doc, o.rows, day)
    BY <2>1, <2>2, PricesStaySettled
  <2>5. QED
    BY <1>3, <2>2, <2>3, <2>4 DEF Kept, doc, mine
<1>4. QED
  BY <1>1, <1>2, <1>3 DEF Tables

\* A reconcile that ran against nobody but copies of itself.
LEMMA AloneConverges ==
  ASSUME table \in Tables, NEW x, x.doc \in Docs(table), day \in Days,
         Sane(table, x.read, day), Sane(table, rows, day), Kept(table, x, rows, day),
         Coherent(x.read), x.on = day \/ rows = x.read,
         NEW alone, alone = (rows = x.read),
         NEW o, o \in Reconcile(x.read, x.doc, rows, day, alone)
  PROVE  /\ rows = x.read => o.ok
         /\ o.ok => Agrees(o.rows, x.doc, day)
         /\ o.ok /\ Agrees(rows, x.doc, day) => o.rows = rows
<1> SUFFICES ASSUME o.ok \/ alone
             PROVE  /\ rows = x.read => o.ok
                    /\ o.ok => Agrees(o.rows, x.doc, day)
                    /\ o.ok /\ Agrees(rows, x.doc, day) => o.rows = rows
  OBVIOUS
<1> DEFINE doc == x.doc
           read == x.read
<1>1. CASE table = "registry"
  <2>1. o \in SyncRegistry(read, doc, rows)
    BY <1>1, Outcomes
  <2>2. /\ read \in RegistryRows
        /\ doc \in Docs(table) /\ doc \in {"listed", "retired", "absent"}
        /\ rows \in {read, Brought(read, doc)}
    BY <1>1 DEF Sane, Docs, Kept
  <2> HIDE DEF doc, read
  <2>3. (o.ok => o.rows = Brought(read, doc)) /\ (rows = read => o.ok)
    BY <2>1, <2>2, RegistryBrought
  <2>4. Agrees(Brought(read, doc), doc, day)
        /\ (Agrees(read, doc, day) => Brought(read, doc) = read)
    BY <1>1, <2>2, BroughtStays
  <2>5. QED
    BY <2>2, <2>3, <2>4 DEF doc, read
<1>2. CASE table = "routing"
  <2>1. o \in SyncRouting(read, doc, rows) /\ rows \in {read, Target(doc)}
    BY <1>2, Outcomes DEF Kept
  <2> HIDE DEF doc, read
  <2>2. (o.ok => o.rows = Target(doc)) /\ (rows = read => o.ok)
    BY <2>1, RoutedTo
  <2>3. Agrees(o.rows, doc, day) = (o.rows = Target(doc))
        /\ Agrees(rows, doc, day) = (rows = Target(doc))
    BY <1>2 DEF Agrees, Target
  <2>4. QED
    BY <2>2, <2>3 DEF doc, read
<1>3. CASE table = "pricing"
  <2>1. o \in SyncPricing(read, doc, rows, day)
    BY <1>3, Outcomes
  <2>2. /\ read \in Prices /\ rows \in Prices /\ doc \in Rates
        /\ \A d \in Days : rows[d].active => d <= day
        /\ Single(read)
        /\ PriceSettled(read, doc, rows, day)
    BY <1>3 DEF Sane, Docs, Kept, Prices, Coherent, Single, PriceSettled
  <2> HIDE DEF doc, read
  <2>3. /\ rows = read => o.ok
        /\ o.ok => CurrentPrice(o.rows, day) = doc
        /\ o.ok /\ CurrentPrice(rows, day) = doc => o.rows = rows
    BY <2>1, <2>2, PricesConverge
  <2>4. Agrees(o.rows, doc, day) = (CurrentPrice(o.rows, day) = doc)
        /\ Agrees(rows, doc, day) = (CurrentPrice(rows, day) = doc)
    BY <1>3 DEF Agrees
  <2>5. QED
    BY <2>3, <2>4 DEF doc, read
<1>4. QED
  BY <1>1, <1>2, <1>3 DEF Tables

-----------------------------------------------------------------------------
(* Steps of the control plane.                                              *)

\* A control plane starts with sane rows and no task.
LEMMA ShapeInit == ASSUME Init PROVE CatalogShape /\ PlansHold
<1>1. CatalogInit
  BY DEF Init
<1>2. table \in Tables /\ day = 1 /\ day \in Days /\ syncs = [p \in Pods |-> Down]
  BY <1>1, CatalogAssumption DEF CatalogInit, Days
<1>3. Sane(table, rows, day)
  <2>1. CASE table = "registry"
    <3>1. rows \in {[source |-> s, active |-> s = "local", deprecated |-> FALSE,
                     paused |-> FALSE] : s \in {"none", "local"}}
      BY <1>1, <2>1 DEF CatalogInit, InitialRows
    <3>2. PICK s \in {"none", "local"} : rows = [source |-> s, active |-> s = "local",
                                                deprecated |-> FALSE, paused |-> FALSE]
      BY <3>1
    <3>3. rows \in RegistryRows
      BY <3>2 DEF RegistryRows
    <3>4. QED
      BY <2>1, <3>3 DEF Sane
  <2>2. CASE table = "pricing"
    <3>1. rows \in {[d \in Days |-> [rate |-> 0, active |-> FALSE]]}
      BY <1>1, <2>2 DEF CatalogInit, InitialRows
    <3>2. rows = [d \in Days |-> [rate |-> 0, active |-> FALSE]]
      BY <3>1
    <3>3. QED
      BY <2>2, <3>2 DEF PriceRow, Sane
  <2>3. CASE table = "routing"
    BY <2>3 DEF Sane
  <2>4. QED
    BY <1>2, <2>1, <2>2, <2>3 DEF Tables
<1>4. \A p \in Pods : syncs[p].pc = "down"
  BY <1>2 DEF Down
<1>5. QED
  BY <1>2, <1>3, <1>4 DEF CatalogShape, Bound, PlansHold

\* Whoever disturbs leaves a task as it is, or a plan that is not alone.
LEMMA DisturbedIs ==
  ASSUME NEW w, NEW others, NEW q \in Pods
  PROVE  /\ Disturbed(w, others)[q] \in {syncs[q], [syncs[q] EXCEPT !.alone = FALSE]}
         /\ q # w /\ syncs[q].pc = "planned" /\ others # <<syncs[q].doc>> =>
              Disturbed(w, others)[q] = [syncs[q] EXCEPT !.alone = FALSE]
         /\ syncs[q].pc # "planned" => Disturbed(w, others)[q] = syncs[q]
BY DEF Disturbed

\* A plan that is not alone is the plan otherwise.
LEMMA NotAlone ==
  ASSUME NEW why, NEW doc, NEW read, NEW on, NEW alone
  PROVE  [[pc |-> "planned", why |-> why, doc |-> doc, read |-> read, on |-> on, alone |-> alone]
            EXCEPT !.alone = FALSE]
         = [pc |-> "planned", why |-> why, doc |-> doc, read |-> read, on |-> on, alone |-> FALSE]
<1> DEFINE fields == {"pc", "why", "doc", "read", "on", "alone"}
           r == [pc |-> "planned", why |-> why, doc |-> doc, read |-> read, on |-> on, alone |-> alone]
           y == [r EXCEPT !.alone = FALSE]
           z == [pc |-> "planned", why |-> why, doc |-> doc, read |-> read, on |-> on, alone |-> FALSE]
<1>1. y = [f \in fields |-> y[f]] /\ z = [f \in fields |-> z[f]]
  OBVIOUS
<1>5. y.pc = "planned" /\ y.why = why /\ y.doc = doc /\ y.read = read /\ y.on = on /\ y.alone = FALSE
  OBVIOUS
<1>6. z.pc = "planned" /\ z.why = why /\ z.doc = doc /\ z.read = read /\ z.on = on /\ z.alone = FALSE
  OBVIOUS
<1>2. \A f \in fields : y[f] = z[f]
  <2> HIDE DEF y, z
  <2>1. QED
    BY <1>5, <1>6
<1> HIDE DEF y, z, fields
<1>3. y = z
  BY <1>1, <1>2
<1>4. QED
  BY <1>3 DEF y, z

\* To disturb a plan changes nothing else of it.
LEMMA DisturbedBound ==
  ASSUME NEW t, NEW x, NEW today, Bound(t, x, today), x.pc = "planned"
  PROVE  LET y == [x EXCEPT !.alone = FALSE]
         IN  /\ Bound(t, y, today) /\ y.pc = "planned" /\ ~y.alone
<1> DEFINE y == [x EXCEPT !.alone = FALSE]
<1>1. x = [pc |-> "planned", why |-> x.why, doc |-> x.doc, read |-> x.read, on |-> x.on,
           alone |-> x.alone]
  BY DEF Bound
<1>2. y = [pc |-> "planned", why |-> x.why, doc |-> x.doc, read |-> x.read, on |-> x.on,
           alone |-> FALSE]
  BY <1>1, NotAlone
<1>3. /\ y.pc = "planned" /\ y.why = x.why /\ y.doc = x.doc /\ y.read = x.read /\ y.on = x.on
      /\ y.alone = FALSE
  BY <1>2
<1> HIDE DEF y
<1>4. Bound(t, y, today)
  BY <1>2, <1>3 DEF Bound
<1>5. QED
  BY <1>3, <1>4 DEF y

\* A commit goes through or is turned down.
LEMMA CommitIs ==
  ASSUME NEW p \in Pods, CommitTables(p)
  PROVE  \E o \in Reconcile(syncs[p].read, syncs[p].doc, rows, day,
                            syncs[p].alone /\ rows = syncs[p].read) :
           \/ /\ o.ok /\ rows' = o.rows
              /\ syncs' = [Disturbed(p, IF syncs[p].alone THEN <<syncs[p].doc>> ELSE <<>>)
                             EXCEPT ![p] = Applied(@)]
           \/ /\ ~o.ok /\ rows' = rows
              /\ syncs' = [syncs EXCEPT ![p] = Idle]
BY DEF CommitTables

\* What a commit makes of the tasks.
LEMMA CommitTasks ==
  ASSUME CatalogShape, NEW p \in Pods, CommitTables(p)
  PROVE  /\ syncs' = [q \in Pods |-> syncs'[q]]
         /\ syncs'[p].pc \in {"applied", "idle"}
         /\ \A q \in Pods \ {p} :
              \/ syncs'[q] = syncs[q]
                 /\ (syncs[q].pc = "planned" /\ syncs[q].alone /\ syncs'[p].pc = "applied" =>
                       syncs[p].alone /\ syncs[p].doc = syncs[q].doc)
              \/ syncs[q].pc = "planned" /\ syncs'[q] = [syncs[q] EXCEPT !.alone = FALSE]
<1> DEFINE others == IF syncs[p].alone THEN <<syncs[p].doc>> ELSE <<>>
<1>1. CASE syncs' = [Disturbed(p, others) EXCEPT ![p] = Applied(@)]
  <2>1. Disturbed(p, others) = [q \in Pods |-> Disturbed(p, others)[q]]
    BY DEF Disturbed
  <2>2. syncs' = [q \in Pods |-> syncs'[q]]
        /\ syncs'[p] = Applied(Disturbed(p, others)[p])
        /\ \A q \in Pods \ {p} : syncs'[q] = Disturbed(p, others)[q]
    BY <1>1, <2>1
  <2>3. syncs'[p].pc = "applied"
    BY <2>2 DEF Applied
  <2>4. ASSUME NEW q \in Pods \ {p}
        PROVE  \/ syncs'[q] = syncs[q]
                  /\ (syncs[q].pc = "planned" /\ syncs[q].alone /\ syncs'[p].pc = "applied" =>
                        syncs[p].alone /\ syncs[p].doc = syncs[q].doc)
               \/ syncs[q].pc = "planned" /\ syncs'[q] = [syncs[q] EXCEPT !.alone = FALSE]
    <3>1. CASE others # <<syncs[q].doc>> /\ syncs[q].pc = "planned"
      BY <2>2, <3>1 DEF Disturbed
    <3>2. CASE syncs[q].pc # "planned"
      BY <2>2, <3>2 DEF Disturbed
    <3>3. CASE others = <<syncs[q].doc>> /\ syncs[q].pc = "planned"
      <4>1. syncs[p].alone /\ syncs[p].doc = syncs[q].doc
        BY <3>3
      <4>2. syncs'[q] = syncs[q]
        BY <2>2, <3>3 DEF Disturbed
      <4>3. QED
        BY <4>1, <4>2
    <3>4. QED
      BY <3>1, <3>2, <3>3
  <2>5. QED
    BY <2>2, <2>3, <2>4
<1>2. CASE syncs' = [syncs EXCEPT ![p] = Idle]
  <2>1. syncs = [q \in Pods |-> syncs[q]]
    BY DEF CatalogShape
  <2>2. syncs' = [q \in Pods |-> syncs'[q]] /\ syncs'[p] = Idle
        /\ \A q \in Pods \ {p} : syncs'[q] = syncs[q]
    BY <1>2, <2>1
  <2>3. syncs'[p].pc = "idle"
    BY <2>2 DEF Idle
  <2>4. QED
    BY <2>2, <2>3
<1>3. QED
  BY <1>1, <1>2, CommitIs

\* A pod's step that does not commit changes its own task only.
LEMMA SyncingIs ==
  ASSUME CatalogShape, NEW p \in Pods, Syncing(p)
  PROVE  /\ UNCHANGED <<table, rows, day>>
         /\ syncs' = [q \in Pods |-> syncs'[q]]
         /\ \A q \in Pods \ {p} : syncs'[q] = syncs[q]
         /\ \/ syncs'[p].pc \in {"down", "idle"}
            \/ syncs'[p].pc = "due" /\ syncs'[p].doc \in Docs(table)
            \/ syncs[p].pc = "due" /\ syncs'[p] = Planned(syncs[p])
         /\ syncs[p].pc = "planned" => syncs'[p].pc = "down"
<1>1. syncs = [q \in Pods |-> syncs[q]]
  BY DEF CatalogShape
<1>2. CASE \E d \in Docs(table) : Boot(p, d) \/ Pull(p, d)
  <2>1. PICK d \in Docs(table) : Boot(p, d) \/ Pull(p, d)
    BY <1>2
  <2>2. /\ UNCHANGED <<table, rows, day>> /\ syncs[p].pc \in {"down", "idle"}
        /\ \E why \in {"boot", "pull"} : syncs' = [syncs EXCEPT ![p] = Idle]
                                        \/ syncs' = [syncs EXCEPT ![p] = Due(why, d)]
    BY <2>1 DEF Boot, Pull
  <2>3. PICK why \in {"boot", "pull"} : syncs' = [syncs EXCEPT ![p] = Idle]
                                        \/ syncs' = [syncs EXCEPT ![p] = Due(why, d)]
    BY <2>2
  <2>4. /\ syncs' = [q \in Pods |-> syncs'[q]]
        /\ \A q \in Pods \ {p} : syncs'[q] = syncs[q]
        /\ syncs'[p] = Idle \/ syncs'[p] = Due(why, d)
    BY <1>1, <2>3
  <2>5. QED
    BY <2>2, <2>4 DEF Idle, Due
<1>3. CASE Stop(p)
  <2>1. /\ UNCHANGED <<table, rows, day>>
        /\ syncs' = [syncs EXCEPT ![p] = Down]
    BY <1>3 DEF Stop
  <2>2. /\ syncs' = [q \in Pods |-> syncs'[q]]
        /\ \A q \in Pods \ {p} : syncs'[q] = syncs[q]
        /\ syncs'[p] = Down
    BY <1>1, <2>1
  <2>3. QED
    BY <2>1, <2>2 DEF Down
<1>6. CASE RecordVersion(p)
  <2>1. /\ UNCHANGED <<table, rows, day>>
        /\ syncs[p].pc = "applied" /\ syncs' = [syncs EXCEPT ![p] = Idle]
    BY <1>6 DEF RecordVersion
  <2>2. /\ syncs' = [q \in Pods |-> syncs'[q]]
        /\ \A q \in Pods \ {p} : syncs'[q] = syncs[q]
        /\ syncs'[p] = Idle
    BY <1>1, <2>1
  <2>3. QED
    BY <2>1, <2>2 DEF Idle
<1>4. CASE ReadTables(p)
  <2>1. /\ UNCHANGED <<table, rows, day>> /\ syncs[p].pc = "due"
        /\ syncs' = [syncs EXCEPT ![p] = Planned(syncs[p])]
    BY <1>4 DEF ReadTables
  <2>2. /\ syncs' = [q \in Pods |-> syncs'[q]]
        /\ \A q \in Pods \ {p} : syncs'[q] = syncs[q]
        /\ syncs'[p] = Planned(syncs[p])
    BY <1>1, <2>1
  <2>3. QED
    BY <2>1, <2>2
<1>5. QED
  BY <1>2, <1>3, <1>4, <1>6 DEF Syncing

\* What was sane and bound stays so on later days.
LEMMA BoundLater ==
  ASSUME NEW t, NEW today \in Days, NEW later \in Days, today <= later
  PROVE  /\ \A r : Sane(t, r, today) => Sane(t, r, later)
         /\ \A x : Bound(t, x, today) => Bound(t, x, later)
<1>1. today \in Nat /\ later \in Nat /\ \A d \in Days : d \in Nat
  BY DEF Days
<1>2. \A r : Sane(t, r, today) => Sane(t, r, later)
  BY <1>1 DEF Sane
<1>3. QED
  BY <1>1, <1>2 DEF Bound

\* A plan is made of what is there.
LEMMA PlannedIs ==
  ASSUME CatalogShape, NEW x, x.doc \in Docs(table)
  PROVE  /\ Planned(x).pc = "planned" /\ Planned(x).read = rows /\ Planned(x).on = day
         /\ Bound(table, Planned(x), day)
<1>1. Planned(x) = [pc |-> "planned", why |-> x.why, doc |-> x.doc, read |-> rows, on |-> day,
                    alone |-> TRUE]
  BY DEF Planned
<1>2. /\ Planned(x).pc = "planned" /\ Planned(x).why = x.why /\ Planned(x).doc = x.doc
      /\ Planned(x).read = rows /\ Planned(x).on = day /\ Planned(x).alone = TRUE
  BY <1>1
<1> DEFINE y == Planned(x)
<1>3. Bound(table, y, day)
  <2>1. day <= day
    BY DEF CatalogShape, Days
  <2> HIDE DEF y
  <2>2. /\ y = [pc |-> "planned", why |-> x.why, doc |-> x.doc, read |-> rows, on |-> day, alone |-> TRUE]
        /\ y.pc = "planned" /\ y.why = x.why /\ y.doc = x.doc /\ y.read = rows /\ y.on = day
        /\ y.alone = TRUE
    BY <1>1, <1>2 DEF y
  <2>3. QED
    BY <2>1, <2>2 DEF Bound, CatalogShape
<1>4. QED
  BY <1>2, <1>3

\* No step changes a task for one that does not bear what it should, nor a row.
LEMMA ShapeNext == ASSUME CatalogShape, [Next]_controlVars PROVE CatalogShape'
<1> USE DEF CatalogShape
<1>1. ASSUME NEW p \in Pods, Syncing(p) PROVE CatalogShape'
  <2>1. /\ UNCHANGED <<table, rows, day>>
        /\ syncs' = [q \in Pods |-> syncs'[q]]
        /\ \A q \in Pods \ {p} : syncs'[q] = syncs[q]
        /\ \/ syncs'[p].pc \in {"down", "idle"}
           \/ syncs'[p].pc = "due" /\ syncs'[p].doc \in Docs(table)
           \/ syncs[p].pc = "due" /\ syncs'[p] = Planned(syncs[p])
    BY <1>1, SyncingIs
  <2>2. Bound(table, syncs'[p], day)
    <3>1. CASE syncs'[p].pc \in {"down", "idle"}
      BY <3>1 DEF Bound
    <3>2. CASE syncs'[p].pc = "due" /\ syncs'[p].doc \in Docs(table)
      BY <3>2 DEF Bound
    <3>3. CASE syncs[p].pc = "due" /\ syncs'[p] = Planned(syncs[p])
      <4>1. syncs[p].doc \in Docs(table)
        BY <3>3 DEF Bound
      <4>2. QED
        BY <3>3, <4>1, PlannedIs
    <3>4. QED
      BY <2>1, <3>1, <3>2, <3>3
  <2>3. QED
    BY <2>1, <2>2
<1>2. ASSUME NEW p \in Pods, CommitTables(p) PROVE CatalogShape'
  <2>1. /\ syncs[p].pc = "planned" /\ UNCHANGED <<table, day>>
        /\ syncs[p].doc \in Docs(table) /\ Sane(table, syncs[p].read, day)
    BY <1>2 DEF CommitTables, Bound
  <2>2. Sane(table, rows', day)
    <3>1. PICK o \in Reconcile(syncs[p].read, syncs[p].doc, rows, day,
                               syncs[p].alone /\ rows = syncs[p].read) :
             (o.ok /\ rows' = o.rows) \/ rows' = rows
      BY <1>2, CommitIs
    <3>2. CASE o.ok /\ rows' = o.rows
      <4>1. Sane(table, o.rows, day)
        BY <2>1, <3>2, OutcomeSane
      <4>2. QED
        BY <3>2, <4>1
    <3>3. QED
      BY <3>1, <3>2
  <2>3. /\ syncs' = [q \in Pods |-> syncs'[q]]
        /\ syncs'[p].pc \in {"applied", "idle"}
        /\ \A q \in Pods \ {p} :
              \/ syncs'[q] = syncs[q]
              \/ syncs[q].pc = "planned" /\ syncs'[q] = [syncs[q] EXCEPT !.alone = FALSE]
    BY <1>2, CommitTasks
  <2>4. \A q \in Pods : Bound(table, syncs'[q], day)
    <3>1. Bound(table, syncs'[p], day)
      BY <2>3 DEF Bound
    <3>2. ASSUME NEW q \in Pods \ {p} PROVE Bound(table, syncs'[q], day)
      BY <2>3, DisturbedBound
    <3>3. QED
      BY <3>1, <3>2
  <2>5. QED
    BY <2>1, <2>2, <2>3, <2>4
<1>3. CASE PauseModel
  <2>1. /\ table = "registry" /\ UNCHANGED <<table, day>> /\ rows \in RegistryRows
        /\ rows' = [rows EXCEPT !.paused = ~@] /\ syncs' = Disturbed("operator", <<>>)
    BY <1>3 DEF PauseModel, Sane
  <2>2. rows' \in RegistryRows
    BY <2>1 DEF RegistryRows
  <2>3. syncs' = [q \in Pods |-> syncs'[q]]
    BY <2>1 DEF Disturbed
  <2>4. ASSUME NEW q \in Pods PROVE Bound(table, syncs'[q], day)
    <3>1. \/ syncs'[q] = syncs[q]
          \/ syncs[q].pc = "planned" /\ syncs'[q] = [syncs[q] EXCEPT !.alone = FALSE]
      BY <2>1 DEF Disturbed
    <3>2. QED
      BY <3>1, DisturbedBound
  <2>5. QED
    BY <2>1, <2>2, <2>3, <2>4 DEF Sane
<1>4. CASE SetMode \/ UNCHANGED catalogVars
  <2>1. UNCHANGED <<table, rows, day, syncs>>
    BY <1>4 DEF SetMode, catalogVars
  <2>2. QED
    BY <2>1
<1>5. CASE Midnight
  <2>1. UNCHANGED <<table, rows, syncs>> /\ day' \in Days /\ day <= day'
    BY <1>5, CatalogAssumption DEF Midnight, Days
  <2>2. Sane(table, rows, day') /\ \A p \in Pods : Bound(table, syncs[p], day')
    BY <2>1, BoundLater
  <2>3. QED
    BY <2>1, <2>2
<1>6. QED
  BY <1>1, <1>2, <1>3, <1>4, <1>5, CatalogSteps

\* Plans that nobody disturbed find what they or their copies wrote.
LEMMA PlansNext == ASSUME CatalogShape, PlansHold, [Next]_controlVars PROVE PlansHold'
<1> USE DEF PlansHold
<1>1. ASSUME NEW p \in Pods, Syncing(p) PROVE PlansHold'
  <2>1. /\ UNCHANGED <<table, rows, day>>
        /\ \A q \in Pods \ {p} : syncs'[q] = syncs[q]
        /\ \/ syncs'[p].pc \in {"down", "idle", "due"}
           \/ syncs[p].pc = "due" /\ syncs'[p] = Planned(syncs[p])
    BY <1>1, SyncingIs
  <2>2. syncs'[p].pc = "planned" => Kept(table, syncs'[p], rows, day)
    <3> SUFFICES ASSUME syncs[p].pc = "due", syncs'[p] = Planned(syncs[p])
                 PROVE  Kept(table, syncs'[p], rows, day)
      BY <2>1
    <3>1. syncs[p].doc \in Docs(table)
      BY DEF CatalogShape, Bound
    <3>2. syncs'[p].read = rows
      BY <3>1, PlannedIs
    <3>3. QED
      BY <3>2 DEF Kept, PriceSettled
  <2>3. QED
    BY <2>1, <2>2
<1>2. ASSUME NEW p \in Pods, CommitTables(p) PROVE PlansHold'
  <2>1. /\ syncs[p].pc = "planned" /\ UNCHANGED <<table, day>>
        /\ syncs[p].doc \in Docs(table) /\ Sane(table, syncs[p].read, day)
    BY <1>2 DEF CommitTables, Bound, CatalogShape
  <2>2. /\ syncs'[p].pc \in {"applied", "idle"}
        /\ \A q \in Pods \ {p} :
              \/ syncs'[q] = syncs[q]
                 /\ (syncs[q].pc = "planned" /\ syncs[q].alone /\ syncs'[p].pc = "applied" =>
                       syncs[p].alone /\ syncs[p].doc = syncs[q].doc)
              \/ syncs[q].pc = "planned" /\ syncs'[q] = [syncs[q] EXCEPT !.alone = FALSE]
    BY <1>2, CommitTasks
  <2>3. PICK o \in Reconcile(syncs[p].read, syncs[p].doc, rows, day,
                             syncs[p].alone /\ rows = syncs[p].read) :
           \/ /\ o.ok /\ rows' = o.rows
              /\ syncs' = [Disturbed(p, IF syncs[p].alone THEN <<syncs[p].doc>> ELSE <<>>)
                             EXCEPT ![p] = Applied(@)]
           \/ /\ ~o.ok /\ rows' = rows
              /\ syncs' = [syncs EXCEPT ![p] = Idle]
    BY <1>2, CommitIs
  <2>4. o.ok => syncs'[p].pc = "applied"
    <3> SUFFICES ASSUME o.ok PROVE syncs'[p].pc = "applied"
      OBVIOUS
    <3>1. syncs'[p] = Applied(Disturbed(p, IF syncs[p].alone THEN <<syncs[p].doc>> ELSE <<>>)[p])
      BY <2>3 DEF Disturbed
    <3>2. QED
      BY <3>1 DEF Applied
  <2>5. ASSUME NEW q \in Pods, syncs'[q].pc = "planned", syncs'[q].alone
        PROVE  Kept(table, syncs'[q], rows', day)
    <3>1. q # p
      BY <2>2, <2>5
    <3>2. syncs'[q] = syncs[q]
      <4>1. CASE syncs[q].pc = "planned" /\ syncs'[q] = [syncs[q] EXCEPT !.alone = FALSE]
        <5>1. ~syncs'[q].alone
          BY <4>1, DisturbedBound DEF CatalogShape
        <5>2. QED
          BY <2>5, <5>1
      <4>2. QED
        BY <2>2, <3>1, <4>1
    <3>3. Kept(table, syncs[q], rows, day)
      BY <2>5, <3>2
    <3>4. CASE ~o.ok
      BY <2>3, <3>2, <3>3, <3>4
    <3>5. CASE o.ok
      <4>1. syncs[p].alone /\ syncs[p].doc = syncs[q].doc
        <5>1. CASE syncs[q].pc = "planned" /\ syncs'[q] = [syncs[q] EXCEPT !.alone = FALSE]
          <6>1. ~syncs'[q].alone
            BY <5>1, DisturbedBound DEF CatalogShape
          <6>2. QED
            BY <2>5, <6>1
        <5>2. QED
          BY <2>2, <2>4, <2>5, <3>1, <3>2, <3>5, <5>1
      <4>2. Kept(table, syncs[p], rows, day)
        BY <2>1, <4>1
      <4>3. Sane(table, syncs[q].read, day) /\ Sane(table, rows, day) /\ table \in Tables /\ day \in Days
        BY <2>5, <3>2 DEF CatalogShape, Bound
      <4>4. Kept(table, syncs[q], o.rows, day)
        BY <2>1, <3>3, <3>5, <4>1, <4>2, <4>3, CopyKeeps
      <4>5. QED
        BY <2>3, <3>2, <3>5, <4>4
    <3>6. QED
      BY <3>4, <3>5
  <2>6. QED
    BY <2>1, <2>5
<1>3. CASE PauseModel
  <2>1. syncs' = Disturbed("operator", <<>>)
    BY <1>3 DEF PauseModel
  <2>2. ASSUME NEW q \in Pods PROVE ~(syncs'[q].pc = "planned" /\ syncs'[q].alone)
    <3>1. q # "operator"
      BY CatalogAssumption
    <3>2. <<>> # <<syncs[q].doc>>
      OBVIOUS
    <3>3. CASE syncs[q].pc = "planned"
      <4>1. syncs'[q] = [syncs[q] EXCEPT !.alone = FALSE]
        BY <2>1, <3>1, <3>2, <3>3 DEF Disturbed
      <4>2. QED
        BY <3>3, <4>1, DisturbedBound DEF CatalogShape
    <3>4. CASE syncs[q].pc # "planned"
      BY <2>1, <3>4 DEF Disturbed
    <3>5. QED
      BY <3>3, <3>4
  <2>3. QED
    BY <2>2
<1>4. CASE SetMode \/ UNCHANGED catalogVars
  <2>1. UNCHANGED <<table, rows, day, syncs>>
    BY <1>4 DEF SetMode, catalogVars
  <2>2. QED
    BY <2>1
<1>5. CASE Midnight
  <2>1. UNCHANGED <<table, rows, syncs>> /\ day' = day + 1 /\ day \in Nat
    BY <1>5 DEF Midnight, CatalogShape, Days
  <2>2. ASSUME NEW p \in Pods, syncs[p].pc = "planned", syncs[p].alone
        PROVE  Kept(table, syncs[p], rows, day')
    <3>1. syncs[p].on \in Nat /\ syncs[p].on <= day
      BY <2>2 DEF CatalogShape, Bound, Days
    <3>2. syncs[p].on # day'
      BY <2>1, <3>1
    <3>3. Kept(table, syncs[p], rows, day)
      BY <2>2
    <3>4. QED
      BY <3>2, <3>3 DEF Kept
  <2>3. QED
    BY <2>1, <2>2
<1>6. QED
  BY <1>1, <1>2, <1>3, <1>4, <1>5, CatalogSteps

-----------------------------------------------------------------------------
\* A reconcile that ran against nobody but copies of itself, on one day, is not turned
\* down, leaves the tables saying what its document says and writes nothing when they
\* said so already, whatever pods there are and however many days pass.
THEOREM CatalogConverges == Spec => Converges
<1>1. Init => CatalogShape /\ PlansHold
  BY ShapeInit
<1>2. CatalogShape /\ PlansHold /\ [Next]_controlVars => (CatalogShape /\ PlansHold)'
  BY ShapeNext, PlansNext
<1>3. CatalogShape /\ PlansHold /\ [Next]_controlVars =>
        [\A p \in Pods :
          syncs[p].pc = "planned" /\ syncs'[p].pc \in {"applied", "idle"}
            /\ syncs[p].alone /\ Coherent(syncs[p].read)
            /\ (syncs[p].on = day \/ rows = syncs[p].read) =>
              /\ rows = syncs[p].read => syncs'[p].pc = "applied"
              /\ syncs'[p].pc = "applied" => Agrees(rows', syncs[p].doc, day)
              /\ Agrees(rows, syncs[p].doc, day) => rows' = rows]_catalogVars
  <2> SUFFICES ASSUME CatalogShape, PlansHold, [Next]_controlVars, NEW p \in Pods,
                      syncs[p].pc = "planned", syncs'[p].pc \in {"applied", "idle"},
                      syncs[p].alone, Coherent(syncs[p].read),
                      syncs[p].on = day \/ rows = syncs[p].read
               PROVE  /\ rows = syncs[p].read => syncs'[p].pc = "applied"
                      /\ syncs'[p].pc = "applied" => Agrees(rows', syncs[p].doc, day)
                      /\ Agrees(rows, syncs[p].doc, day) => rows' = rows
    OBVIOUS
  <2>1. CommitTables(p)
    <3>1. ASSUME NEW q \in Pods, Syncing(q) PROVE FALSE
      <4>1. q # p => syncs'[p] = syncs[p]
        BY <3>1, SyncingIs
      <4>2. q = p => syncs'[p].pc = "down"
        BY <3>1, SyncingIs
      <4>3. QED
        BY <4>1, <4>2
    <3>2. ASSUME NEW q \in Pods \ {p}, CommitTables(q) PROVE FALSE
      <4>1. \/ syncs'[p] = syncs[p]
            \/ syncs[p].pc = "planned" /\ syncs'[p] = [syncs[p] EXCEPT !.alone = FALSE]
        BY <3>2, CommitTasks
      <4>2. QED
        BY <4>1, DisturbedBound DEF CatalogShape
    <3>3. CASE PauseModel
      <4>1. \/ syncs'[p] = syncs[p]
            \/ syncs[p].pc = "planned" /\ syncs'[p] = [syncs[p] EXCEPT !.alone = FALSE]
        BY <3>3 DEF PauseModel, Disturbed
      <4>2. QED
        BY <4>1, DisturbedBound DEF CatalogShape
    <3>4. CASE SetMode \/ Midnight \/ UNCHANGED catalogVars
      BY <3>4 DEF SetMode, Midnight, catalogVars
    <3>5. QED
      BY <3>1, <3>2, <3>3, <3>4, CatalogSteps
  <2>2. /\ syncs[p].doc \in Docs(table) /\ Sane(table, syncs[p].read, day)
        /\ table \in Tables /\ day \in Days /\ Sane(table, rows, day)
        /\ Kept(table, syncs[p], rows, day)
    BY DEF CatalogShape, Bound, PlansHold
  <2>3. PICK o \in Reconcile(syncs[p].read, syncs[p].doc, rows, day,
                             syncs[p].alone /\ rows = syncs[p].read) :
           \/ /\ o.ok /\ rows' = o.rows
              /\ syncs' = [Disturbed(p, IF syncs[p].alone THEN <<syncs[p].doc>> ELSE <<>>)
                             EXCEPT ![p] = Applied(@)]
           \/ /\ ~o.ok /\ rows' = rows
              /\ syncs' = [syncs EXCEPT ![p] = Idle]
    BY <2>1, CommitIs
  <2> DEFINE unseen == syncs[p].alone /\ rows = syncs[p].read
  <2>4. unseen = (rows = syncs[p].read)
    OBVIOUS
  <2>5. o \in Reconcile(syncs[p].read, syncs[p].doc, rows, day, unseen)
    OBVIOUS
  <2> HIDE DEF unseen
  <2>6. /\ rows = syncs[p].read => o.ok
        /\ o.ok => Agrees(o.rows, syncs[p].doc, day)
        /\ o.ok /\ Agrees(rows, syncs[p].doc, day) => o.rows = rows
    BY <2>2, <2>4, <2>5, AloneConverges
  <2>7. CASE o.ok
    <3>1. syncs'[p] = Applied(Disturbed(p, IF syncs[p].alone THEN <<syncs[p].doc>> ELSE <<>>)[p])
      BY <2>3, <2>7 DEF Disturbed
    <3>2. syncs'[p].pc = "applied"
      BY <3>1 DEF Applied
    <3>3. QED
      BY <2>3, <2>6, <2>7, <3>2
  <2>8. CASE ~o.ok
    <3>1. syncs'[p] = Idle
      BY <2>3, <2>8 DEF CatalogShape
    <3>2. syncs'[p].pc # "applied"
      BY <3>1 DEF Idle
    <3>3. QED
      BY <2>3, <2>6, <2>8, <3>2
  <2>9. QED
    BY <2>7, <2>8
<1>4. QED
  BY <1>1, <1>2, <1>3, PTL DEF Spec, Converges
=============================================================================
