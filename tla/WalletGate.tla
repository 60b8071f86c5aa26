----------------------------- MODULE WalletGate -----------------------------
(***************************************************************************)
(* The wallet gate of the managed edition                                  *)
(* (repositories/billing_repository.py): which requests of one user are    *)
(* admitted, from a cached snapshot of the wallet balance and a running    *)
(* count of what was spent since, and how many of them may be in flight    *)
(* when the balance is low.                                                *)
(*                                                                         *)
(* The wallet lives at the payments service.  The snapshot (wallet:{user}),*)
(* the count of spent units (wallet:spent:{user}) and the in-flight count  *)
(* (wallet:inflight:{user}) are Redis keys, each with a time to live; one  *)
(* Redis command or one HTTP exchange is one atomic step, and the requests *)
(* interleave between them.  Every request costs one unit.  Gating is on;  *)
(* the account-status check behind a degraded snapshot admits.             *)
(***************************************************************************)
EXTENDS Integers, FiniteSets

CONSTANTS
    Requests,    \* the user's requests
    Balance,     \* the units in the wallet at the start
    TopUp,       \* the units a top-up adds
    Threshold,   \* wallet_low_balance_inflight_threshold_cu
    Cap,         \* wallet_low_balance_inflight_cap
    Degrades,    \* whether payments may be unreachable (wallet_fail_open)
    LosesKeys,   \* whether the two counters may expire or be flushed
    MaxDeaths    \* bound: requests that end without releasing their slot

ASSUME GateAssumption ==
    /\ IsFiniteSet(Requests)
    /\ Balance \in Nat /\ TopUp \in Nat /\ Threshold \in Nat
    /\ Cap \in Nat \ {0} /\ MaxDeaths \in Nat
    /\ Degrades \in BOOLEAN /\ LosesKeys \in BOOLEAN

VARIABLES
    wallet,     \* the balance, at payments
    credit,     \* the one top-up of a behaviour: "none", "made", "told"
    snap,       \* the cached snapshot
    spent,      \* wallet:spent
    inflight,   \* wallet:inflight; 0 also when the key is absent
    at,         \* where each request stands
    step,       \* within the gate and the reservation: the snapshot's steps
    view,       \* the snapshot each request has in hand
    slots,      \* requests that hold an in-flight slot
    clearing,   \* releases that found the count below zero, before the DEL
    recorded    \* requests whose unit is in the ledger and in spent

\* History: reservations wiped from the count, by its expiry or by a DEL.
VARIABLE lost

cache == <<snap, spent, inflight>>
vars  == <<wallet, credit, cache, at, step, view, slots, clearing, recorded, lost>>

NoSnapshot   == [status |-> "none", balance |-> 0, baseline |-> 0]
Degraded     == [status |-> "degraded", balance |-> 0, baseline |-> 0]
Insufficient == [status |-> "insufficient", balance |-> 0, baseline |-> 0]

Places == {"gate", "reserve", "backing_off", "serving", "served", "recorded",
           "paid", "rejected", "refused", "ended", "dead"}

Snapshots == [status : {"none", "allowed", "insufficient", "degraded"},
              balance : Nat, baseline : Nat]

TypeOK ==
    /\ wallet \in 0..(Balance + TopUp)
    /\ credit \in {"none", "made", "told"}
    /\ snap \in Snapshots
    /\ spent \in 0..Cardinality(Requests)
    /\ inflight \in Int
    /\ at \in [Requests -> Places]
    /\ step \in [Requests -> {"cache", "baseline", "store", "decide"}]
    /\ view \in [Requests -> Snapshots]
    /\ slots \subseteq Requests
    /\ clearing \in Nat
    /\ recorded \subseteq Requests
    /\ lost \in Nat

Init ==
    /\ wallet = Balance
    /\ credit = "none"
    /\ snap = NoSnapshot
    /\ spent = 0
    /\ inflight = 0
    /\ at = [r \in Requests |-> "gate"]
    /\ step = [r \in Requests |-> "cache"]
    /\ view = [r \in Requests |-> NoSnapshot]
    /\ slots = {}
    /\ clearing = 0
    /\ recorded = {}
    /\ lost = 0

-----------------------------------------------------------------------------
(* _get_wallet_gate_snapshot, run by the gate and again by the reservation. *)

InGate(r) == at[r] \in {"gate", "reserve"}

ReadSnapshot(r) ==
    /\ InGate(r)
    /\ step[r] = "cache"
    /\ snap # NoSnapshot
    /\ view' = [view EXCEPT ![r] = snap]
    /\ step' = [step EXCEPT ![r] = "decide"]
    /\ UNCHANGED <<wallet, credit, cache, at, slots, clearing, recorded, lost>>

\* GET /wallet/balance; the baseline is read next.
FetchBalance(r) ==
    /\ InGate(r)
    /\ step[r] = "cache"
    /\ snap = NoSnapshot
    /\ view' = [view EXCEPT ![r] =
                  [status |-> IF wallet > 0 THEN "allowed" ELSE "insufficient",
                   balance |-> wallet, baseline |-> spent]]
    /\ step' = [step EXCEPT ![r] = "baseline"]
    /\ UNCHANGED <<wallet, credit, cache, at, slots, clearing, recorded, lost>>

\* Payments does not answer: a snapshot that gates nobody.
FetchFails(r) ==
    /\ Degrades
    /\ InGate(r)
    /\ step[r] = "cache"
    /\ snap = NoSnapshot
    /\ view' = [view EXCEPT ![r] = Degraded]
    /\ step' = [step EXCEPT ![r] = "store"]
    /\ UNCHANGED <<wallet, credit, cache, at, slots, clearing, recorded, lost>>

\* Mutant of ReadBaseline: the baseline is read first and the balance next.
ReadBalanceLast(r) ==
    /\ step[r] = "baseline"
    /\ view' = [view EXCEPT ![r].balance = wallet]
    /\ step' = [step EXCEPT ![r] = "store"]
    /\ UNCHANGED <<wallet, credit, cache, at, slots, clearing, recorded, lost>>

ReadBaseline(r) ==
    /\ step[r] = "baseline"
    /\ view' = [view EXCEPT ![r].baseline = spent]
    /\ step' = [step EXCEPT ![r] = "store"]
    /\ UNCHANGED <<wallet, credit, cache, at, slots, clearing, recorded, lost>>

StoreSnapshot(r) ==
    /\ step[r] = "store"
    /\ snap' = view[r]
    /\ step' = [step EXCEPT ![r] = "decide"]
    /\ UNCHANGED <<wallet, credit, spent, inflight, at, view, slots, clearing,
                   recorded, lost>>

\* What this gateway billed since the snapshot: zero if the count restarted.
SpentSince(v) == IF spent > v.baseline THEN spent - v.baseline ELSE 0

Effective(v) == v.balance - SpentSince(v)

\* can_make_request_cached.
GateDecides(r) ==
    /\ at[r] = "gate"
    /\ step[r] = "decide"
    /\ step' = [step EXCEPT ![r] = "cache"]
    /\ at' = [at EXCEPT ![r] =
                IF \/ view[r].status = "insufficient"
                   \/ view[r].status = "allowed" /\ Effective(view[r]) <= 0
                THEN "refused" ELSE "reserve"]
    /\ UNCHANGED <<wallet, credit, cache, view, slots, clearing, recorded, lost>>

-----------------------------------------------------------------------------
(* reserve_inflight and release_inflight.                                   *)

\* Mutant of OverCap: the count before the INCR is compared.
OverCapBefore(count) == count - 1 > Cap

OverCap(count) == count > Cap

\* No cap applies: a comfortable balance, or a snapshot that does not gate.
NeedsNoSlot(r) ==
    /\ at[r] = "reserve"
    /\ step[r] = "decide"
    /\ \/ view[r].status # "allowed"
       \/ Effective(view[r]) >= Threshold
    /\ at' = [at EXCEPT ![r] = "serving"]
    /\ step' = [step EXCEPT ![r] = "cache"]
    /\ UNCHANGED <<wallet, credit, cache, view, slots, clearing, recorded, lost>>

\* INCR, whose answer decides.
TakeSlot(r) ==
    /\ at[r] = "reserve"
    /\ step[r] = "decide"
    /\ view[r].status = "allowed"
    /\ Effective(view[r]) < Threshold
    /\ inflight' = inflight + 1
    /\ step' = [step EXCEPT ![r] = "cache"]
    /\ IF OverCap(inflight + 1)
       THEN /\ at' = [at EXCEPT ![r] = "backing_off"]
            /\ UNCHANGED slots
       ELSE /\ at' = [at EXCEPT ![r] = "serving"]
            /\ slots' = slots \union {r}
    /\ UNCHANGED <<wallet, credit, snap, spent, view, clearing, recorded, lost>>

\* DECR of a reservation over the cap.
BackOff(r) ==
    /\ at[r] = "backing_off"
    /\ at' = [at EXCEPT ![r] = "refused"]
    /\ inflight' = inflight - 1
    /\ UNCHANGED <<wallet, credit, snap, spent, step, view, slots, clearing,
                   recorded, lost>>

\* DECR, once the provider's answer or failure is in.
ReleaseSlot(r) ==
    /\ r \in slots
    /\ at[r] \notin {"serving", "dead"}
    /\ slots' = slots \ {r}
    /\ inflight' = inflight - 1
    /\ clearing' = IF inflight - 1 < 0 THEN clearing + 1 ELSE clearing
    /\ UNCHANGED <<wallet, credit, snap, spent, at, step, view, recorded, lost>>

\* The key is gone, with whatever it counted.
WipeSlots ==
    /\ inflight' = 0
    /\ lost' = IF inflight > 0 THEN lost + inflight ELSE lost

\* DEL, after a DECR that went below zero: reservations made in between go too.
ClearSlots ==
    /\ clearing > 0
    /\ clearing' = clearing - 1
    /\ WipeSlots
    /\ UNCHANGED <<wallet, credit, snap, spent, at, step, view, slots, recorded>>

-----------------------------------------------------------------------------
(* What a served request does to the wallet.                                *)

Answer(r) ==
    /\ at[r] = "serving"
    /\ \E outcome \in {"served", "ended"} : at' = [at EXCEPT ![r] = outcome]
    /\ UNCHANGED <<wallet, credit, cache, step, view, slots, clearing, recorded,
                   lost>>

\* The process stops, or a stream's generator is never started: no finally
\* releases the slot.
Dies(r) ==
    /\ at[r] = "serving"
    /\ r \in slots
    /\ Cardinality({q \in Requests : at[q] = "dead"}) < MaxDeaths
    /\ at' = [at EXCEPT ![r] = "dead"]
    /\ UNCHANGED <<wallet, credit, cache, step, view, slots, clearing, recorded,
                   lost>>

\* record_usage: the ledger row and INCRBYFLOAT wallet:spent.
RecordSpend(r) ==
    /\ at[r] = "served"
    /\ at' = [at EXCEPT ![r] = "recorded"]
    /\ spent' = spent + 1
    /\ recorded' = recorded \union {r}
    /\ UNCHANGED <<wallet, credit, snap, inflight, step, view, slots, clearing,
                   lost>>

\* POST /wallet/debit.
Debit(r) ==
    /\ at[r] = "recorded"
    /\ IF wallet > 0
       THEN /\ wallet' = wallet - 1
            /\ at' = [at EXCEPT ![r] = "paid"]
       ELSE /\ at' = [at EXCEPT ![r] = "rejected"]
            /\ UNCHANGED wallet
    /\ UNCHANGED <<credit, cache, step, view, slots, clearing, recorded, lost>>

\* After a debit the snapshot is dropped; after a 402 it is set to empty.
CacheDebit(r) ==
    /\ at[r] \in {"paid", "rejected"}
    /\ snap' = IF at[r] = "paid" THEN NoSnapshot ELSE Insufficient
    /\ at' = [at EXCEPT ![r] = "ended"]
    /\ UNCHANGED <<wallet, credit, spent, inflight, step, view, slots, clearing,
                   recorded, lost>>

-----------------------------------------------------------------------------
(* Payments, and the clock.                                                 *)

\* A top-up, and the call to /wallet-cache/invalidate that follows it.
Credit ==
    /\ credit = "none"
    /\ credit' = "made"
    /\ wallet' = wallet + TopUp
    /\ UNCHANGED <<cache, at, step, view, slots, clearing, recorded, lost>>

Invalidate ==
    /\ credit = "made"
    /\ credit' = "told"
    /\ snap' = NoSnapshot
    /\ UNCHANGED <<wallet, spent, inflight, at, step, view, slots, clearing,
                   recorded, lost>>

SnapshotExpires ==
    /\ snap # NoSnapshot
    /\ snap' = NoSnapshot
    /\ UNCHANGED <<wallet, credit, spent, inflight, at, step, view, slots,
                   clearing, recorded, lost>>

SpentExpires ==
    /\ LosesKeys
    /\ spent > 0
    /\ spent' = 0
    /\ UNCHANGED <<wallet, credit, snap, inflight, at, step, view, slots,
                   clearing, recorded, lost>>

\* INFLIGHT_SLOT_TTL, refreshed by every reservation, runs out.
SlotsExpire ==
    /\ LosesKeys
    /\ inflight # 0
    /\ WipeSlots
    /\ UNCHANGED <<wallet, credit, snap, spent, at, step, view, slots, clearing,
                   recorded>>

-----------------------------------------------------------------------------

Request(r) ==
    \/ ReadSnapshot(r) \/ FetchBalance(r) \/ FetchFails(r) \/ ReadBaseline(r)
    \/ StoreSnapshot(r) \/ GateDecides(r)
    \/ NeedsNoSlot(r) \/ TakeSlot(r) \/ BackOff(r) \/ ReleaseSlot(r)
    \/ Answer(r) \/ Dies(r) \/ RecordSpend(r) \/ Debit(r) \/ CacheDebit(r)

Next ==
    \/ \E r \in Requests : Request(r)
    \/ ClearSlots
    \/ Credit \/ Invalidate
    \/ SnapshotExpires \/ SpentExpires \/ SlotsExpire

Spec == Init /\ [][Next]_vars

-----------------------------------------------------------------------------
(* What the gate guarantees.                                                *)

\* The gate never takes money off a user twice: the effective balance of a
\* cached snapshot is at least what the user had at the start less what the
\* ledger holds, whatever was debited, and in whatever order, between the
\* fetch of the balance, the read of the baseline and the decision.
NeverUnderstates ==
    snap.status = "allowed" => Effective(snap) >= Balance - Cardinality(recorded)

\* "A counter that restarted ... counts as zero spend, never negative"
\* (billing_repository.py:297-298): nor does the gate ever see more than the
\* wallet ever held.
NeverInflates ==
    snap.status = "allowed" =>
        Effective(snap) <= Balance + (IF credit = "none" THEN 0 ELSE TopUp)

\* What the gate decides by is never less than the user's own money and never
\* more than there was, whichever steps lie between the two reads of a snapshot.
Truthful == NeverUnderstates /\ NeverInflates

\* The low-balance cap, with its key expiring, its releases overtaking each
\* other and its slots leaking: every reservation that was wiped from the count
\* lets at most one request more than the cap hold a slot.
SlotsBounded == Cardinality(slots) <= Cap + lost

=============================================================================
