---------------------------- MODULE WalletProofs ----------------------------
(***************************************************************************)
(* What the wallet is told: by its gate, for every number of requests,     *)
(* balance, top-up, threshold and cap, and by the debits of the ledger,    *)
(* for every number of requests, every bound on attempts and deaths, and   *)
(* every outcome of the fee accrual.  The two specifications share no      *)
(* state: Spec is the gate's, LedgerSpec the ledger's.                     *)
(***************************************************************************)
EXTENDS WalletGate, UsageDebit, FiniteSetTheorems, TLAPS

\* The requests payments has dealt with.
Handled == {r \in recorded : at[r] # "recorded"}

\* A snapshot that takes nothing twice.
Fair(v) == Effective(v) >= Balance - Cardinality(recorded)

Numbers ==
    /\ wallet \in Nat
    /\ spent \in Nat
    /\ recorded \subseteq Requests
    /\ at \in [Requests -> Places]
    /\ step \in [Requests -> {"cache", "baseline", "store", "decide"}]
    /\ snap \in Snapshots
    /\ view \in [Requests -> Snapshots]
    /\ \A r \in Requests :
          /\ at[r] \in {"gate", "reserve", "serving", "served"} => r \notin recorded
          /\ at[r] = "recorded" => r \in recorded

\* The balance at payments is what was there less what was handled, a balance
\* on its way to a snapshot covers what is recorded, and a finished snapshot
\* is fair.
Sound ==
    /\ wallet >= Balance - Cardinality(Handled)
    /\ \A r \in Requests :
          step[r] = "baseline" => view[r].balance >= Balance - Cardinality(recorded)
    /\ \A r \in Requests :
          step[r] \in {"store", "decide"} /\ view[r].status = "allowed"
          => Fair(view[r])
    /\ snap.status = "allowed" => Fair(snap)
    /\ \A r \in Requests : step[r] # "cache" => InGate(r)

\* Sets of requests are finite and can be counted.
LEMMA Counts ==
    ASSUME NEW S, S \subseteq Requests
    PROVE  /\ IsFiniteSet(S)
           /\ Cardinality(S) \in Nat
           /\ \A T \in SUBSET S : Cardinality(T) \in Nat /\ Cardinality(T) <= Cardinality(S)
<1>1. IsFiniteSet(S)
  BY FS_Subset, GateAssumption
<1>2. Cardinality(S) \in Nat
  BY <1>1, FS_CardinalityType
<1>3. ASSUME NEW T \in SUBSET S
      PROVE  Cardinality(T) \in Nat /\ Cardinality(T) <= Cardinality(S)
  <2>1. IsFiniteSet(T) /\ Cardinality(T) <= Cardinality(S)
    BY <1>1, FS_Subset
  <2>2. QED
    BY <2>1, FS_CardinalityType
<1>4. QED
  BY <1>1, <1>2, <1>3

\* One request more makes the count one more.
LEMMA OneMore ==
    ASSUME NEW S, S \subseteq Requests, NEW r \in Requests, r \notin S
    PROVE  Cardinality(S \union {r}) = Cardinality(S) + 1
BY Counts, FS_AddElement

\* The numbers are numbers, and nothing is recorded before it is served.
THEOREM NumbersAlways == Spec => []Numbers
<1> USE GateAssumption DEF Numbers, Places, Snapshots, NoSnapshot, Degraded,
                           Insufficient
<1>1. Init => Numbers
  BY DEF Init
<1>2. Numbers /\ [Next]_vars => Numbers'
  <2> SUFFICES ASSUME Numbers, [Next]_vars PROVE Numbers'
    OBVIOUS
  <2> USE DEF cache, InGate
  <2>1. ASSUME NEW r \in Requests, Request(r) PROVE Numbers'
    <3>1. CASE ReadSnapshot(r)
      BY <3>1 DEF ReadSnapshot
    <3>2. CASE FetchBalance(r)
      <4>1. view' \in [Requests -> Snapshots]
        BY <3>2 DEF FetchBalance
      <4>2. QED
        BY <3>2, <4>1 DEF FetchBalance
    <3>3. CASE FetchFails(r)
      BY <3>3 DEF FetchFails
    <3>4. CASE ReadBaseline(r)
      BY <3>4 DEF ReadBaseline
    <3>5. CASE StoreSnapshot(r)
      BY <3>5 DEF StoreSnapshot
    <3>6. CASE GateDecides(r)
      BY <3>6 DEF GateDecides
    <3>7. CASE NeedsNoSlot(r)
      BY <3>7 DEF NeedsNoSlot
    <3>8. CASE TakeSlot(r)
      BY <3>8 DEF TakeSlot
    <3>9. CASE BackOff(r)
      BY <3>9 DEF BackOff
    <3>10. CASE ReleaseSlot(r)
      BY <3>10 DEF ReleaseSlot
    <3>11. CASE Answer(r)
      BY <3>11 DEF Answer
    <3>12. CASE Dies(r)
      BY <3>12 DEF Dies
    <3>13. CASE RecordSpend(r)
      BY <3>13 DEF RecordSpend
    <3>14. CASE Debit(r)
      BY <3>14 DEF Debit
    <3>15. CASE CacheDebit(r)
      BY <3>15 DEF CacheDebit
    <3>16. QED
      BY <2>1, <3>1, <3>2, <3>3, <3>4, <3>5, <3>6, <3>7, <3>8, <3>9, <3>10,
         <3>11, <3>12, <3>13, <3>14, <3>15 DEF Request
  <2>2. CASE ClearSlots
    BY <2>2 DEF ClearSlots
  <2>3. CASE Credit
    BY <2>3 DEF Credit
  <2>4. CASE Invalidate
    BY <2>4 DEF Invalidate
  <2>5. CASE SnapshotExpires
    BY <2>5 DEF SnapshotExpires
  <2>6. CASE SpentExpires
    BY <2>6 DEF SpentExpires
  <2>7. CASE SlotsExpire
    BY <2>7 DEF SlotsExpire
  <2>8. CASE UNCHANGED vars
    BY <2>8 DEF vars
  <2>9. QED
    BY <2>1, <2>2, <2>3, <2>4, <2>5, <2>6, <2>7, <2>8 DEF Next
<1>3. QED
  BY <1>1, <1>2, PTL DEF Spec

\* The effective balance of a cached snapshot takes no unit off a user twice,
\* whatever is fetched, recorded, debited, expired and credited in between.
THEOREM NeverUnderstatesAlways == Spec => []NeverUnderstates
<1> USE GateAssumption DEF NoSnapshot, Degraded, Insufficient
<1>1. Init => Sound
  <2> SUFFICES ASSUME Init PROVE Sound
    OBVIOUS
  <2>1. Handled = {} /\ Cardinality({}) = 0
    BY FS_EmptySet DEF Init, Handled
  <2>2. wallet >= Balance - Cardinality(Handled)
    BY <2>1 DEF Init
  <2>3. \A r \in Requests : step[r] = "cache"
    BY DEF Init
  <2>4. snap.status # "allowed"
    BY DEF Init
  <2>5. QED
    BY <2>2, <2>3, <2>4, Zenon DEF Sound
<1>2. Numbers /\ Numbers' /\ Sound /\ [Next]_vars => Sound'
  <2> SUFFICES ASSUME Numbers, Numbers', Sound, [Next]_vars PROVE Sound'
    OBVIOUS
  <2> USE DEF cache
  <2> DEFINE n == Cardinality(recorded)
  <2> DEFINE h == Cardinality(Handled)
  <2>0. n \in Nat /\ h \in Nat /\ h <= n
    BY Counts DEF Handled, Numbers
  <2>1. ASSUME NEW r \in Requests, Request(r) PROVE Sound'
    <3>1. CASE ReadSnapshot(r)
      <4>1. UNCHANGED <<wallet, spent, recorded, snap, at>> /\ Handled' = Handled
        BY <3>1 DEF ReadSnapshot, Handled
      <4>2. \A q \in Requests : \/ view'[q] = view[q] /\ step'[q] = step[q]
                                \/ view'[q] = snap /\ step'[q] = "decide" /\ q = r
        BY <3>1 DEF ReadSnapshot, Numbers
      <4>3. QED
        BY <3>1, <4>1, <4>2 DEF ReadSnapshot, Sound, Fair, Effective, SpentSince, InGate
    <3>2. CASE FetchBalance(r)
      <4>1. UNCHANGED <<wallet, spent, recorded, snap, at>> /\ Handled' = Handled
        BY <3>2 DEF FetchBalance, Handled
      <4>2. \A q \in Requests : \/ view'[q] = view[q] /\ step'[q] = step[q]
                                \/ view'[q].balance = wallet /\ step'[q] = "baseline" /\ q = r
        BY <3>2 DEF FetchBalance, Numbers
      <4>3. wallet >= Balance - n
        BY <2>0 DEF Sound, Numbers
      <4>4. QED
        BY <3>2, <4>1, <4>2, <4>3 DEF FetchBalance, Sound, Fair, Effective, SpentSince, InGate
    <3>3. CASE FetchFails(r)
      <4>1. UNCHANGED <<wallet, spent, recorded, snap, at>> /\ Handled' = Handled
        BY <3>3 DEF FetchFails, Handled
      <4>2. \A q \in Requests : \/ view'[q] = view[q] /\ step'[q] = step[q]
                                \/ view'[q] = Degraded /\ step'[q] = "store" /\ q = r
        BY <3>3 DEF FetchFails, Numbers
      <4>3. QED
        BY <3>3, <4>1, <4>2 DEF FetchFails, Sound, Fair, Effective, SpentSince, InGate
    <3>4. CASE ReadBaseline(r)
      <4>1. UNCHANGED <<wallet, spent, recorded, snap, at>> /\ Handled' = Handled
        BY <3>4 DEF ReadBaseline, Handled
      <4>2. \A q \in Requests :
               \/ view'[q] = view[q] /\ step'[q] = step[q]
               \/ /\ q = r /\ step'[q] = "store"
                  /\ view'[q].balance = view[q].balance
                  /\ view'[q].baseline = spent
        BY <3>4 DEF ReadBaseline, Numbers, Snapshots
      <4>3. view[r].balance \in Nat /\ view[r].balance >= Balance - n
        BY <3>4 DEF ReadBaseline, Sound, Numbers, Snapshots
      <4>4. InGate(r)
        BY <3>4 DEF ReadBaseline, Sound
      <4>6. Fair(view[r])'
        BY <3>4, <4>1, <4>2, <4>3, <2>0
        DEF ReadBaseline, Fair, Effective, SpentSince, Numbers, Snapshots
      <4>7. \A q \in Requests : q # r => view'[q] = view[q] /\ step'[q] = step[q]
        BY <4>2
      <4>8. step'[r] = "store"
        BY <3>4 DEF ReadBaseline, Numbers
      <4>9. QED
        BY <4>1, <4>4, <4>6, <4>7, <4>8 DEF Sound, Fair, Effective, SpentSince, InGate
    <3>5. CASE StoreSnapshot(r)
      <4>1. UNCHANGED <<wallet, spent, recorded, view, at>> /\ Handled' = Handled
        BY <3>5 DEF StoreSnapshot, Handled
      <4>2. \A q \in Requests : step'[q] = step[q] \/ (q = r /\ step'[q] = "decide")
        BY <3>5 DEF StoreSnapshot, Numbers
      <4>3. snap'.status = "allowed" => Fair(snap')
        BY <3>5 DEF StoreSnapshot, Sound
      <4>4. QED
        BY <3>5, <4>1, <4>2, <4>3 DEF StoreSnapshot, Sound, Fair, Effective, SpentSince, InGate
    <3>6. CASE GateDecides(r) \/ NeedsNoSlot(r) \/ TakeSlot(r)
      <4>1. /\ UNCHANGED <<wallet, spent, recorded, snap, view>>
            /\ at[r] \in {"gate", "reserve"} /\ step' = [step EXCEPT ![r] = "cache"]
            /\ at'[r] # "recorded"
            /\ \A q \in Requests : q # r => at'[q] = at[q]
        BY <3>6 DEF GateDecides, NeedsNoSlot, TakeSlot, Numbers
      <4>2. Handled' = Handled
        BY <4>1 DEF Handled, Numbers
      <4>3. \A q \in Requests : IF q = r THEN step'[q] = "cache" ELSE step'[q] = step[q]
        BY <4>1 DEF Numbers
      <4>4. QED
        BY <4>1, <4>2, <4>3 DEF Sound, Fair, Effective, SpentSince, InGate
    <3>7. CASE \/ BackOff(r) \/ ReleaseSlot(r) \/ Answer(r) \/ Dies(r) \/ CacheDebit(r)
      <4>1. /\ UNCHANGED <<wallet, spent, recorded, view, step>>
            /\ snap' \in {snap, NoSnapshot, Insufficient}
            /\ \A q \in Requests : at'[q] = at[q] \/ (~InGate(q) /\ at[q] # "recorded" /\ at'[q] # "recorded")
        BY <3>7 DEF BackOff, ReleaseSlot, Answer, Dies, CacheDebit, Numbers, InGate
      <4>2. Handled' = Handled
        BY <4>1 DEF Handled, Numbers
      <4>3. QED
        BY <4>1, <4>2 DEF Sound, Fair, Effective, SpentSince, InGate
    <3>8. CASE RecordSpend(r)
      <4>1. /\ UNCHANGED <<wallet, snap, view, step>>
            /\ spent' = spent + 1 /\ recorded' = recorded \union {r}
            /\ r \notin recorded /\ at[r] = "served" /\ at'[r] = "recorded"
            /\ \A q \in Requests : q # r => at'[q] = at[q]
        BY <3>8 DEF RecordSpend, Numbers
      <4>2. Cardinality(recorded') = n + 1
        BY <4>1, OneMore DEF Numbers
      <4>3. Handled' = Handled
        BY <4>1 DEF Handled, Numbers
      <4>4. \A v \in Snapshots : Fair(v) =>
               v.balance - (IF spent' > v.baseline THEN spent' - v.baseline ELSE 0)
                   >= Balance - Cardinality(recorded')
        BY <2>0, <4>1, <4>2 DEF Fair, Effective, SpentSince, Numbers, Snapshots
      <4>5. \A q \in Requests : step[q] = "baseline" =>
               view[q].balance >= Balance - Cardinality(recorded')
        BY <2>0, <4>2 DEF Sound, Numbers, Snapshots
      <4>6. QED
        BY <4>1, <4>3, <4>4, <4>5 DEF Sound, Fair, Effective, SpentSince, Numbers, InGate
    <3>9. CASE Debit(r)
      <4>1. /\ UNCHANGED <<spent, recorded, snap, view, step>>
            /\ at[r] = "recorded" /\ at'[r] # "recorded" /\ ~InGate(r)
            /\ wallet' \in {wallet, wallet - 1}
            /\ wallet' = wallet => wallet = 0
            /\ \A q \in Requests : q # r => at'[q] = at[q]
        BY <3>9 DEF Debit, InGate, Numbers
      <4>2. CASE r \in recorded
        <5>1. Handled' = Handled \union {r} /\ r \notin Handled
          BY <4>1, <4>2 DEF Handled, Numbers
        <5>2. Cardinality(Handled') = h + 1
          BY <5>1, OneMore DEF Handled, Numbers
        <5>3. wallet' >= Balance - Cardinality(Handled')
          BY <4>1, <5>2, <2>0 DEF Sound, Numbers
        <5>4. QED
          BY <4>1, <5>3 DEF Sound, Fair, Effective, SpentSince, InGate
      <4>3. r \in recorded
        BY <4>1 DEF Numbers
      <4>4. QED
        BY <4>2, <4>3
    <3>10. QED
      BY <2>1, <3>1, <3>2, <3>3, <3>4, <3>5, <3>6, <3>7, <3>8, <3>9 DEF Request
  <2>2. CASE Credit
    <3>1. Handled' = Handled
      BY <2>2 DEF Credit, Handled
    <3>2. wallet' >= Balance - Cardinality(Handled')
      BY <2>2, <2>0, <3>1 DEF Credit, Sound, Numbers
    <3>3. QED
      BY <2>2, <3>2 DEF Credit, Sound, Fair, Effective, SpentSince, InGate
  <2>3. CASE SpentExpires
    <3>1. Handled' = Handled
      BY <2>3 DEF SpentExpires, Handled
    <3>2. \A v \in Snapshots : Fair(v) =>
             v.balance - (IF spent' > v.baseline THEN spent' - v.baseline ELSE 0)
                 >= Balance - n
      BY <2>0, <2>3 DEF SpentExpires, Fair, Effective, SpentSince, Numbers, Snapshots
    <3>3. QED
      BY <2>3, <3>1, <3>2 DEF SpentExpires, Sound, Fair, Effective, SpentSince, InGate, Numbers
  <2>4. CASE ClearSlots \/ Invalidate \/ SnapshotExpires \/ SlotsExpire \/ UNCHANGED vars
    <3>1. /\ UNCHANGED <<wallet, spent, recorded, at, view, step>>
          /\ snap' \in {snap, NoSnapshot}
      BY <2>4 DEF ClearSlots, Invalidate, SnapshotExpires, SlotsExpire, vars
    <3>2. Handled' = Handled
      BY <3>1 DEF Handled
    <3>3. QED
      BY <3>1, <3>2 DEF Sound, Fair, Effective, SpentSince, InGate
  <2>5. QED
    BY <2>1, <2>2, <2>3, <2>4 DEF Next
<1>3. Sound => NeverUnderstates
  BY DEF Sound, Fair, NeverUnderstates
<1>4. QED
  BY <1>1, <1>2, <1>3, NumbersAlways, PTL DEF Spec

-----------------------------------------------------------------------------
(* Nothing is invented.                                                     *)

\* All the money there has been.
Ceiling == Balance + (IF credit = "none" THEN 0 ELSE TopUp)

\* No balance read, cached or on its way, is above it.
Covered ==
    /\ wallet <= Ceiling
    /\ snap.balance <= Ceiling
    /\ \A r \in Requests : view[r].balance <= Ceiling

\* The gate never decides by more money than there has been.
LEMMA CoveredAlways == Spec => []Covered
<1> USE GateAssumption DEF NoSnapshot, Degraded, Insufficient
<1>1. Init => Covered
  BY DEF Init, Covered, Ceiling
<1>2. Numbers /\ Covered /\ [Next]_vars => Covered'
  <2> SUFFICES ASSUME Numbers, Covered, [Next]_vars PROVE Covered'
    OBVIOUS
  <2> USE DEF cache
  <2>0. Ceiling \in Nat /\ Ceiling >= 0 /\ wallet \in Nat
    BY DEF Ceiling, Numbers
  <2>1. ASSUME NEW r \in Requests, Request(r) PROVE Covered'
    <3>1. CASE ReadSnapshot(r) \/ FetchBalance(r) \/ FetchFails(r) \/ ReadBaseline(r)
      <4>1. UNCHANGED <<wallet, credit, snap>>
        BY <3>1 DEF ReadSnapshot, FetchBalance, FetchFails, ReadBaseline
      <4>2. \A q \in Requests : view'[q].balance \in {view[q].balance, snap.balance, wallet, 0}
        <5>1. CASE ReadSnapshot(r)
          BY <5>1 DEF ReadSnapshot, Numbers
        <5>2. CASE FetchBalance(r)
          BY <5>2 DEF FetchBalance, Numbers
        <5>3. CASE FetchFails(r)
          BY <5>3 DEF FetchFails, Numbers
        <5>4. CASE ReadBaseline(r)
          BY <5>4 DEF ReadBaseline, Numbers, Snapshots
        <5>5. QED
          BY <3>1, <5>1, <5>2, <5>3, <5>4
      <4>3. QED
        BY <2>0, <4>1, <4>2 DEF Covered, Ceiling
    <3>2. CASE StoreSnapshot(r)
      BY <3>2 DEF StoreSnapshot, Covered, Ceiling
    <3>3. CASE GateDecides(r) \/ NeedsNoSlot(r) \/ TakeSlot(r) \/ BackOff(r) \/ ReleaseSlot(r)
               \/ Answer(r) \/ Dies(r) \/ RecordSpend(r)
      <4>1. UNCHANGED <<wallet, credit, snap, view>>
        BY <3>3 DEF GateDecides, NeedsNoSlot, TakeSlot, BackOff, ReleaseSlot, Answer, Dies,
                    RecordSpend
      <4>2. QED
        BY <4>1 DEF Covered, Ceiling
    <3>4. CASE Debit(r)
      <4>1. UNCHANGED <<credit, snap, view>> /\ wallet' \in {wallet, wallet - 1}
        BY <3>4 DEF Debit
      <4>2. QED
        BY <2>0, <4>1 DEF Covered, Ceiling
    <3>5. CASE CacheDebit(r)
      <4>1. UNCHANGED <<wallet, credit, view>> /\ snap' \in {NoSnapshot, Insufficient}
        BY <3>5 DEF CacheDebit
      <4>2. QED
        BY <2>0, <4>1 DEF Covered, Ceiling
    <3>6. QED
      BY <2>1, <3>1, <3>2, <3>3, <3>4, <3>5 DEF Request
  <2>2. CASE Credit
    <3>1. /\ UNCHANGED <<snap, view>> /\ wallet' = wallet + TopUp
          /\ Ceiling = Balance /\ Ceiling' = Balance + TopUp
      BY <2>2 DEF Credit, Ceiling
    <3>2. snap.balance \in Nat /\ \A r \in Requests : view[r].balance \in Nat
      BY DEF Numbers, Snapshots
    <3>3. QED
      BY <2>0, <3>1, <3>2 DEF Covered
  <2>3. CASE Invalidate
    BY <2>0, <2>3 DEF Invalidate, Covered, Ceiling
  <2>4. CASE ClearSlots \/ SnapshotExpires \/ SpentExpires \/ SlotsExpire \/ UNCHANGED vars
    <3>1. UNCHANGED <<wallet, credit, view>> /\ snap' \in {snap, NoSnapshot}
      BY <2>4 DEF ClearSlots, SnapshotExpires, SpentExpires, SlotsExpire, vars
    <3>2. QED
      BY <2>0, <3>1 DEF Covered, Ceiling
  <2>5. QED
    BY <2>1, <2>2, <2>3, <2>4 DEF Next
<1>3. QED
  BY <1>1, <1>2, NumbersAlways, PTL DEF Spec

\* What the gate decides by is never less than the user's own money and never
\* more than there was.
THEOREM TruthfulAlways == Spec => []Truthful
<1>1. Numbers /\ Covered => NeverInflates
  <2> SUFFICES ASSUME Numbers, Covered, snap.status = "allowed"
               PROVE  Effective(snap) <= Ceiling
    BY DEF NeverInflates, Ceiling
  <2>1. snap.balance \in Nat /\ snap.baseline \in Nat /\ spent \in Nat
    BY DEF Numbers, Snapshots
  <2>2. Effective(snap) <= snap.balance /\ Effective(snap) \in Int
    BY <2>1 DEF Effective, SpentSince
  <2>3. Ceiling \in Nat
    BY GateAssumption DEF Ceiling
  <2>4. QED
    BY <2>1, <2>2, <2>3 DEF Covered
<1>2. NeverUnderstates /\ NeverInflates => Truthful
  BY DEF Truthful
<1>3. QED
  BY <1>1, <1>2, NumbersAlways, CoveredAlways, NeverUnderstatesAlways, PTL

-----------------------------------------------------------------------------
(* The low-balance cap.                                                     *)

\* The requests whose INCR has not been taken back.
Counted == slots \union {r \in Requests : at[r] = "backing_off"}

\* The count falls behind what it counts by no more than what was wiped, and a
\* slot is held only by one whose reservation is over.
Capped ==
    /\ inflight \in Int /\ lost \in Nat
    /\ slots \subseteq Requests
    /\ \A r \in slots : at[r] \notin {"gate", "reserve", "backing_off"}
    /\ Cardinality(Counted) <= inflight + lost
    /\ SlotsBounded

\* One request less makes the count one less.
LEMMA OneLess ==
    ASSUME NEW S, S \subseteq Requests, NEW r \in S
    PROVE  Cardinality(S \ {r}) = Cardinality(S) - 1
BY Counts, FS_RemoveElement

\* However many requests run, and whenever the key expires or is deleted under
\* them, every reservation over the cap was wiped from the count.
THEOREM CapHolds == Spec => []SlotsBounded
<1> USE GateAssumption
<1>1. Init => Capped
  <2> SUFFICES ASSUME Init PROVE Capped
    OBVIOUS
  <2>1. slots = {} /\ Counted = {} /\ inflight = 0 /\ lost = 0
    BY DEF Init, Counted
  <2>2. Cardinality({}) = 0
    BY FS_EmptySet
  <2>3. QED
    BY <2>1, <2>2 DEF Capped, SlotsBounded
<1>2. Numbers /\ Capped /\ [Next]_vars => Capped'
  <2> SUFFICES ASSUME Numbers, Capped, [Next]_vars PROVE Capped'
    OBVIOUS
  <2> USE DEF cache
  <2>0. /\ Counted \subseteq Requests /\ slots \subseteq Counted
        /\ Cardinality(Counted) \in Nat /\ Cardinality(slots) \in Nat
        /\ Cardinality(slots) <= Cardinality(Counted)
    BY Counts DEF Counted, Capped
  <2>1. ASSUME UNCHANGED <<inflight, slots, lost>>,
               \A r \in Requests : \/ at'[r] = at[r]
                                   \/ /\ at[r] # "backing_off"
                                      /\ at'[r] \notin {"gate", "reserve", "backing_off"}
                                   \/ r \notin slots /\ at[r] # "backing_off"
                                      /\ at'[r] # "backing_off"
        PROVE  Capped'
    <3>1. Counted' = Counted
      BY <2>1 DEF Counted
    <3>2. QED
      BY <2>1, <3>1 DEF Capped, SlotsBounded
  <2>2. ASSUME NEW r \in Requests, Request(r) PROVE Capped'
    <3>1. CASE ReadSnapshot(r) \/ FetchBalance(r) \/ FetchFails(r) \/ ReadBaseline(r)
               \/ StoreSnapshot(r)
      BY <2>1, <3>1 DEF ReadSnapshot, FetchBalance, FetchFails, ReadBaseline, StoreSnapshot
    <3>2. CASE GateDecides(r)
      <4>1. r \notin slots /\ at[r] = "gate" /\ at'[r] \in {"refused", "reserve"}
            /\ \A q \in Requests : q # r => at'[q] = at[q]
        BY <3>2 DEF GateDecides, Capped, Numbers
      <4>2. QED
        BY <2>1, <3>2, <4>1 DEF GateDecides
    <3>3. CASE NeedsNoSlot(r) \/ Answer(r) \/ Dies(r) \/ RecordSpend(r) \/ Debit(r)
               \/ CacheDebit(r)
      <4>1. /\ at[r] # "backing_off" /\ at'[r] \notin {"gate", "reserve", "backing_off"}
            /\ \A q \in Requests : q # r => at'[q] = at[q]
            /\ UNCHANGED <<inflight, slots, lost>>
        BY <3>3 DEF NeedsNoSlot, Answer, Dies, RecordSpend, Debit, CacheDebit, Numbers
      <4>2. QED
        BY <2>1, <4>1
    <3>4. CASE TakeSlot(r)
      <4>1. /\ r \notin Counted /\ inflight' = inflight + 1 /\ lost' = lost
            /\ \A q \in Requests : q # r => at'[q] = at[q]
        BY <3>4 DEF TakeSlot, Capped, Counted, Numbers
      <4>2. \/ OverCap(inflight + 1) /\ at'[r] = "backing_off" /\ slots' = slots
            \/ ~OverCap(inflight + 1) /\ at'[r] = "serving" /\ slots' = slots \union {r}
        BY <3>4 DEF TakeSlot, Numbers
      <4>3. Counted' = Counted \union {r}
        BY <4>1, <4>2, <2>0 DEF Counted, Capped
      <4>4. Cardinality(Counted') = Cardinality(Counted) + 1
        BY <2>0, <4>1, <4>3, OneMore
      <4>5. Cardinality(Counted') <= inflight' + lost'
        BY <2>0, <4>1, <4>4 DEF Capped
      <4>6. Cardinality(slots') <= Cap + lost'
        <5>1. CASE slots' = slots
          BY <4>1, <5>1 DEF Capped, SlotsBounded
        <5>2. CASE ~OverCap(inflight + 1) /\ slots' = slots \union {r}
          <6>1. Cardinality(slots') = Cardinality(slots) + 1
            BY <2>0, <4>1, <5>2, OneMore
          <6>2. QED
            BY <2>0, <4>1, <5>2, <6>1 DEF OverCap, Capped
        <5>3. QED
          BY <4>2, <5>1, <5>2
      <4>7. QED
        <5>1. slots' \subseteq Requests /\ inflight' \in Int /\ lost' \in Nat
          BY <4>1, <4>2 DEF Capped
        <5>2. ASSUME NEW q \in slots' PROVE at'[q] \notin {"gate", "reserve", "backing_off"}
          <6>1. CASE q \in slots
            <7>1. q # r
              BY <2>0, <4>1, <6>1
            <7>2. QED
              BY <4>1, <5>1, <5>2, <6>1, <7>1 DEF Capped
          <6>2. CASE q \notin slots
            BY <4>2, <5>2, <6>2
          <6>3. QED
            BY <6>1, <6>2
        <5>3. QED
          BY <4>5, <4>6, <5>1, <5>2 DEF Capped, SlotsBounded
    <3>5. CASE BackOff(r)
      <4>1. /\ r \in Counted /\ r \notin slots /\ slots' = slots
            /\ inflight' = inflight - 1 /\ lost' = lost /\ at'[r] = "refused"
            /\ \A q \in Requests : q # r => at'[q] = at[q]
        BY <3>5 DEF BackOff, Capped, Counted, Numbers
      <4>2. Counted' = Counted \ {r}
        BY <4>1 DEF Counted
      <4>3. Cardinality(Counted') = Cardinality(Counted) - 1
        BY <2>0, <4>1, <4>2, OneLess
      <4>4. QED
        BY <2>0, <4>1, <4>3 DEF Capped, SlotsBounded
    <3>6. CASE ReleaseSlot(r)
      <4>1. /\ r \in slots /\ slots' = slots \ {r} /\ at' = at /\ lost' = lost
            /\ inflight' = inflight - 1 /\ at[r] # "backing_off"
        BY <3>6 DEF ReleaseSlot, Capped
      <4>2. Counted' = Counted \ {r}
        BY <4>1 DEF Counted
      <4>3. /\ Cardinality(Counted') = Cardinality(Counted) - 1
            /\ Cardinality(slots') = Cardinality(slots) - 1
        BY <2>0, <4>1, <4>2, OneLess
      <4>4. QED
        BY <2>0, <4>1, <4>3 DEF Capped, SlotsBounded
    <3>7. QED
      BY <2>2, <3>1, <3>2, <3>3, <3>4, <3>5, <3>6 DEF Request
  <2>3. CASE ClearSlots \/ SlotsExpire
    <3>1. UNCHANGED <<slots, at>> /\ WipeSlots
      BY <2>3 DEF ClearSlots, SlotsExpire
    <3>2. Counted' = Counted
      BY <3>1 DEF Counted
    <3>3. QED
      BY <2>0, <3>1, <3>2 DEF WipeSlots, Capped, SlotsBounded
  <2>4. CASE Credit \/ Invalidate \/ SnapshotExpires \/ SpentExpires \/ UNCHANGED vars
    BY <2>1, <2>4 DEF Credit, Invalidate, SnapshotExpires, SpentExpires, vars
  <2>5. QED
    BY <2>2, <2>3, <2>4 DEF Next
<1>3. Capped => SlotsBounded
  BY DEF Capped
<1>4. QED
  BY <1>1, <1>2, <1>3, NumbersAlways, PTL DEF Spec

-----------------------------------------------------------------------------
(* From a served request to its settled row.                              *)

\* Wherever a "debited" is on its way to a row (with the biller, in a session
\* that has not committed, in the worker's round), the money was taken.
Honest ==
    /\ \A r \in Served : verdict[r] = "debited" => applied[r]
    /\ \A r \in Served, k \in Kinds :
          /\ unsaved[<<r, k>>] = "debited" => applied[r]
          /\ marks[<<r, k>>].status = "debited" => applied[r]
          /\ row[<<r, k>>] = "debited" => applied[r]

\* The part of the types that the argument needs.
Typed ==
    /\ verdict \in [Served -> Status]
    /\ applied \in [Served -> BOOLEAN]
    /\ unsaved \in [Items -> Status]
    /\ row \in [Items -> Status]
    /\ target \in [Served -> Kinds \union {"none"}]
    /\ \A r \in Served : biller[r] = "found" => target[r] \in Kinds
    /\ biller \in [Served -> {"waiting", "due", "marking", "found", "ended"}]
    /\ marks \in [Items -> [status : Status, attempts : Nat]]
    /\ attempts \in [Items -> Nat]
    /\ todo \subseteq Items

\* A debit seen to succeed took the money, and no answer gives it back.
LEMMA OutcomeHonest ==
    ASSUME NEW r \in Served, applied[r] \in BOOLEAN, NEW o \in DebitOutcomes(r)
    PROVE  /\ o.taken \in BOOLEAN
           /\ applied[r] => o.taken
           /\ o.seen = "ok" => o.taken
           /\ o.seen \in Answers
BY DEF DebitOutcomes, Answers

\* "debited" is the verdict of a debit seen to succeed, and of no other.
LEMMA VerdictHonest ==
    ASSUME NEW seen \in Answers, NEW n
    PROVE  /\ FirstVerdict(seen) \in Status
           /\ FirstVerdict(seen) = "debited" <=> seen = "ok"
           /\ RetryVerdict(seen, n) \in Status
           /\ RetryVerdict(seen, n) = "debited" => seen = "ok"
BY DEF FirstVerdict, RetryVerdict, Status, Open, Settled, Answers

\* A row is named by its request and its kind.
LEMMA ItemIsPair ==
    ASSUME NEW i \in Items
    PROVE  /\ i[1] \in Served
           /\ i[2] \in Kinds
           /\ i = <<i[1], i[2]>>
BY DEF Items

\* A request and a kind name a row.
LEMMA PairIsItem ==
    ASSUME NEW r \in Served, NEW k \in Kinds
    PROVE  <<r, k>> \in Items /\ <<r, k>>[1] = r
BY DEF Items

\* The types the argument needs hold throughout.
THEOREM TypedAlways == LedgerSpec => []Typed
<1> USE UsageDebitAssumption DEF Typed, Kinds, Status, Open, Settled
<1>1. LedgerInit => Typed
  BY DEF LedgerInit, NoMark
<1>2. Typed /\ [LedgerNext]_ledgerVars => Typed'
  <2> SUFFICES ASSUME Typed, [LedgerNext]_ledgerVars PROVE Typed'
    OBVIOUS
  <2> USE DEF session, ledger, debit, worker
  <2>1. ASSUME NEW r \in Served, RecordUsage(r) PROVE Typed'
    BY <2>1 DEF RecordUsage
  <2>2. ASSUME NEW r \in Served, AccrueFee(r) PROVE Typed'
    <3>1. Saved(row, r) \in [Items -> Status] /\ Emptied(r) \in [Items -> Status]
      BY DEF Saved, Emptied
    <3>2. QED
      BY <2>2, <3>1 DEF AccrueFee
  <2>3. ASSUME NEW r \in Served, WriterCommits(r) PROVE Typed'
    <3>1. Saved(row, r) \in [Items -> Status] /\ Emptied(r) \in [Items -> Status]
      BY DEF Saved, Emptied
    <3>2. QED
      BY <2>3, <3>1 DEF WriterCommits
  <2>4. ASSUME NEW r \in Served, WriterAborts(r) PROVE Typed'
    <3>1. Emptied(r) \in [Items -> Status]
      BY DEF Emptied
    <3>2. QED
      BY <2>4, <3>1 DEF WriterAborts
  <2>5. ASSUME NEW r \in Served, FirstDebit(r) PROVE Typed'
    <3>1. \A o \in DebitOutcomes(r) : o.taken \in BOOLEAN /\ o.seen \in Answers
      BY DEF DebitOutcomes
    <3>2. \A seen \in Answers : FirstVerdict(seen) \in Status
      BY VerdictHonest
    <3>3. CASE verdict' = [verdict EXCEPT ![r] = "not_applicable"] /\ UNCHANGED applied
      BY <2>5, <3>3 DEF FirstDebit
    <3>4. ASSUME NEW o \in DebitOutcomes(r),
                 applied' = [applied EXCEPT ![r] = o.taken],
                 verdict' = [verdict EXCEPT ![r] = FirstVerdict(o.seen)]
          PROVE  Typed'
      <4>1. o.taken \in BOOLEAN /\ FirstVerdict(o.seen) \in Status
        BY <3>1, <3>2
      <4>2. applied' \in [Served -> BOOLEAN]
        BY <3>4, <4>1
      <4>3. verdict' \in [Served -> Status]
        BY <3>4, <4>1
      <4>4. QED
        BY <2>5, <4>2, <4>3 DEF FirstDebit
    <3>5. \/ verdict' = [verdict EXCEPT ![r] = "not_applicable"] /\ UNCHANGED applied
          \/ \E o \in DebitOutcomes(r) :
                /\ applied' = [applied EXCEPT ![r] = o.taken]
                /\ verdict' = [verdict EXCEPT ![r] = FirstVerdict(o.seen)]
      BY <2>5, Zenon DEF FirstDebit
    <3> HIDE DEF Typed
    <3>6. QED
      BY <3>3, <3>4, <3>5, Zenon
  <2>6. ASSUME NEW r \in Served, MarkOwnRow(r) PROVE Typed'
    BY <2>6 DEF MarkOwnRow
  <2>7. ASSUME NEW r \in Served, FindRow(r) PROVE Typed'
    <3>1. CASE RowsOfTrace(r) = {}
      BY <2>7, <3>1 DEF FindRow
    <3>2. CASE RowsOfTrace(r) # {}
      <4>1. PICK k \in RowsOfTrace(r) : /\ biller' = [biller EXCEPT ![r] = "found"]
                                        /\ target' = [target EXCEPT ![r] = k]
        BY <2>7, <3>2 DEF FindRow
      <4>2. k \in Kinds
        BY DEF RowsOfTrace
      <4>3. target' \in [Served -> Kinds \union {"none"}]
        BY <4>1, <4>2
      <4>4. \A q \in Served : biller'[q] = "found" => target'[q] \in Kinds
        BY <4>1, <4>2
      <4>5. QED
        BY <2>7, <4>1, <4>3, <4>4 DEF FindRow
    <3>3. QED
      BY <3>1, <3>2
  <2>8. ASSUME NEW r \in Served, MarkFoundRow(r) PROVE Typed'
    BY <2>8 DEF MarkFoundRow
  <2>9. ASSUME NEW r \in Served, BillerAborts(r) PROVE Typed'
    BY <2>9 DEF BillerAborts
  <2>10. CASE WorkerSelects
    BY <2>10 DEF WorkerSelects, OpenRows
  <2>11. ASSUME NEW i \in Items, WorkerRetries(i) PROVE Typed'
    <3>1. i[1] \in Served
      BY ItemIsPair
    <3>2. NextAttempt(i) \in Nat /\ attempts[i] \in Nat
      BY DEF NextAttempt
    <3>3. \A o \in DebitOutcomes(i[1]) :
             o.taken \in BOOLEAN /\ RetryVerdict(o.seen, NextAttempt(i)) \in Status
      BY VerdictHonest DEF DebitOutcomes
    <3>4. ASSUME NEW k \in RowsOfTrace(i[1]), UNCHANGED applied,
                 marks' = [marks EXCEPT ![<<i[1], k>>] =
                       [status |-> "not_applicable", attempts |-> attempts[i]]]
          PROVE  Typed'
      <4>1. marks' \in [Items -> [status : Status, attempts : Nat]]
        BY <3>2, <3>4
      <4>2. QED
        BY <2>11, <3>4, <4>1 DEF WorkerRetries
    <3>5. ASSUME NEW k \in RowsOfTrace(i[1]), NEW o \in DebitOutcomes(i[1]),
                 applied' = [applied EXCEPT ![i[1]] = o.taken],
                 marks' = [marks EXCEPT ![<<i[1], k>>] =
                       [status |-> RetryVerdict(o.seen, NextAttempt(i)),
                        attempts |-> NextAttempt(i)]]
          PROVE  Typed'
      <4> DEFINE v == RetryVerdict(o.seen, NextAttempt(i))
      <4>1. v \in Status /\ o.taken \in BOOLEAN
        BY <3>3
      <4>2. applied' \in [Served -> BOOLEAN]
        BY <3>5, <4>1
      <4>3. marks' \in [Items -> [status : Status, attempts : Nat]]
        <5> HIDE DEF v
        <5>1. marks' = [marks EXCEPT ![<<i[1], k>>] =
                          [status |-> v, attempts |-> NextAttempt(i)]]
          BY <3>5 DEF v
        <5>2. QED
          BY <3>2, <4>1, <5>1
      <4>4. QED
        BY <2>11, <4>2, <4>3 DEF WorkerRetries
    <3>6. QED
      BY <2>11, <3>4, <3>5 DEF WorkerRetries
  <2>12. CASE WorkerCommits
    BY <2>12 DEF WorkerCommits, NoMark
  <2>13. CASE WorkerAborts
    BY <2>13 DEF WorkerAborts, NoMark
  <2>14. CASE UNCHANGED ledgerVars
    BY <2>14 DEF ledgerVars
  <2>15. QED
    BY <2>1, <2>2, <2>3, <2>4, <2>5, <2>6, <2>7, <2>8, <2>9, <2>10, <2>11,
       <2>12, <2>13, <2>14 DEF LedgerNext, Writer, Biller
<1>3. QED
  BY <1>1, <1>2, PTL DEF LedgerSpec

\* A row that says "debited" is a row whose money was taken, through lost
\* answers, retries, deaths, and outcomes marked on the wrong row of a trace.
THEOREM DebitedIsCharged == LedgerSpec => []DebitedMeansCharged
<1>1. LedgerInit => Honest
  BY PairIsItem DEF LedgerInit, Honest, NoMark
<1>2. Typed /\ Honest /\ [LedgerNext]_ledgerVars => Honest'
  <2> SUFFICES ASSUME Typed, Honest, [LedgerNext]_ledgerVars PROVE Honest'
    OBVIOUS
  <2> USE DEF session, ledger, debit, worker
  <2>1. ASSUME NEW r \in Served, RecordUsage(r) PROVE Honest'
    <3>1. UNCHANGED <<verdict, applied, marks, row>>
      BY <2>1 DEF RecordUsage
    <3>2. \A i \in Items : unsaved'[i] = unsaved[i] \/ unsaved'[i] # "debited"
      BY <2>1 DEF RecordUsage, Typed
    <3>3. QED
      BY <3>1, <3>2, PairIsItem DEF Honest
  <2>2. ASSUME NEW r \in Served,
               unsaved' = unsaved \/ unsaved' = Emptied(r),
               \A i \in Items : row'[i] \in {row[i], Saved(row, r)[i]},
               UNCHANGED <<verdict, applied, marks>>
        PROVE  Honest'
    <3>1. \A q \in Served, k \in Kinds :
             Emptied(r)[<<q, k>>] \in {"none", unsaved[<<q, k>>]}
      BY PairIsItem DEF Emptied
    <3>2. \A q \in Served, k \in Kinds :
             Saved(row, r)[<<q, k>>] \in {row[<<q, k>>], unsaved[<<q, k>>]}
      BY PairIsItem DEF Saved
    <3>3. QED
      BY <2>2, <3>1, <3>2, PairIsItem DEF Honest
  <2>3. ASSUME NEW r \in Served, Writer(r) \/ WriterAborts(r) PROVE Honest'
    <3>1. CASE RecordUsage(r)
      BY <2>1, <3>1
    <3>2. CASE AccrueFee(r)
      BY <2>2, <3>2 DEF AccrueFee
    <3>3. CASE WriterCommits(r)
      <4>1. \A i \in Items : row'[i] \in {row[i], Saved(row, r)[i]}
        BY <3>3 DEF WriterCommits, Saved
      <4>2. QED
        BY <2>2, <3>3, <4>1 DEF WriterCommits
    <3>4. CASE WriterAborts(r)
      BY <2>2, <3>4 DEF WriterAborts
    <3>5. QED
      BY <2>3, <3>1, <3>2, <3>3, <3>4 DEF Writer
  <2>4. ASSUME NEW r \in Served, FirstDebit(r) PROVE Honest'
    <3>1. UNCHANGED <<unsaved, row, marks>>
      BY <2>4 DEF FirstDebit
    <3>2. ASSUME NEW o \in DebitOutcomes(r),
                 applied' = [applied EXCEPT ![r] = o.taken],
                 verdict' = [verdict EXCEPT ![r] = FirstVerdict(o.seen)]
          PROVE  Honest'
      <4>1. \A q \in Served : applied[q] => applied'[q]
        BY <3>2, OutcomeHonest DEF Typed
      <4>2. FirstVerdict(o.seen) = "debited" => o.taken
        BY OutcomeHonest, VerdictHonest DEF Typed
      <4>3. \A q \in Served : verdict'[q] = "debited" => applied'[q]
        BY <3>2, <4>1, <4>2 DEF Honest, Typed
      <4>4. QED
        BY <3>1, <4>1, <4>3 DEF Honest
    <3>3. CASE verdict' = [verdict EXCEPT ![r] = "not_applicable"] /\ UNCHANGED applied
      BY <3>1, <3>3 DEF Honest, Typed
    <3>4. QED
      BY <2>4, <3>2, <3>3, Zenon DEF FirstDebit
  <2>5. ASSUME NEW r \in Served, MarkOwnRow(r) PROVE Honest'
    BY <2>5, PairIsItem DEF MarkOwnRow, Honest, Typed, Kinds
  <2>6. ASSUME NEW r \in Served, FindRow(r) PROVE Honest'
    BY <2>6 DEF FindRow, Honest
  <2>7. ASSUME NEW r \in Served, MarkFoundRow(r) PROVE Honest'
    <3>1. target[r] \in Kinds
      BY <2>7 DEF MarkFoundRow, Typed
    <3>2. \A q \in Served, k \in Kinds :
             row'[<<q, k>>] = row[<<q, k>>] \/ (q = r /\ row'[<<q, k>>] = verdict[r])
      BY <2>7, <3>1, PairIsItem DEF MarkFoundRow, Typed
    <3>3. UNCHANGED <<unsaved, verdict, applied, marks>>
      BY <2>7 DEF MarkFoundRow
    <3>4. QED
      BY <3>2, <3>3 DEF Honest
  <2>8. ASSUME NEW r \in Served, BillerAborts(r) PROVE Honest'
    BY <2>8 DEF BillerAborts, Honest
  <2>9. CASE WorkerSelects
    BY <2>9 DEF WorkerSelects, Honest
  <2>10. ASSUME NEW i \in Items, WorkerRetries(i) PROVE Honest'
    <3>1. i[1] \in Served
      BY ItemIsPair
    <3>2. UNCHANGED <<unsaved, row, verdict>>
      BY <2>10 DEF WorkerRetries
    <3>3. ASSUME NEW k \in RowsOfTrace(i[1]), UNCHANGED applied,
                 marks' = [marks EXCEPT ![<<i[1], k>>] =
                       [status |-> "not_applicable", attempts |-> attempts[i]]]
          PROVE  Honest'
      <4>1. \A q \in Served, l \in Kinds :
               marks'[<<q, l>>].status \in {marks[<<q, l>>].status, "not_applicable"}
        BY <3>3, PairIsItem DEF Typed
      <4>2. QED
        BY <3>2, <3>3, <4>1 DEF Honest
    <3>4. ASSUME NEW k \in RowsOfTrace(i[1]), NEW o \in DebitOutcomes(i[1]),
                 applied' = [applied EXCEPT ![i[1]] = o.taken],
                 marks' = [marks EXCEPT ![<<i[1], k>>] =
                       [status |-> RetryVerdict(o.seen, NextAttempt(i)),
                        attempts |-> NextAttempt(i)]]
          PROVE  Honest'
      <4> DEFINE v == RetryVerdict(o.seen, NextAttempt(i))
      <4>1. \A q \in Served : applied[q] => applied'[q]
        BY <3>1, <3>4, OutcomeHonest DEF Typed
      <4>2. v = "debited" => o.taken
        BY <3>1, OutcomeHonest, VerdictHonest DEF Typed
      <4>3. o.taken => applied'[i[1]]
        BY <3>1, <3>4 DEF Typed
      <4>4. \A q \in Served, l \in Kinds :
               \/ marks'[<<q, l>>] = marks[<<q, l>>]
               \/ q = i[1] /\ marks'[<<q, l>>].status = v
        <5> HIDE DEF v
        <5>1. marks' = [marks EXCEPT ![<<i[1], k>>] =
                          [status |-> v, attempts |-> NextAttempt(i)]]
          BY <3>4 DEF v
        <5>2. k \in Kinds
          BY DEF RowsOfTrace
        <5>3. QED
          BY <3>1, <5>1, <5>2, PairIsItem DEF Typed
      <4>5. QED
        BY <3>2, <4>1, <4>2, <4>3, <4>4 DEF Honest
    <3>5. QED
      BY <2>10, <3>3, <3>4, Zenon DEF WorkerRetries
  <2>11. CASE WorkerCommits
    <3>1. \A i \in Items : row'[i] \in {row[i], marks[i].status}
      BY <2>11 DEF WorkerCommits
    <3>2. \A i \in Items : marks'[i].status = "none"
      BY <2>11 DEF WorkerCommits, NoMark
    <3>3. UNCHANGED <<unsaved, verdict, applied>>
      BY <2>11 DEF WorkerCommits
    <3>4. QED
      BY <3>1, <3>2, <3>3, PairIsItem DEF Honest
  <2>12. CASE WorkerAborts
    BY <2>12, PairIsItem DEF WorkerAborts, Honest, NoMark
  <2>13. CASE UNCHANGED ledgerVars
    BY <2>13 DEF ledgerVars, Honest
  <2>14. QED
    BY <2>3, <2>4, <2>5, <2>6, <2>7, <2>8, <2>9, <2>10, <2>11, <2>12, <2>13
    DEF LedgerNext, Biller
<1>3. Honest => DebitedMeansCharged
  BY ItemIsPair DEF Honest, DebitedMeansCharged
<1>4. QED
  BY <1>1, <1>2, <1>3, TypedAlways, PTL DEF LedgerSpec
=============================================================================
