--------------------------- MODULE KeyAccessProofs ---------------------------
(***************************************************************************)
(* A revoked key stays revoked, proved for every set of keys, callers and   *)
(* administrators, and however many edits, faults and findings there are.   *)
(***************************************************************************)
EXTENDS KeyAccess, TLAPS

Rows == [minted : BOOLEAN, active : BOOLEAN, revoked : BOOLEAN, policy : Nat]

\* Records with the fields of NoTxn and of Idle, whatever their values.
TxnLike(t) == t \in [pc : {t.pc}, op : {t.op}, on : {t.on}, seen : {t.seen},
                     left : {t.left}, dirty : {t.dirty}, noted : {t.noted}]
ReqLike(x) == x \in [pc : {x.pc}, key : {x.key}, policy : {x.policy},
                     captures : {x.captures}]

Shaped ==
    /\ row \in [Keys -> Rows] /\ edits \in Nat
    /\ auth = [k \in Keys |-> auth[k]]
    /\ req = [r \in Requests |-> req[r]] /\ \A r \in Requests : ReqLike(req[r])
    /\ txn = [a \in Actors |-> txn[a]] /\ \A a \in Actors : TxnLike(txn[a])

\* Only a suspension and its end write the account's row.
OnAccount == \A a \in Actors : txn[a].op \in {"suspend", "lift"} => txn[a].on = Account

(***************************************************************************)
(* Why a revocation cannot be undone although every operation writes a row  *)
(* it read some time ago: nobody else writes a row that an open transaction *)
(* has written, so what that transaction is about to commit was made of the *)
(* row as it still is.                                                      *)
(***************************************************************************)
Locking ==
    \A a, b \in Actors :
        a # b => DOMAIN txn[a].dirty \cap DOMAIN txn[b].dirty = {}

Kept(old, new) == new \in Rows /\ (old.revoked => new.revoked)

Faithful ==
    \A a \in Actors : \A k \in Keys \cap DOMAIN txn[a].dirty :
        Kept(row[k], txn[a].dirty[k])

KeyInv == Shaped /\ OnAccount /\ Locking /\ Faithful

\* What the detector turns to is a finding it has not noted, and the account is
\* what it suspends.
LEMMA AheadIs ==
  ASSUME NEW a \in Actors, NEW noted, TxnLike(txn[a]), OnAccount
  PROVE  /\ TxnLike(Ahead(a, noted)) /\ Ahead(a, noted).dirty = txn[a].dirty
         /\ Ahead(a, noted).op \in {"suspend", "lift"} => Ahead(a, noted).on = Account
<1>1. CASE a \in Admins \/ Todo(noted) = {}
  BY <1>1 DEF Ahead, TxnLike, OnAccount
<1>2. CASE ~(a \in Admins \/ Todo(noted) = {})
  <2> DEFINE f == First(Todo(noted))
  <2>1. Ahead(a, noted) = [txn[a] EXCEPT !.pc = "look", !.on = f, !.noted = noted,
                             !.op = IF f = Account THEN "suspend" ELSE "revoke"]
    BY <1>2 DEF Ahead
  <2> HIDE DEF f
  <2>2. QED
    BY <2>1 DEF TxnLike
<1>3. QED
  BY <1>1, <1>2

\* Every operation leaves a revoked row revoked.
LEMMA WrittenKeeps ==
  ASSUME Shaped, OnAccount, NEW a \in Actors, txn[a].on \in Keys
  PROVE  Kept(row[txn[a].on], Written(txn[a]))
<1> DEFINE t == txn[a]  x == row[txn[a].on]
<1>1. t.op \notin {"suspend", "lift"} /\ x \in Rows
  BY KeyAccessAssumption DEF OnAccount, Shaped
<1>2. edits \in Nat
  BY DEF Shaped
<1>3. Written(t) \in {Minting(x), Revoking(x), Updating(x, t)}
  BY <1>1 DEF Written
<1>4. Updating(x, t) \in {[x EXCEPT !.active = FALSE], [x EXCEPT !.active = TRUE],
                          [x EXCEPT !.policy = edits], x}
  BY DEF Updating
<1> HIDE DEF t, x
<1>5. \A y \in {Minting(x), Revoking(x), [x EXCEPT !.active = FALSE],
               [x EXCEPT !.active = TRUE], [x EXCEPT !.policy = edits], x} : Kept(x, y)
  BY <1>1, <1>2 DEF Kept, Rows, Minting, Revoking
<1>6. QED
  BY <1>3, <1>4, <1>5 DEF t, x

\* A transaction that has ended has written nothing.
LEMMA NoTxnIs == TxnLike(NoTxn) /\ NoTxn.op = "none" /\ DOMAIN NoTxn.dirty = {}
BY DEF NoTxn, TxnLike

\* Rows that nobody writes stay faithful when transactions only end.
LEMMA QuietStep ==
  ASSUME Locking, Faithful, row' = row,
         \A a \in Actors : txn'[a].dirty = txn[a].dirty \/ DOMAIN txn'[a].dirty = {}
  PROVE  Locking' /\ Faithful'
<1>1. Locking'
  BY DEF Locking
<1>2. Faithful'
  <2> SUFFICES ASSUME NEW a \in Actors, NEW k \in Keys \cap DOMAIN txn'[a].dirty
               PROVE  Kept(row'[k], txn'[a].dirty[k])
    BY DEF Faithful
  <2>1. txn'[a].dirty = txn[a].dirty
    OBVIOUS
  <2>2. QED
    BY <2>1 DEF Faithful
<1>3. QED
  BY <1>1, <1>2

\* The invariant, which holds of every behaviour.
LEMMA KeyInvAlways == Spec => []KeyInv
<1>1. Init => KeyInv
  <2> SUFFICES ASSUME Init PROVE KeyInv
    OBVIOUS
  <2>1. \A a \in Actors : txn[a] = NoTxn
    BY DEF Init
  <2>2. row \in [Keys -> Rows] /\ edits \in Nat /\ auth = [k \in Keys |-> auth[k]]
    BY DEF Init, Rows
  <2>3. req = [r \in Requests |-> req[r]] /\ \A r \in Requests : ReqLike(req[r])
    BY DEF Init, ReqLike, Idle
  <2>4. txn = [a \in Actors |-> txn[a]]
    BY DEF Init
  <2>5. QED
    BY <2>1, <2>2, <2>3, <2>4, NoTxnIs DEF KeyInv, Shaped, OnAccount, Locking, Faithful
<1>2. KeyInv /\ [Next]_vars => KeyInv'
  <2> SUFFICES ASSUME KeyInv, [Next]_vars PROVE KeyInv'
    OBVIOUS
  <2> USE DEF KeyInv, db, cache, bound
  <2>1. ASSUME NEW r \in Requests, (\E k \in Keys : Ask(r, k)) \/ Validate(r)
        PROVE  KeyInv'
    <3>1. UNCHANGED <<row, edits, txn>>
      BY <2>1 DEF Ask, Validate, GetCachedKey, CacheGetFails, SelectKey, ActiveSuspension,
                  CacheKey, GetHold, HoldReason, KeepHold
    <3>2. auth' = [k \in Keys |-> auth'[k]]
      BY <2>1 DEF Shaped, Ask, Validate, GetCachedKey, CacheGetFails, SelectKey,
                  ActiveSuspension, CacheKey, GetHold, HoldReason, KeepHold
    <3>3. ReqLike(req[r]) /\ ReqLike(Idle)
      BY DEF Shaped, ReqLike, Idle
    <3>4. req' = [q \in Requests |-> req'[q]] /\ \A q \in Requests : ReqLike(req'[q])
      <4>1. ASSUME NEW x, ReqLike(x), req' = [req EXCEPT ![r] = x]
            PROVE  req' = [q \in Requests |-> req'[q]] /\ \A q \in Requests : ReqLike(req'[q])
        BY <4>1 DEF Shaped
      <4>2. ASSUME NEW pc, req' = [req EXCEPT ![r].pc = pc]
            PROVE  req' = [q \in Requests |-> req'[q]] /\ \A q \in Requests : ReqLike(req'[q])
        <5> DEFINE x == [req[r] EXCEPT !.pc = pc]
        <5>1. ReqLike(x) /\ req' = [req EXCEPT ![r] = x]
          BY <3>3, <4>2 DEF ReqLike
        <5> HIDE DEF x
        <5>2. QED
          BY <4>1, <5>1
      <4>3. CASE \E k \in Keys : Ask(r, k)
        <5>1. PICK k \in Keys : Ask(r, k)
          BY <4>3
        <5> DEFINE x == [Idle EXCEPT !.pc = "cached", !.key = k]
        <5>2. ReqLike(x) /\ req' = [req EXCEPT ![r] = x]
          BY <5>1, <3>3 DEF Ask, ReqLike, Idle
        <5> HIDE DEF x
        <5>3. QED
          BY <4>1, <5>2
      <4>4. CASE GetCachedKey(r)
        <5> DEFINE x == [req[r] EXCEPT !.pc = "hold", !.policy = auth[req[r].key],
                                       !.captures = Captures(FALSE)]
        <5>1. ReqLike(x)
          BY <3>3 DEF ReqLike
        <5>2. \/ req' = [req EXCEPT ![r].pc = "select"]
              \/ req' = [req EXCEPT ![r] = Idle]
              \/ req' = [req EXCEPT ![r] = x]
          BY <3>3, <4>4 DEF GetCachedKey, GoTo, Refuse, Shaped, ReqLike
        <5> HIDE DEF x
        <5>3. QED
          BY <3>3, <4>1, <4>2, <5>1, <5>2
      <4>5. CASE SelectKey(r)
        <5> DEFINE x == [req[r] EXCEPT !.pc = "suspension", !.policy = row[req[r].key].policy,
                                       !.captures = Captures(req[r].key \in Off)]
        <5>1. ReqLike(x)
          BY <3>3 DEF ReqLike
        <5>2. req' = [req EXCEPT ![r] = Idle] \/ req' = [req EXCEPT ![r] = x]
          BY <3>3, <4>5 DEF SelectKey, Refuse, Shaped, ReqLike
        <5> HIDE DEF x
        <5>3. QED
          BY <3>3, <4>1, <5>1, <5>2
      <4>6. ASSUME Validate(r), ~GetCachedKey(r), ~SelectKey(r)
            PROVE  req' = [req EXCEPT ![r] = Idle] \/ \E pc : req' = [req EXCEPT ![r].pc = pc]
        BY <4>6, Zenon DEF Validate, CacheGetFails, ActiveSuspension, CacheKey, GetHold,
                           HoldReason, KeepHold, GoTo, Refuse, Admit
      <4>7. QED
        BY <2>1, <3>3, <4>1, <4>2, <4>3, <4>4, <4>5, <4>6
    <3>5. QED
      BY <3>1, <3>2, <3>4, QuietStep DEF Shaped, OnAccount
  <2>2. ASSUME NEW a \in Actors, Call(a) \/ Tick(a) \/ Transact(a) \/ Abort(a)
        PROVE  KeyInv'
    <3> TxnLike(txn[a])
      BY DEF Shaped
    <3>1. req' = req
      <4>1. CASE Call(a)
        BY <4>1 DEF Call, CreateKey, RevokeKey, UpdateKey, SuspendUser, LiftSuspension, Begin
      <4>2. CASE Tick(a) \/ Abort(a)
        BY <4>2 DEF Tick, Abort
      <4>3. CASE Transact(a)
        BY <4>3 DEF Transact, Look, Write, Purge, Purged, Notify, Commit
      <4>4. QED
        BY <2>2, <4>1, <4>2, <4>3
    <3>2. edits' \in Nat /\ auth' = [k \in Keys |-> auth'[k]]
      <4>1. edits' = edits \/ edits' = edits + 1
        BY <2>2 DEF Call, CreateKey, RevokeKey, UpdateKey, SuspendUser, LiftSuspension, Begin,
                    Tick, Abort, Transact, Look, Write, Purge, Purged, Notify, Commit
      <4>2. auth' = auth \/ \E k \in Keys : auth' = [auth EXCEPT ![k] = NoKey]
        BY <2>2 DEF Call, CreateKey, RevokeKey, UpdateKey, SuspendUser, LiftSuspension, Begin,
                    Tick, Abort, Transact, Look, Write, Purge, Purged, Notify, Commit
      <4>3. QED
        BY <4>1, <4>2 DEF Shaped
    <3>3. ASSUME NEW t, TxnLike(t), txn' = [txn EXCEPT ![a] = t], row' \in [Keys -> Rows],
                 t.op \in {"suspend", "lift"} => t.on = Account
          PROVE  Shaped' /\ OnAccount'
      BY <3>1, <3>2, <3>3 DEF Shaped, OnAccount
    <3>4. ASSUME NEW t, TxnLike(t), txn' = [txn EXCEPT ![a] = t], row' = row,
                 t.op \in {"suspend", "lift"} => t.on = Account,
                 t.dirty = txn[a].dirty \/ DOMAIN t.dirty = {}
          PROVE  KeyInv'
      <4>1. \A b \in Actors : txn'[b].dirty = txn[b].dirty \/ DOMAIN txn'[b].dirty = {}
        BY <3>4 DEF Shaped
      <4>2. row' \in [Keys -> Rows]
        BY <3>4 DEF Shaped
      <4>3. QED
        BY <3>3, <3>4, <4>1, <4>2, QuietStep
    <3>5. CASE Call(a)
      <4>1. PICK op, on : /\ Begin(a, op, on)
                          /\ op \in {"suspend", "lift"} => on = Account
        BY <3>5 DEF Call, CreateKey, RevokeKey, UpdateKey, SuspendUser, LiftSuspension
      <4> DEFINE t == [NoTxn EXCEPT !.pc = "look", !.op = op, !.on = on]
      <4>2. TxnLike(t) /\ t.op = op /\ t.on = on /\ t.dirty = NoTxn.dirty
        BY NoTxnIs DEF TxnLike
      <4>3. txn' = [txn EXCEPT ![a] = t] /\ row' = row
        BY <4>1 DEF Begin
      <4> HIDE DEF t
      <4>4. QED
        BY <3>4, <4>1, <4>2, <4>3, NoTxnIs
    <3>6. CASE Tick(a)
      <4> DEFINE t == [Ahead(a, {}) EXCEPT !.dirty = << >>, !.left = {}]
      <4>1. txn' = [txn EXCEPT ![a] = t] /\ row' = row
        BY <3>6 DEF Tick
      <4>2. /\ TxnLike(Ahead(a, {}))
            /\ Ahead(a, {}).op \in {"suspend", "lift"} => Ahead(a, {}).on = Account
        BY AheadIs
      <4>3. TxnLike(t) /\ t.op = Ahead(a, {}).op /\ t.on = Ahead(a, {}).on /\ t.dirty = << >>
        BY <4>2 DEF TxnLike
      <4> HIDE DEF t
      <4>4. DOMAIN t.dirty = {}
        BY <4>3
      <4>5. QED
        BY <3>4, <4>1, <4>2, <4>3, <4>4
    <3>7. CASE Abort(a)
      <4>1. txn' = [txn EXCEPT ![a] = NoTxn] /\ row' = row
        BY <3>7 DEF Abort
      <4>2. QED
        BY <3>4, <4>1, NoTxnIs
    <3>8. CASE Look(a)
      <4>1. row' = row
        BY <3>8 DEF Look
      <4>2. CASE txn' = [txn EXCEPT ![a] = NoTxn]
        BY <3>4, <4>1, <4>2, NoTxnIs
      <4>3. CASE \E noted : txn' = [txn EXCEPT ![a] = Ahead(a, noted)]
        BY <3>4, <4>1, <4>3, AheadIs
      <4>4. ASSUME NEW seen, txn' = [txn EXCEPT ![a].pc = "write", ![a].seen = seen]
            PROVE  KeyInv'
        <5> DEFINE t == [txn[a] EXCEPT !.pc = "write", !.seen = seen]
        <5>1. TxnLike(t) /\ t.op = txn[a].op /\ t.on = txn[a].on /\ t.dirty = txn[a].dirty
          BY DEF TxnLike
        <5>2. txn' = [txn EXCEPT ![a] = t]
          BY <4>4 DEF Shaped, TxnLike
        <5> HIDE DEF t
        <5>3. QED
          BY <3>4, <4>1, <5>1, <5>2 DEF OnAccount
      <4>5. QED
        BY <3>8, <4>2, <4>3, <4>4 DEF Look
    <3>9. CASE Write(a)
      <4>1. CASE txn' = [txn EXCEPT ![a] = NoTxn]
        BY <3>4, <3>9, <4>1, NoTxnIs DEF Write
      <4>2. CASE txn' # [txn EXCEPT ![a] = NoTxn]
        <5> DEFINE d == [x \in DOMAIN txn[a].dirty \cup {txn[a].on} |->
                           IF x = txn[a].on THEN Written(txn[a]) ELSE txn[a].dirty[x]]
                   t == [txn[a] EXCEPT !.pc = "purge", !.left = Purges(txn[a]),
                                       !.dirty = d, !.seen = "none"]
        <5>1. row' = row /\ ~Locked(a, txn[a].on) /\ txn' = [txn EXCEPT ![a] = t]
          BY <3>9, <4>2 DEF Write, Shaped, TxnLike
        <5>2. TxnLike(t) /\ t.op = txn[a].op /\ t.on = txn[a].on /\ t.dirty = d
          BY DEF TxnLike
        <5>3. DOMAIN d = DOMAIN txn[a].dirty \cup {txn[a].on}
          OBVIOUS
        <5>4. \A k \in Keys \cap DOMAIN d : Kept(row[k], d[k])
          BY WrittenKeeps DEF Faithful
        <5> HIDE DEF t, d
        <5>5. row' \in [Keys -> Rows]
          BY <5>1 DEF Shaped
        <5>6. Shaped' /\ OnAccount'
          BY <3>3, <5>1, <5>2, <5>5 DEF OnAccount
        <5>7. \A b \in Actors : txn'[b].dirty = IF b = a THEN d ELSE txn[b].dirty
          BY <5>1, <5>2 DEF Shaped
        <5>8. Locking'
          BY <5>1, <5>3, <5>7 DEF Locking, Locked
        <5>9. Faithful'
          <6> SUFFICES ASSUME NEW b \in Actors, NEW k \in Keys \cap DOMAIN txn'[b].dirty
                       PROVE  Kept(row'[k], txn'[b].dirty[k])
            BY DEF Faithful
          <6>1. CASE b = a
            BY <5>1, <5>4, <5>7, <6>1
          <6>2. CASE b # a
            BY <5>1, <5>7, <6>2 DEF Faithful
          <6>3. QED
            BY <6>1, <6>2
        <5>10. QED
          BY <5>6, <5>8, <5>9
      <4>3. QED
        BY <4>1, <4>2
    <3>10. CASE Purged(a) \/ Notify(a) \/ \E k \in Keys : Purge(a, k)
      <4>1. row' = row
        BY <3>10 DEF Purged, Notify, Purge
      <4>2. CASE \E noted : txn' = [txn EXCEPT ![a] = Ahead(a, noted)]
        BY <3>4, <4>1, <4>2, AheadIs
      <4>3. CASE \E pc : txn' = [txn EXCEPT ![a].pc = pc]
        <5>1. PICK pc : txn' = [txn EXCEPT ![a].pc = pc]
          BY <4>3
        <5> DEFINE t == [txn[a] EXCEPT !.pc = pc]
        <5>2. TxnLike(t) /\ t.op = txn[a].op /\ t.on = txn[a].on /\ t.dirty = txn[a].dirty
          BY DEF TxnLike
        <5>3. txn' = [txn EXCEPT ![a] = t]
          BY <5>1 DEF Shaped, TxnLike
        <5> HIDE DEF t
        <5>4. QED
          BY <3>4, <4>1, <5>2, <5>3 DEF OnAccount
      <4>4. CASE \E left : txn' = [txn EXCEPT ![a].left = left]
        <5>1. PICK left : txn' = [txn EXCEPT ![a].left = left]
          BY <4>4
        <5> DEFINE t == [txn[a] EXCEPT !.left = left]
        <5>2. TxnLike(t) /\ t.op = txn[a].op /\ t.on = txn[a].on /\ t.dirty = txn[a].dirty
          BY DEF TxnLike
        <5>3. txn' = [txn EXCEPT ![a] = t]
          BY <5>1 DEF Shaped, TxnLike
        <5> HIDE DEF t
        <5>4. QED
          BY <3>4, <4>1, <5>2, <5>3 DEF OnAccount
      <4>5. QED
        BY <3>10, <4>2, <4>3, <4>4 DEF Purged, Notify, Purge
    <3>11. CASE Commit(a)
      <4>1. txn' = [txn EXCEPT ![a] = NoTxn]
        BY <3>11 DEF Commit
      <4>2. row' = [k \in Keys |-> IF k \in DOMAIN txn[a].dirty THEN txn[a].dirty[k]
                                   ELSE row[k]]
        BY <3>11 DEF Commit
      <4>3. row' \in [Keys -> Rows]
        BY <4>2 DEF Faithful, Kept, Shaped
      <4>4. \A b \in Actors : txn'[b] = IF b = a THEN NoTxn ELSE txn[b]
        BY <4>1 DEF Shaped
      <4>5. Shaped' /\ OnAccount'
        BY <3>3, <4>1, <4>3, NoTxnIs
      <4>6. Locking'
        BY <4>4, NoTxnIs DEF Locking
      <4>7. Faithful'
        <5> SUFFICES ASSUME NEW b \in Actors, NEW k \in Keys \cap DOMAIN txn'[b].dirty
                     PROVE  Kept(row'[k], txn'[b].dirty[k])
          BY DEF Faithful
        <5>1. b # a /\ txn'[b] = txn[b]
          BY <4>4, NoTxnIs
        <5>2. row'[k] = row[k]
          BY <4>2, <5>1 DEF Locking
        <5>3. QED
          BY <5>1, <5>2 DEF Faithful
      <4>8. QED
        BY <4>5, <4>6, <4>7
    <3>12. QED
      BY <2>2, <3>5, <3>6, <3>7, <3>8, <3>9, <3>10, <3>11 DEF Transact
  <2>3. CASE World
    <3>1. UNCHANGED <<row, txn, req>> /\ edits' \in Nat /\ auth' = [k \in Keys |-> auth'[k]]
      BY <2>3 DEF World, Shaped, Deliver, Expire, Lapse, ExpireHold, PutHold, ReleaseHold
    <3>2. QED
      BY <3>1, QuietStep DEF Shaped, OnAccount
  <2>4. CASE UNCHANGED vars
    BY <2>4, QuietStep DEF vars, Shaped, OnAccount
  <2>5. QED
    BY <2>1, <2>2, <2>3, <2>4 DEF Next
<1>3. QED
  BY <1>1, <1>2, PTL DEF Spec

\* A revoked key that is out of the cache and of every validation in progress is
\* never cached or let in again (api/v1/keys.py:335, services/api_key.py:226).
THEOREM RevocationFinal == Spec => RevokedForGood
<1>1. KeyInv /\ KeyInv' /\ [Next]_vars => [\A k \in Keys : Gone(k) => Gone(k)']_vars
  <2> SUFFICES ASSUME KeyInv, KeyInv', Next, NEW k \in Keys, Gone(k) PROVE Gone(k)'
    OBVIOUS
  <2> USE DEF KeyInv, db, cache, bound
  <2>1. row[k].revoked
    BY DEF Gone
  <2>2. row'[k].revoked
    <3>1. CASE \E a \in Actors : Commit(a)
      <4>1. PICK a \in Actors : Commit(a)
        BY <3>1
      <4>2. QED
        BY <2>1, <4>1 DEF Commit, Faithful, Kept
    <3>2. CASE ~\E a \in Actors : Commit(a)
      <4>1. ASSUME NEW r \in Requests, (\E j \in Keys : Ask(r, j)) \/ Validate(r)
            PROVE  row' = row
        BY <4>1 DEF Ask, Validate, GetCachedKey, CacheGetFails, SelectKey, ActiveSuspension,
                    CacheKey, GetHold, HoldReason, KeepHold
      <4>2. ASSUME NEW a \in Actors, Call(a) \/ Tick(a) \/ Transact(a) \/ Abort(a)
            PROVE  row' = row
        BY <3>2, <4>2 DEF Call, CreateKey, RevokeKey, UpdateKey, SuspendUser, LiftSuspension,
           Begin, Tick, Transact, Look, Write, Purge, Purged, Notify, Abort
      <4>3. ASSUME World PROVE row' = row
        BY <4>3 DEF World, Deliver, Expire, Lapse, ExpireHold, PutHold, ReleaseHold
      <4>4. row' = row
        BY <4>1, <4>2, <4>3 DEF Next
      <4>5. QED
        BY <2>1, <4>4
    <3>3. QED
      BY <3>1, <3>2
  <2>3. ASSUME req' = req, auth' = auth \/ \E j \in Keys : auth' = [auth EXCEPT ![j] = NoKey]
        PROVE  Gone(k)'
    BY <2>2, <2>3 DEF Gone, Shaped
  <2>4. ASSUME NEW r \in Requests, (\E j \in Keys : Ask(r, j)) \/ Validate(r)
        PROVE  Gone(k)'
    <3>1. req[r].key = k => req[r].pc \in {"cached", "select"}
      BY DEF Gone
    <3>2. ASSUME NEW x, req' = [req EXCEPT ![r] = x],
                 x.key = k => x.pc \in {"cached", "select"}, auth'[k] = NoKey
          PROVE  Gone(k)'
      BY <2>2, <3>2 DEF Gone, Shaped
    <3>3. auth[k] = NoKey /\ ReqLike(req[r]) /\ ReqLike(Idle)
      BY DEF Gone, Shaped, ReqLike, Idle
    <3>4. CASE \E j \in Keys : Ask(r, j)
      <4>1. PICK j \in Keys : Ask(r, j)
        BY <3>4
      <4> DEFINE x == [Idle EXCEPT !.pc = "cached", !.key = j]
      <4>2. req' = [req EXCEPT ![r] = x] /\ auth' = auth /\ x.pc = "cached"
        BY <4>1 DEF Ask, Idle
      <4> HIDE DEF x
      <4>3. QED
        BY <3>2, <3>3, <4>2
    <3>5. ASSUME req' = [req EXCEPT ![r] = Idle], auth'[k] = NoKey
          PROVE  Gone(k)'
      <4>1. Idle.key # k
        BY KeyAccessAssumption DEF Idle
      <4>2. QED
        BY <3>2, <3>5, <4>1
    <3>6. ASSUME NEW pc, req' = [req EXCEPT ![r].pc = pc], auth'[k] = NoKey,
                 req[r].key = k => pc \in {"cached", "select"}
          PROVE  Gone(k)'
      <4> DEFINE x == [req[r] EXCEPT !.pc = pc]
      <4>1. req' = [req EXCEPT ![r] = x] /\ x.key = req[r].key /\ x.pc = pc
        BY <3>3, <3>6 DEF ReqLike
      <4> HIDE DEF x
      <4>2. QED
        BY <3>2, <3>6, <4>1
    <3>7. CASE req[r].key = k
      <4>1. CASE GetCachedKey(r)
        BY <3>3, <3>6, <3>7, <4>1 DEF GetCachedKey, GoTo
      <4>2. CASE CacheGetFails(r)
        BY <3>3, <3>6, <3>7, <4>2 DEF CacheGetFails, GoTo
      <4>3. CASE SelectKey(r)
        BY <2>1, <3>3, <3>5, <3>7, <4>3 DEF SelectKey, Usable, Refuse
      <4>4. QED
        BY <2>4, <3>1, <3>4, <3>7, <4>1, <4>2, <4>3 DEF Validate, ActiveSuspension, CacheKey,
           GetHold, HoldReason, KeepHold, At
    <3>8. CASE req[r].key # k
      <4>1. ASSUME Validate(r) PROVE auth'[k] = NoKey
        BY <3>3, <3>8, <4>1 DEF Validate, GetCachedKey, CacheGetFails, SelectKey,
           ActiveSuspension, CacheKey, GetHold, HoldReason, KeepHold, Shaped
      <4>2. ASSUME Validate(r)
            PROVE  \E x : x.key # k /\ req' = [req EXCEPT ![r] = x]
        <5>1. Idle.key # k
          BY KeyAccessAssumption DEF Idle
        <5>2. ASSUME NEW pc, req' = [req EXCEPT ![r].pc = pc]
              PROVE  \E x : x.key # k /\ req' = [req EXCEPT ![r] = x]
          <6> DEFINE x == [req[r] EXCEPT !.pc = pc]
          <6>1. x.key # k /\ req' = [req EXCEPT ![r] = x]
            BY <3>3, <3>8, <5>2 DEF ReqLike
          <6> HIDE DEF x
          <6>2. QED
            BY <6>1
        <5>3. CASE GetCachedKey(r)
          BY <3>3, <3>8, <5>1, <5>2, <5>3 DEF GetCachedKey, GoTo, Refuse, ReqLike
        <5>4. CASE SelectKey(r)
          BY <3>3, <3>8, <5>1, <5>4 DEF SelectKey, Refuse, ReqLike
        <5>5. ASSUME ~GetCachedKey(r), ~SelectKey(r)
              PROVE  req' = [req EXCEPT ![r] = Idle] \/ \E pc : req' = [req EXCEPT ![r].pc = pc]
          BY <4>2, <5>5, Zenon DEF Validate, CacheGetFails, ActiveSuspension, CacheKey,
                                   GetHold, HoldReason, KeepHold, GoTo, Refuse, Admit
        <5>6. QED
          BY <5>1, <5>2, <5>3, <5>4, <5>5
      <4>3. QED
        BY <2>4, <3>2, <3>4, <4>1, <4>2
    <3>9. QED
      BY <3>7, <3>8
  <2>5. ASSUME NEW a \in Actors, Call(a) \/ Tick(a) \/ Transact(a) \/ Abort(a)
        PROVE  Gone(k)'
    BY <2>3, <2>5 DEF Call, CreateKey, RevokeKey, UpdateKey, SuspendUser, LiftSuspension,
       Begin, Tick, Transact, Look, Write, Purge, Purged, Notify, Commit, Abort
  <2>6. CASE World
    BY <2>3, <2>6 DEF World, Deliver, Expire, Lapse, ExpireHold, PutHold, ReleaseHold
  <2>7. QED
    BY <2>4, <2>5, <2>6 DEF Next
<1>2. QED
  BY <1>1, KeyInvAlways, PTL DEF Spec, RevokedForGood

=============================================================================
