---------------------------- MODULE Connections ----------------------------
(***************************************************************************)
(* A tenant's own provider credential (services/connections.py,            *)
(* api/v1/connections.py, seams/custody.py).  The row names a secret kept  *)
(* in custody; each pod caches the row per user for a while and pools the  *)
(* clients it built from it under the row's id and version.  A request is  *)
(* served with the tenant's key when the cached row says it works, refused *)
(* when it does not and the tenant asked for no fallback, and otherwise    *)
(* served with the deployment's keys and billed.  A key the provider       *)
(* rejects is marked on the row.                                           *)
(*                                                                         *)
(* A behaviour follows one tenant's credential for one provider; keys are  *)
(* numbered as they are saved.  Time passes in ticks.                      *)
(***************************************************************************)
EXTENDS Naturals, Sequences, FiniteSets

CONSTANTS
    Workers,
    OverlayTTL,   \* ticks a pod caches the row
    Wait,      \* ticks a request may wait for the row or for custody
    PoolSize,     \* clients a pod keeps, connections_pool_size
    MaxKeys,      \* keys the tenant saves
    MaxVersion    \* times the row is written

ASSUME ConnectionsAssumption ==
    /\ OverlayTTL \in Nat \ {0}
    /\ Wait \in Nat
    /\ PoolSize \in Nat \ {0}
    /\ MaxKeys \in Nat \ {0}
    /\ MaxVersion \in Nat

VARIABLES
    conn,      \* the row
    saved,     \* keys saved so far
    written,   \* versions of the row so far
    vault,     \* keys custody holds
    rejects,   \* keys the provider rejects
    overlay,   \* each pod's cached row
    pool,      \* each pod's clients, least recently used first
    request,   \* a request on each pod
    call,      \* the tenant's call, one at a time
    told,      \* an invalidation is on its way to the pod
    replaced,  \* ticks since a key was the row's
    strict     \* ticks since the row is there and asks for no fallback

connVars == <<conn, saved, written, vault, rejects, overlay, pool, request,
              call, told, replaced, strict>>

Keys == 1..MaxKeys

\* A row is held by the cache or by the request that reads it.
LongestHeld == IF OverlayTTL > Wait THEN OverlayTTL ELSE Wait
LongAgo == LongestHeld + Wait + 1

\* id 0: there is no row.
NoConn == [id |-> 0, ver |-> 0, key |-> 0, status |-> "none", fallback |-> "none"]
Nothing == [row |-> NoConn, left |-> 0]
NoRequest == [pc |-> "idle", row |-> NoConn, key |-> 0, age |-> 0]
NoCall == [pc |-> "idle", row |-> NoConn, key |-> 0, status |-> "none",
           fallback |-> "none"]

ConnectionsInit ==
    /\ conn = NoConn
    /\ saved = 0
    /\ written = 0
    /\ vault = {}
    /\ rejects = {}
    /\ overlay = [p \in Workers |-> Nothing]
    /\ pool = [p \in Workers |-> <<>>]
    /\ request = [p \in Workers |-> NoRequest]
    /\ call = NoCall
    /\ told = [p \in Workers |-> FALSE]
    /\ replaced = [k \in Keys |-> 0]
    /\ strict = 0

-----------------------------------------------------------------------------
(* Workers.                                                                 *)

\* A bug: the client of an earlier version of the row is found.
PoolKeyOfRow(row) == <<row.id>>

PoolKey(row) == <<row.id, row.ver>>

Pooled(p, row) == {i \in 1..Len(pool[p]) : pool[p][i].at = PoolKey(row)}

Hit(p, row) == pool[p][CHOOSE i \in Pooled(p, row) : TRUE]

\* The client goes to the end, from its place when it has one, and for a
\* client just built the oldest are evicted.
Used(clients, c) ==
    LET places == {i \in 1..Len(clients) : clients[i].at = c.at}
        others == IF places = {} THEN clients
                  ELSE LET i == CHOOSE i \in places : TRUE
                       IN  SubSeq(clients, 1, i - 1) \o SubSeq(clients, i + 1, Len(clients))
        all == Append(others, c)
    IN  SubSeq(all, Len(all) - (IF Len(all) > PoolSize THEN PoolSize ELSE Len(all)) + 1,
               Len(all))

\* get_tenant_adapter on a hit.
Touched(p, row) ==
    IF row.status = "verified" /\ Pooled(p, row) # {}
    THEN [pool EXCEPT ![p] = Used(@, Hit(p, row))]
    ELSE pool

Deployment(why) == [NoRequest EXCEPT !.pc = why]

\* resolve_tenant_adapter, with the row at hand: no row, or one marked
\* invalid whose tenant accepts the fallback, leads to the deployment's keys.
Chosen(p, row) ==
    CASE row.id = 0 -> Deployment("billed")
      [] row.id # 0 /\ row.status # "verified" ->
            IF row.fallback = "none" THEN NoRequest ELSE Deployment("billed")
      [] row.id # 0 /\ row.status = "verified" ->
            IF Pooled(p, row) # {}
            THEN [pc |-> "sent", row |-> row, age |-> 0,
                  key |-> Hit(p, row).key]
            ELSE [pc |-> "reveal", row |-> row, key |-> 0, age |-> 0]

\* get_overlay answers from memory, or the time is noted and the row read.
Arrive(p) ==
    /\ request[p] = NoRequest
    /\ request' = [request EXCEPT ![p] =
          IF overlay[p].left > 0 THEN Chosen(p, overlay[p].row)
          ELSE [NoRequest EXCEPT !.pc = "ask"]]
    /\ pool' = IF overlay[p].left > 0 THEN Touched(p, overlay[p].row) ELSE pool
    /\ UNCHANGED <<conn, saved, written, vault, rejects, overlay, call, told,
                   replaced, strict>>

\* A bug: an invalid credential is left out of the cached map.
ReadValidRow(p) ==
    /\ request[p].pc = "ask"
    /\ \/ request' = [request EXCEPT ![p].pc = "read",
             ![p].row = IF conn.status = "invalid" THEN NoConn ELSE conn]
       \/ request' = [request EXCEPT ![p] = Deployment("degraded")]
    /\ UNCHANGED <<conn, saved, written, vault, rejects, overlay, pool, call,
                   told, replaced, strict>>

\* The row is read; when that fails the deployment's keys serve.
ReadRow(p) ==
    /\ request[p].pc = "ask"
    /\ \/ request' = [request EXCEPT ![p].pc = "read", ![p].row = conn]
       \/ request' = [request EXCEPT ![p] = Deployment("degraded")]
    /\ UNCHANGED <<conn, saved, written, vault, rejects, overlay, pool, call,
                   told, replaced, strict>>

\* The cached row expires a while after the time noted.
CacheRow(p) ==
    /\ request[p].pc = "read"
    /\ LET age == request[p].age IN
       overlay' = [overlay EXCEPT ![p] =
          IF age < OverlayTTL
          THEN [row |-> request[p].row, left |-> OverlayTTL - age] ELSE Nothing]
    /\ request' = [request EXCEPT ![p] = Chosen(p, @.row)]
    /\ pool' = Touched(p, request[p].row)
    /\ UNCHANGED <<conn, saved, written, vault, rejects, call, told, replaced,
                   strict>>

\* get_tenant_adapter on a miss: custody reveals the secret the row named, a
\* client is built of it and pooled; when that fails the deployment's keys
\* serve.
Reveal(p) ==
    /\ request[p].pc = "reveal"
    /\ LET row == request[p].row IN
       \/ /\ row.key \in vault
          /\ pool' = [pool EXCEPT ![p] =
                Used(@, [at |-> PoolKey(row), key |-> row.key])]
          /\ request' = [request EXCEPT ![p] =
                [pc |-> "sent", row |-> row, key |-> row.key, age |-> 0]]
       \/ /\ request' = [request EXCEPT ![p] = Deployment("degraded")]
          /\ UNCHANGED pool
    /\ UNCHANGED <<conn, saved, written, vault, rejects, overlay, call, told,
                   replaced, strict>>

\* The provider answers; a rejected key is to be marked.
Answer(p) ==
    /\ request[p].pc \in {"sent", "billed", "degraded"}
    /\ request' = [request EXCEPT ![p] =
          IF @.pc = "sent" /\ @.key \in rejects
          THEN [NoRequest EXCEPT !.pc = "mark", !.row = request[p].row]
          ELSE NoRequest]
    /\ UNCHANGED <<conn, saved, written, vault, rejects, overlay, pool, call,
                   told, replaced, strict>>

\* Every write of the row gives it a new version.
Write(row) ==
    /\ written < MaxVersion
    /\ written' = written + 1
    /\ conn' = [row EXCEPT !.ver = written + 1]

\* mark_invalid, by the id of the row, whatever key it names by now; the
\* pod's own cache is dropped, the other pods are not told.
MarkInvalid(p) ==
    /\ request[p].pc = "mark"
    /\ IF conn.id = request[p].row.id
       THEN Write([conn EXCEPT !.status = "invalid"])
       ELSE UNCHANGED <<conn, written>>
    /\ overlay' = [overlay EXCEPT ![p] = Nothing]
    /\ request' = [request EXCEPT ![p] = NoRequest]
    /\ UNCHANGED <<saved, vault, rejects, pool, call, told, replaced, strict>>

-----------------------------------------------------------------------------
(* The tenant's calls, each on any pod.                                     *)

\* What the probe of a key may say: an unreachable provider fails it too.
Probed(k) == IF k \in rejects THEN {"invalid"} ELSE {"verified", "invalid"}

\* upsert_provider_key, up to custody: the key is probed first.
SaveKey(fallback) ==
    /\ call = NoCall
    /\ saved < MaxKeys
    /\ saved' = saved + 1
    /\ \E s \in Probed(saved + 1) :
          call' = [NoCall EXCEPT !.pc = "store", !.key = saved + 1,
                                 !.status = s, !.fallback = fallback]
    /\ UNCHANGED <<conn, written, vault, rejects, overlay, pool, request, told,
                   replaced, strict>>

\* store: the tenant's secret has one name; where it is taken the old one is
\* deleted first.
DropOldSecret ==
    /\ call.pc = "store"
    /\ vault # {}
    /\ vault' = {}
    /\ UNCHANGED <<conn, saved, written, rejects, overlay, pool, request, call,
                   told, replaced, strict>>

StoreSecret ==
    /\ call.pc = "store"
    /\ vault = {}
    /\ vault' = {call.key}
    /\ call' = [call EXCEPT !.pc = "write"]
    /\ UNCHANGED <<conn, saved, written, rejects, overlay, pool, request, told,
                   replaced, strict>>

Strictly(row) == row.id # 0 /\ row.fallback = "none"

\* The row is overwritten or inserted, and the secret it named cleaned up.
WriteRow ==
    /\ call.pc = "write"
    /\ Write([id |-> IF conn.id = 0 THEN written + 1 ELSE conn.id,
              ver |-> 0, key |-> call.key, status |-> call.status,
              fallback |-> call.fallback])
    /\ vault' = vault \ {conn.key}
    /\ call' = [NoCall EXCEPT !.pc = "publish"]
    /\ strict' = IF Strictly(conn) /\ Strictly(conn') THEN strict ELSE 0
    /\ replaced' = [replaced EXCEPT ![call.key] = 0]
    /\ UNCHANGED <<saved, rejects, overlay, pool, request, told>>

\* delete_connection: the secret, then the row, which counts.
DeleteConnection ==
    /\ call = NoCall
    /\ conn.id # 0
    /\ vault' \in {vault, vault \ {conn.key}}
    /\ call' = [NoCall EXCEPT !.pc = "delete"]
    /\ UNCHANGED <<conn, saved, written, rejects, overlay, pool, request, told,
                   replaced, strict>>

DeleteRow ==
    /\ call.pc = "delete"
    /\ conn' = NoConn
    /\ strict' = 0
    /\ call' = [NoCall EXCEPT !.pc = "publish"]
    /\ UNCHANGED <<saved, written, vault, rejects, overlay, pool, request, told,
                   replaced>>

\* reverify_connection: the stored secret is revealed and probed, and what
\* the probe says is written when it differs from the row that was read.
Reverify ==
    /\ call = NoCall
    /\ conn.id # 0
    /\ conn.key \in vault
    /\ \E s \in Probed(conn.key) :
          call' = [NoCall EXCEPT !.pc = "verify", !.row = conn, !.status = s]
    /\ UNCHANGED <<conn, saved, written, vault, rejects, overlay, pool, request,
                   told, replaced, strict>>

WriteStatus ==
    /\ call.pc = "verify"
    /\ IF call.status # call.row.status
       THEN Write([conn EXCEPT !.status = call.status])
       ELSE UNCHANGED <<conn, written>>
    /\ call' = [NoCall EXCEPT !.pc = "publish"]
    /\ UNCHANGED <<saved, vault, rejects, overlay, pool, request, told, replaced,
                   strict>>

\* _publish: the cache of the pod that took the call is dropped, the others
\* are told, or a lost message leaves them to the expiry.
PublishChange ==
    /\ call.pc = "publish"
    /\ \E here \in Workers \cup {"elsewhere"} :
          overlay' = [q \in Workers |-> IF q = here THEN Nothing ELSE overlay[q]]
    /\ \/ told' = [q \in Workers |-> TRUE]
       \/ UNCHANGED told
    /\ call' = NoCall
    /\ UNCHANGED <<conn, saved, written, vault, rejects, pool, request, replaced,
                   strict>>

\* invalidate_overlay, by the subscriber.
InvalidateOverlay(p) ==
    /\ told[p]
    /\ told' = [told EXCEPT ![p] = FALSE]
    /\ overlay' = [overlay EXCEPT ![p] = Nothing]
    /\ UNCHANGED <<conn, saved, written, vault, rejects, pool, request, call,
                   replaced, strict>>

-----------------------------------------------------------------------------
\* The provider withdraws a key.
RejectKey(k) ==
    /\ k \in 1..saved \ rejects
    /\ rejects' = rejects \cup {k}
    /\ UNCHANGED <<conn, saved, written, vault, overlay, pool, request, call,
                   told, replaced, strict>>

\* A request waits for the row or for custody; at the moment it leaves for
\* the provider the properties judge it.
Pending == {"ask", "read", "reveal"}
Leaving == {"sent", "billed", "degraded"}

Later(n, most) == IF n < most THEN n + 1 ELSE n

PassTime ==
    /\ \A p \in Workers :
          /\ request[p].pc \notin Leaving
          /\ request[p].pc \in Pending => request[p].age < Wait
    /\ overlay' = [p \in Workers |->
          IF overlay[p].left <= 1 THEN Nothing
          ELSE [overlay[p] EXCEPT !.left = @ - 1]]
    /\ request' = [p \in Workers |->
          IF request[p].pc \in Pending THEN [request[p] EXCEPT !.age = @ + 1]
          ELSE request[p]]
    /\ replaced' = [k \in Keys |->
          IF k = conn.key THEN 0 ELSE Later(replaced[k], LongAgo)]
    /\ strict' = IF Strictly(conn) THEN Later(strict, LongAgo) ELSE 0
    /\ UNCHANGED <<conn, saved, written, vault, rejects, pool, call, told>>

ConnectionsNext ==
    \/ \E p \in Workers :
          \/ Arrive(p)
          \/ ReadRow(p)
          \/ CacheRow(p)
          \/ Reveal(p)
          \/ Answer(p)
          \/ MarkInvalid(p)
          \/ InvalidateOverlay(p)
    \/ \E f \in {"mlpal", "none"} : SaveKey(f)
    \/ DropOldSecret
    \/ StoreSecret
    \/ WriteRow
    \/ DeleteConnection
    \/ DeleteRow
    \/ Reverify
    \/ WriteStatus
    \/ PublishChange
    \/ \E k \in Keys : RejectKey(k)
    \/ PassTime

ConnRows == [id: 0..MaxVersion, ver: 0..MaxVersion, key: 0..MaxKeys,
             status: {"none", "verified", "invalid"}, fallback: {"mlpal", "none"}]

ConnectionsTypeOK ==
    /\ conn \in ConnRows
    /\ saved \in 0..MaxKeys
    /\ written \in 0..MaxVersion
    /\ vault \subseteq Keys /\ rejects \subseteq Keys
    /\ \A p \in Workers :
          /\ overlay[p].row \in ConnRows /\ overlay[p].left \in 0..OverlayTTL
          /\ \A i \in 1..Len(pool[p]) : pool[p][i].key \in Keys
          /\ Len(pool[p]) <= PoolSize
          /\ request[p].age \in 0..Wait
    /\ replaced \in [Keys -> 0..LongAgo]
    /\ strict \in 0..LongAgo

\* A key the tenant replaced or removed is used no longer than a cached row
\* lives, or a request waits for the row, and then for custody, although nobody
\* was told and the clients built of it stay pooled; and a request is never
\* sent with another key than the one of the row it was resolved by: "a rotated
\* key takes effect".
RotationTakesEffect ==
    \A p \in Workers : request[p].pc = "sent" =>
       /\ request[p].key = request[p].row.key
       /\ request[p].key # conn.key =>
             replaced[request[p].key] <= LongestHeld + Wait

\* A tenant who asked for no fallback is billed for the deployment's keys only
\* by a row cached or a request begun before it asked, whatever marks,
\* replacements and checks crossed, unless the row cannot be read or the secret
\* not be revealed.
NotBilled ==
    \A p \in Workers :
        request[p].pc = "billed" => strict <= OverlayTTL \/ strict <= Wait
=============================================================================
