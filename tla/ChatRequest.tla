---------------------------- MODULE ChatRequest ----------------------------
(***************************************************************************)
(* One request to /v1/chat/completions or /v1/chat/completions/stream, from *)
(* the gate to the ledger (services/chat.py, api/v1/chat.py): candidate     *)
(* models in order, up to two backends for each, the retry of a call inside *)
(* an adapter, the exceptions each layer turns into the next one's          *)
(* decision, and the client, who may leave a stream at any await.           *)
(*                                                                         *)
(* An attempt is one run of _chat_once or _chat_stream_once, under a trace  *)
(* id of its own.  What it hands to the ledger is counted here; the way     *)
(* from there to the row and to the wallet is UsageDebit.  The gate's own   *)
(* answers are WalletGate and are free here, and so are the breaker's       *)
(* (CircuitBreaker).                                                        *)
(***************************************************************************)
EXTENDS Naturals, Sequences, SequencesExt, FiniteSetsExt

CONSTANTS
    Tags,          \* model tags a client may name
    UserTags,      \* those of them that are tenant models ("user/...")
    MaxFallbacks,  \* fallback_models the wire schema takes
    Backends,      \* a family's backends, by their place in its priority list
    Passthrough,   \* those of them that pass MCP servers on
    Failover,      \* settings.backend_failover_enabled
    MaxTries,      \* call_provider's max_attempts
    Modes,         \* streaming and not, of BOOLEAN
    Aware          \* whether an adapter's chat_stream tells timeouts apart

ASSUME ChatAssumption ==
    /\ UserTags \subseteq Tags
    /\ MaxFallbacks \in Nat /\ MaxTries \in Nat \ {0}
    /\ Backends \subseteq Nat \ {0} /\ Passthrough \subseteq Backends
    /\ Failover \in BOOLEAN /\ Modes \subseteq BOOLEAN /\ Aware \subseteq BOOLEAN

\* A candidate's place in the list, and whether this is its backend hop.
Candidates == 1..(MaxFallbacks + 1)
Attempts   == Candidates \X BOOLEAN

\* Whose credentials serve an attempt: the deployment's, a tenant's for a
\* catalog model, or a tenant model's.
Owners == {"deployment", "byok", "byom"}

\* What an attempt raises.  "refused": rate limit, wallet, quota, policy,
\* budget, capability or kwargs.  "missing": ModelNotFound, ModelNotAvailable.
\* "blocked": ConnectionBlocked, a 502.  "open": the breaker, a 503.
\* "rejected": the provider refused a tenant's credential, a 502 in _chat_once.
\* "serving": 5xx, 429, no connection.  "client": any other 4xx.
Errors == {"refused", "missing", "blocked", "open", "rejected", "serving",
           "client", "timeout"}

Places == {"gate", "reserving", "routing", "checking", "calling", "backoff",
           "tail", "failing", "ended"}

VARIABLES
    req,       \* what was asked, of whom: fixed at the start
    at, hop,   \* the attempt being made
    pc,        \* where it stands
    backend,   \* the backend each attempt resolved to, 0 for none
    owner,     \* whose credentials served it
    tries,     \* provider calls this attempt has made
    known,     \* the provider has reported the input side of the usage
    error,     \* what the attempt raised last, "none" before
    slot,      \* each attempt's in-flight slot
    sent,      \* attempts that have sent something of an answer
    meter,     \* success and error rows handed to the ledger, per attempt
    timedOut,  \* a provider call of the request timed out
    left       \* where the client left the stream, "no" while it is there

place   == <<at, hop, pc>>
serving == <<backend, owner>>
call    == <<tries, known, error>>
vars    == <<req, place, serving, call, slot, sent, meter, timedOut, left>>

cur == <<at, hop>>

\* What _candidates returns: the primary and the fallbacks in order, each tag
\* once.
CandidateLists ==
    {t \in SeqOf(Tags, MaxFallbacks + 1) : t # <<>> /\ IsInjective(t)}

Requests ==
    [stream : Modes, mcp : BOOLEAN, aware : Aware, tags : CandidateLists,
     serves : [Tags \ UserTags -> SUBSET Backends]]

None == [a \in Attempts |-> 0]

Init ==
    /\ req \in Requests
    /\ at = 1 /\ hop = FALSE /\ pc = "gate"
    /\ backend = None
    /\ owner = [a \in Attempts |-> "deployment"]
    /\ tries = 1 /\ known = FALSE /\ error = "none"
    /\ slot = [a \in Attempts |-> "none"]
    /\ sent = {}
    /\ meter = [a \in Attempts |-> [success |-> 0, error |-> 0]]
    /\ timedOut = FALSE
    /\ left = "no"

-----------------------------------------------------------------------------
(* Choosing a backend.                                                      *)

Tag == req.tags[at]

\* AdapterFactory.resolve: the first backend of the priority list that serves
\* the model and is not excluded.
First(exclude) ==
    LET able == req.serves[Tag] \ exclude IN IF able = {} THEN 0 ELSE Min(able)

\* The backend a request is routed to: one that cannot pass its MCP servers
\* on is passed over, once.
Resolve(exclude) ==
    LET b == First(exclude)
    IN  IF b # 0 /\ req.mcp /\ b \notin Passthrough
        THEN First(exclude \union {b}) ELSE b

\* exclude_backends of the attempt being made.
Excluded == IF hop THEN {backend[<<at, FALSE>>]} ELSE {}

-----------------------------------------------------------------------------
(* The steps of an attempt up to the provider call.                         *)

Fail(e) == pc' = "failing" /\ error' = e /\ UNCHANGED <<at, hop, tries, known>>

\* Rate limit, billing status and in-flight cap come before the model is even
\* looked up.
Refuse ==
    /\ pc = "gate"
    /\ Fail("refused")
    /\ UNCHANGED <<req, serving, slot, sent, meter, timedOut, left>>

\* reserve_inflight counts the slot in Redis before it returns it; with enough
\* balance there is none.
Reserve ==
    /\ pc = "gate"
    /\ \/ pc' = "reserving" /\ slot' = [slot EXCEPT ![cur] = "counted"]
       \/ pc' = "routing" /\ UNCHANGED slot
    /\ UNCHANGED <<req, at, hop, serving, call, sent, meter, timedOut, left>>

Reserved ==
    /\ pc = "reserving"
    /\ pc' = "routing"
    /\ slot' = [slot EXCEPT ![cur] = "held"]
    /\ UNCHANGED <<req, at, hop, serving, call, sent, meter, timedOut, left>>

\* The router, or the tenant overlay for a "user/..." tag, has no backend.
Missing ==
    /\ pc = "routing"
    /\ Tag \notin UserTags => Resolve(Excluded) = 0
    /\ Fail("missing")
    /\ UNCHANGED <<req, serving, slot, sent, meter, timedOut, left>>

\* A tenant's credential is invalid and may not be fallen back from.  The row
\* written here is followed by the handler's own.
Blocked ==
    /\ pc = "routing"
    /\ Tag \notin UserTags /\ Resolve(Excluded) # 0
    /\ Fail("blocked")
    /\ meter' = [meter EXCEPT ![cur].error = @ + 1]
    /\ UNCHANGED <<req, serving, slot, sent, timedOut, left>>

\* A tenant credential for the family outranks the deployment's, and its
\* backend may be any.
Route ==
    /\ pc = "routing"
    /\ pc' = "checking"
    /\ \/ /\ Tag \in UserTags
          /\ owner' = [owner EXCEPT ![cur] = "byom"]
          /\ \E b \in Backends : backend' = [backend EXCEPT ![cur] = b]
       \/ /\ Tag \notin UserTags /\ Resolve(Excluded) # 0
          /\ \/ /\ owner' = [owner EXCEPT ![cur] = "byok"]
                /\ \E b \in Backends : backend' = [backend EXCEPT ![cur] = b]
             \/ /\ backend' = [backend EXCEPT ![cur] = Resolve(Excluded)]
                /\ UNCHANGED owner
    /\ UNCHANGED <<req, at, hop, call, slot, sent, meter, timedOut, left>>

\* Model policy, budgets, capabilities, kwargs and effort are checked before
\* anything is sent to the provider.
Check ==
    /\ pc = "checking"
    /\ \/ Fail("refused")
       \/ pc' = "calling" /\ UNCHANGED <<at, hop, call>>
    /\ UNCHANGED <<req, serving, slot, sent, meter, timedOut, left>>

-----------------------------------------------------------------------------
(* The provider call.                                                       *)

\* The backend's breaker is open; tenants are served outside the breakers.
BreakerOpen ==
    /\ pc = "calling" /\ tries = 1 /\ ~known /\ cur \notin sent
    /\ owner[cur] = "deployment"
    /\ Fail("open")
    /\ UNCHANGED <<req, serving, slot, sent, meter, timedOut, left>>

\* _fire_and_forget(_post_request_background): the attempt is billed.
Bill == meter' = [meter EXCEPT ![cur].success = @ + 1]

\* The finally clause of an attempt.  A slot the attempt was never told of
\* stays counted.
GiveSlotBack ==
    slot' = [slot EXCEPT ![cur] = IF @ = "held" THEN "none" ELSE @]

End == pc' = "ended" /\ UNCHANGED <<at, hop>>

\* The whole answer of a request that does not stream.
Answer ==
    /\ pc = "calling" /\ ~req.stream
    /\ Bill /\ GiveSlotBack /\ End
    /\ sent' = sent \union {cur}
    /\ UNCHANGED <<req, serving, call, timedOut, left>>

\* The first event of a stream may bring the input side of its usage.
ReportUsage ==
    /\ pc = "calling" /\ req.stream
    /\ known' = TRUE
    /\ UNCHANGED <<req, place, serving, tries, error, slot, sent, meter,
                   timedOut, left>>

SendChunk ==
    /\ pc = "calling" /\ req.stream
    /\ sent' = sent \union {cur}
    /\ UNCHANGED <<req, place, serving, call, slot, meter, timedOut, left>>

\* The final chunk: billing is scheduled, and only then is the chunk sent.
SendFinal ==
    /\ pc = "calling" /\ req.stream
    /\ Bill
    /\ sent' = sent \union {cur}
    /\ pc' = "tail"
    /\ UNCHANGED <<req, at, hop, serving, call, slot, timedOut, left>>

\* The provider's stream ends without a final chunk (OpenAI's
\* response.incomplete and response.failed are not recognised), or its final
\* chunk has no usage.
EndUnmetered ==
    /\ pc = "calling" /\ req.stream
    /\ GiveSlotBack /\ End
    /\ \/ sent' = sent \union {cur}
       \/ UNCHANGED sent
    /\ UNCHANGED <<req, serving, call, meter, timedOut, left>>

\* After its final chunk the provider's stream runs out.
StreamEnds ==
    /\ pc = "tail"
    /\ GiveSlotBack /\ End
    /\ UNCHANGED <<req, serving, call, sent, meter, timedOut, left>>

\* Mutant: the attempt is not counted.
CallAgainUncounted ==
    /\ pc = "backoff"
    /\ pc' = "calling"
    /\ UNCHANGED <<req, at, hop, serving, call, slot, sent, meter, timedOut, left>>

\* call_provider repeats a call the provider had not begun to serve, after a
\* pause; streams are opened without it.
Retry ==
    /\ pc = "calling" /\ ~req.stream
    /\ tries < MaxTries
    /\ pc' = "backoff"
    /\ UNCHANGED <<req, at, hop, serving, call, slot, sent, meter, timedOut, left>>

CallAgain ==
    /\ pc = "backoff"
    /\ pc' = "calling"
    /\ tries' = tries + 1
    /\ UNCHANGED <<req, at, hop, serving, known, error, slot, sent, meter,
                   timedOut, left>>

\* The provider refuses or breaks off; _chat_once, but not its streaming twin,
\* blames a tenant's credential for a 401 or 403.
Fault ==
    /\ pc \in {"calling", "tail"}
    /\ \/ Fail("serving")
       \/ Fail("client")
       \/ ~req.stream /\ owner[cur] # "deployment" /\ Fail("rejected")
    /\ UNCHANGED <<req, serving, slot, sent, meter, timedOut, left>>

\* What an adapter makes of a read timeout: chat raises ProviderTimeoutError,
\* chat_stream does so in AnthropicAdapter only, and elsewhere raises a
\* ProviderError without a status.
TimeoutError == IF req.stream /\ ~req.aware THEN "serving" ELSE "timeout"

TimeOut ==
    /\ pc \in {"calling", "tail"}
    /\ Fail(TimeoutError)
    /\ timedOut' = TRUE
    /\ UNCHANGED <<req, serving, slot, sent, meter, left>>

-----------------------------------------------------------------------------
(* After a failure.                                                         *)

\* Mutant: a timeout is like any other serving fault.
RetriableTimeout ==
    error \in {"missing", "blocked", "open", "rejected", "serving", "timeout"}

\* _retriable.
Retriable == error \in {"missing", "blocked", "open", "rejected", "serving"}

\* Something of this candidate's answer is on the wire.
Emitted == \E h \in BOOLEAN : <<at, h>> \in sent

\* _backend_hop: the attempt reached a backend of the deployment, and another
\* one serves the model.
CanHop ==
    /\ Failover
    /\ backend[cur] # 0 /\ owner[cur] = "deployment"
    /\ First({backend[cur]}) # 0

\* Mutant: a stream that has begun hops too.
MayHopCommitted == ~hop /\ Retriable /\ CanHop

MayHop == ~hop /\ Retriable /\ ~Emitted /\ CanHop

\* Mutant: the check for a begun stream is dropped.
MayFallBackCommitted == Retriable /\ at < Len(req.tags)

MayFallBack == Retriable /\ ~Emitted /\ at < Len(req.tags)

BeginAttempt == pc' = "gate" /\ tries' = 1 /\ known' = FALSE /\ error' = "none"

\* The failure is put in the ledger and the slot given back before the layers
\* above decide.
Recorded ==
    /\ pc = "failing"
    /\ meter' = [meter EXCEPT ![cur].error = @ + 1]
    /\ GiveSlotBack
    /\ UNCHANGED <<req, serving, sent, timedOut, left>>

HopToBackend ==
    /\ Recorded /\ MayHop
    /\ hop' = TRUE /\ UNCHANGED at
    /\ BeginAttempt

FallBack ==
    /\ Recorded /\ ~MayHop /\ MayFallBack
    /\ at' = at + 1 /\ hop' = FALSE
    /\ BeginAttempt

Raise ==
    /\ Recorded /\ ~MayHop /\ ~MayFallBack
    /\ End /\ UNCHANGED call

-----------------------------------------------------------------------------
(* The client leaves a stream.                                              *)

\* _record_abandoned_stream: an ordinary success row when the usage is known,
\* otherwise an error row that names the disconnect.
MeterAbandoned ==
    IF known /\ owner[cur] # "byom" THEN Bill
    ELSE meter' = [meter EXCEPT ![cur].error = @ + 1]

\* Cancelled at an await, or closed at a yield, the attempt hands the stream to
\* a task of its own.
Leave ==
    /\ req.stream /\ pc \notin {"failing", "ended"}
    /\ left' = pc
    /\ MeterAbandoned /\ GiveSlotBack /\ End
    /\ UNCHANGED <<req, serving, call, sent, timedOut>>

\* Cancelled while it records a failure, which no handler covers: the row may
\* or may not have been committed.
LeaveFailing ==
    /\ req.stream /\ pc = "failing"
    /\ left' = pc
    /\ \/ meter' = [meter EXCEPT ![cur].error = @ + 1]
       \/ UNCHANGED meter
    /\ GiveSlotBack /\ End
    /\ UNCHANGED <<req, serving, call, sent, timedOut>>

-----------------------------------------------------------------------------
Service ==
    \/ Refuse \/ Reserve \/ Reserved
    \/ Missing \/ Blocked \/ Route \/ Check
    \/ BreakerOpen \/ Answer \/ Retry \/ CallAgain
    \/ ReportUsage \/ SendChunk \/ SendFinal \/ EndUnmetered \/ StreamEnds
    \/ Fault \/ TimeOut
    \/ HopToBackend \/ FallBack \/ Raise

Next == Service \/ Leave \/ LeaveFailing

Spec == Init /\ [][Next]_vars

\* Every await of an attempt ends: the provider answers or the read timeout
\* strikes, and Redis and the database answer or raise.
FairSpec == Spec /\ WF_vars(Service)

-----------------------------------------------------------------------------
(* Properties.                                                              *)

TypeOK ==
    /\ req \in Requests
    /\ at \in Candidates /\ hop \in BOOLEAN /\ pc \in Places
    /\ backend \in [Attempts -> Backends \union {0}]
    /\ owner \in [Attempts -> Owners]
    /\ tries \in 1..MaxTries /\ known \in BOOLEAN
    /\ error \in Errors \union {"none"}
    /\ slot \in [Attempts -> {"none", "counted", "held"}]
    /\ sent \subseteq Attempts
    /\ meter \in [Attempts -> [success : Nat, error : Nat]]
    /\ timedOut \in BOOLEAN
    /\ left \in Places \union {"no"}

\* A request is billed for one attempt, whatever failed before it and even if
\* the provider breaks off after billing was scheduled, and once, unless the
\* client left between the final chunk and the end of the provider's stream
\* (chat.py:1245 and :1334 then both bill the attempt).
BilledOnce ==
    /\ \A a, b \in Attempts :
           meter[a].success > 0 /\ meter[b].success > 0 => a = b
    /\ \A a \in Attempts : meter[a].success > 1 => left = "tail"

\* The attempts in the order they are made.
Turn(a) == 2 * (a[1] - 1) + (IF a[2] THEN 2 ELSE 1)

Commitment == INSTANCE Failover WITH
    Limit  <- 2 * (MaxFallbacks + 1),
    turn   <- Turn(cur),
    source <- {Turn(a) : a \in sent},
    over   <- pc = "ended"

\* An answer comes from one attempt: "once the first chunk is on the wire the
\* stream is committed" (chat.py:447), through both layers of failover.
OneSource == Commitment!Spec

\* A call the provider timed out is the last one of the request, at all three
\* layers that repeat calls, where the adapter reports it as a timeout
\* (adapters/retry.py:12, the incident at chat.py:370).
TimeoutsTerminal ==
    timedOut /\ (req.stream => req.aware) => pc \in {"failing", "ended"}

\* A hop leaves the backend that failed, also when the second resolution for
\* MCP servers intervenes, and never moves a tenant's request onto the
\* deployment's keys.
HopElsewhere ==
    \A c \in Candidates :
        LET first == <<c, FALSE>>
            other == <<c, TRUE>>
        IN  backend[other] # 0 /\ owner[other] = "deployment" =>
                owner[first] = "deployment" /\ backend[other] # backend[first]

\* Every attempt that failed is in the ledger, and so is a stream the client
\* left ("Never a silent gap", chat.py:1333), unless it left while a failure
\* was being recorded.
NeverSilent ==
    /\ \A a \in Attempts :
           Turn(a) < Turn(cur) /\ (backend[a] # 0 \/ ~a[2]) => meter[a].error > 0
    /\ left \notin {"no", "failing"} =>
           meter[cur].success + meter[cur].error > 0

\* No attempt keeps its in-flight slot, unless the client left while Redis had
\* counted it and the answer was on its way.
SlotsReturned ==
    \A a \in Attempts :
        /\ slot[a] = "held" => a = cur /\ pc # "ended"
        /\ slot[a] = "counted" => a = cur /\ (pc = "reserving" \/ left = "reserving")

\* What an attempt took and gave is accounted for: its bill, its row and its slot.
Accounted == BilledOnce /\ NeverSilent /\ SlotsReturned

\* A call is repeated only where it may be: not after a timeout, and not at the
\* backend that failed.
RepeatsSound == TimeoutsTerminal /\ HopElsewhere

\* A request ends, whatever fails on the way.
Ends == <>(pc = "ended")
=============================================================================
