-------------------------- MODULE MessagesRequest --------------------------
(***************************************************************************)
(* One request to /v1/messages (services/messages_v2): candidate models in *)
(* order, one backend hop for each, and for a stream the two tasks that    *)
(* share a bounded queue, the producer that pulls the provider's answer    *)
(* and the response body the client reads, which it may leave at any       *)
(* await.                                                                  *)
(*                                                                         *)
(* An edge is native (AnthropicEdge: bytes are passed on as they come) or  *)
(* translating (TranslatingEdge: another provider's answer is turned into  *)
(* Anthropic events).  Rows and bills are counted where they are handed    *)
(* on; their way to the wallet is UsageDebit.                              *)
(***************************************************************************)
EXTENDS Naturals, Sequences, SequencesExt, FiniteSetsExt

CONSTANTS
    Tags,          \* model tags a client may name
    UserTags,      \* those of them that are tenant models ("user/...")
    NativeTags,    \* those of them an AnthropicEdge serves
    MaxFallbacks,  \* fallback_models of a request
    Backends,      \* a family's backends, by their place in its priority list
    Served,        \* the sets of them a model may be served by
    Hops,          \* settings.backend_failover_enabled
    Modes,         \* streaming and not, of BOOLEAN
    MaxQueue       \* chunks the producer may be ahead of the client

ASSUME MessagesAssumption ==
    /\ UserTags \subseteq Tags /\ NativeTags \subseteq Tags \ UserTags
    /\ MaxFallbacks \in Nat /\ MaxQueue \in Nat \ {0}
    /\ Backends \subseteq Nat \ {0} /\ Served \subseteq SUBSET Backends
    /\ Hops \in BOOLEAN /\ Modes \subseteq BOOLEAN

\* A candidate's place in the list, and whether this is its backend hop.
Candidates == 1..(MaxFallbacks + 1)
Attempts   == Candidates \X BOOLEAN

Owners == {"deployment", "byok", "byom"}

\* ctx.status_code.  "fault": 500, 502, 503, 504, 529.  "throttled": 429.
\* "rejected": 401 or 403 on a tenant's credential.  "client": any other 4xx.
Statuses == {"none", "ok", "fault", "throttled", "rejected", "client"}

\* What handle returns.  "unavailable": a status of _FALLBACK_STATUSES.
\* "missing": 404.
Responses == {"none", "ok", "missing", "unavailable", "denied"}

VARIABLES
    req,        \* what was asked: fixed at the start
    at, hop,    \* the attempt being made
    pc,         \* where the request handler stands
    resp,       \* what handle returned for the candidate
    backend,    \* the backend the attempt uses, 0 for none
    owner,      \* whose credentials serve it
    status,     \* ctx.status_code
    known,      \* ctx.usage has been reported
    slot,       \* candidates whose in-flight slot is taken
    called,     \* attempts that went to a provider or its breaker
    sent,       \* attempts that have produced something of an answer
    heard,      \* the provider has begun to answer the current attempt
    broken,     \* the stream of the current attempt failed
    producer,   \* where the producer task stands
    upstream,   \* the edge's stream is open
    queue,      \* what it has put and the body has not got
    body,       \* where the response body stands
    told,       \* the client was sent an error event
    left,       \* where the body stood when the client left, "no" while there
    rows,       \* ledger rows of each attempt
    bills       \* debits handed on for each attempt

attempt == <<at, hop, backend, owner>>
ctx     == <<status, known>>
stream  == <<producer, upstream, queue, heard, broken>>
reader  == <<body, told, left>>
ledger  == <<rows, bills>>
vars    == <<req, attempt, pc, resp, ctx, slot, called, sent, stream, reader, ledger>>

cur == <<at, hop>>

\* The candidates _handle_with_fallback goes through: each tag once.
CandidateLists ==
    {t \in SeqOf(Tags, MaxFallbacks + 1) : t # <<>> /\ IsInjective(t)}

Requests ==
    [stream : Modes, tags : CandidateLists,
     serves : [Tags \ UserTags -> Served]]

None == [a \in Attempts |-> 0]

Init ==
    /\ req \in Requests
    /\ at = 1 /\ hop = FALSE /\ pc = "resolving" /\ resp = "none"
    /\ backend = 0 /\ owner = "deployment"
    /\ status = "none" /\ known = FALSE
    /\ slot = {} /\ called = {} /\ sent = {}
    /\ producer = "none" /\ upstream = FALSE /\ queue = <<>>
    /\ heard = FALSE /\ broken = FALSE
    /\ body = "none" /\ told = FALSE /\ left = "no"
    /\ rows = None /\ bills = None

Tag    == req.tags[at]
Native == Tag \in NativeTags

\* native_backend_for and AdapterFactory.resolve: the first backend of the
\* priority list that serves the model and is not excluded.
First(exclude) ==
    LET able == req.serves[Tag] \ exclude IN IF able = {} THEN 0 ELSE Min(able)

-----------------------------------------------------------------------------
(* handle, up to the provider.                                              *)

Respond(r) == pc' = "answered" /\ resp' = r

\* Unknown, not allowed or inactive tags; the registry may also call a model
\* unavailable.
Unresolved ==
    /\ pc = "resolving"
    /\ \/ Respond("missing")
       \/ Tag \notin UserTags /\ Respond("unavailable")
    /\ UNCHANGED <<req, attempt, ctx, slot, called, sent, stream, reader, ledger>>

\* Rate limit, billing gate, policy, budgets and the cap on requests in flight,
\* which may take a slot.
Admit ==
    /\ pc = "resolving"
    /\ \/ Respond("denied") /\ UNCHANGED slot
       \/ /\ pc' = "planning" /\ UNCHANGED resp
          /\ slot' \in {slot, slot \union {at}}
    /\ UNCHANGED <<req, attempt, ctx, called, sent, stream, reader, ledger>>

\* ConnectionBlocked: answered at once, and the slot is not given back.
Blocked ==
    /\ pc = "planning" /\ Tag \notin UserTags
    /\ Respond("unavailable")
    /\ UNCHANGED <<req, attempt, ctx, slot, called, sent, stream, reader, ledger>>

\* A tenant's credential outranks the deployment's.
Plan ==
    /\ pc = "planning"
    /\ pc' = "preparing"
    /\ \/ /\ Tag \in UserTags
          /\ owner' = "byom"
          /\ backend' \in Backends
       \/ /\ Tag \notin UserTags
          /\ \/ owner' = "byok" /\ backend' \in Backends
             \/ owner' = "deployment" /\ backend' = First({})
    /\ UNCHANGED <<req, at, hop, resp, ctx, slot, called, sent, stream, reader, ledger>>

\* The effort asked for does not fit, or no backend serves the model.
Unprepared ==
    /\ pc = "preparing"
    /\ slot' = slot \ {at}
    /\ Respond("denied")
    /\ UNCHANGED <<req, attempt, ctx, called, sent, stream, reader, ledger>>

-----------------------------------------------------------------------------
(* Metering and hopping.                                                    *)

Succeeded == status = "ok" /\ known

\* _meter: a row whatever happened, and a debit for an answer with usage that
\* the deployment's credentials paid for.
Meter ==
    /\ rows' = [rows EXCEPT ![cur] = @ + 1]
    /\ bills' = IF Succeeded /\ owner = "deployment"
                THEN [bills EXCEPT ![cur] = @ + 1] ELSE bills

\* _failover_edge: another backend of the deployment serves the model.
CanHop ==
    /\ ~hop /\ Hops
    /\ owner = "deployment"
    /\ First({backend}) # 0

HopStatuses == {"fault", "throttled"}

\* The first attempt is metered and its ctx replaced by a fresh one.
HopNow ==
    /\ Meter
    /\ hop' = TRUE /\ backend' = First({backend})
    /\ status' = "none" /\ known' = FALSE
    /\ called' = called \union {<<at, TRUE>>}
    /\ UNCHANGED <<at, owner>>

-----------------------------------------------------------------------------
(* A request that does not stream.                                          *)

Call ==
    /\ pc = "preparing" /\ ~req.stream /\ backend # 0
    /\ pc' = "calling"
    /\ called' = called \union {cur}
    /\ UNCHANGED <<req, attempt, resp, ctx, slot, sent, stream, reader, ledger>>

\* The edge returns a result, whatever its status; the breaker or the transport
\* may stand in for one.
Result ==
    /\ pc = "calling"
    /\ pc' = "invoked"
    /\ \/ status' = "ok" /\ known' = TRUE
       \/ status' \in {"fault", "throttled", "client"} /\ known' = FALSE
       \/ owner # "deployment" /\ status' = "rejected" /\ known' = FALSE
    /\ UNCHANGED <<req, attempt, resp, slot, called, sent, stream, reader, ledger>>

HopInvoke ==
    /\ pc = "invoked" /\ status \in HopStatuses /\ CanHop
    /\ HopNow
    /\ pc' = "calling"
    /\ UNCHANGED <<req, resp, slot, sent, stream, reader>>

\* A tenant's rejected credential is answered with a 502; any other status is
\* passed on.
FinishInvoke ==
    /\ pc = "invoked" /\ ~(status \in HopStatuses /\ CanHop)
    /\ slot' = slot \ {at}
    /\ Meter
    /\ \/ status = "ok" /\ Respond("ok") /\ sent' = sent \union {cur}
       \/ status \in {"fault", "rejected"} /\ Respond("unavailable") /\ UNCHANGED sent
       \/ status = "client" /\ Respond("missing") /\ UNCHANGED sent
       \/ status \in {"client", "throttled"} /\ Respond("denied") /\ UNCHANGED sent
    /\ UNCHANGED <<req, attempt, ctx, called, stream, reader>>

\* _handle_with_fallback goes on with the next candidate.
Advances == resp \in {"unavailable", "missing"} /\ at < Len(req.tags)

NextCandidate ==
    /\ pc = "answered" /\ Advances
    /\ at' = at + 1 /\ hop' = FALSE
    /\ pc' = "resolving" /\ resp' = "none"
    /\ backend' = 0 /\ owner' = "deployment"
    /\ status' = "none" /\ known' = FALSE
    /\ UNCHANGED <<req, slot, called, sent, stream, reader, ledger>>

Return ==
    /\ pc = "answered" /\ ~Advances
    /\ pc' = "ended"
    /\ UNCHANGED <<req, attempt, resp, ctx, slot, called, sent, stream, reader, ledger>>

-----------------------------------------------------------------------------
(* A stream: the producer task (_produce, _pump and the edge).              *)

Open ==
    /\ pc = "preparing" /\ req.stream /\ backend # 0
    /\ pc' = "open" /\ resp' = "ok" /\ body' = "unstarted"
    /\ UNCHANGED <<req, attempt, ctx, slot, called, sent, stream, told, left, ledger>>

Start ==
    /\ body = "unstarted"
    /\ body' = "reading"
    /\ producer' = "pulling" /\ upstream' = TRUE
    /\ called' = called \union {cur}
    /\ UNCHANGED <<req, attempt, pc, resp, ctx, slot, sent, queue, heard, broken,
                   told, left, ledger>>

Started == body \notin {"none", "unstarted", "closed"}

Producing(at_) == Started /\ producer = at_

Space == Len(queue) < MaxQueue

Put(item) == Space /\ queue' = Append(queue, item)

\* The edge yields bytes.  A translating edge yields its message_start before
\* it calls the provider.
Emit ==
    /\ Producing("pulling")
    /\ producer' = "putting"
    /\ sent' = sent \union {cur}
    /\ heard' = (Native \/ cur \in sent)
    /\ UNCHANGED <<req, attempt, pc, resp, ctx, slot, called, upstream, queue,
                   broken, reader, ledger>>

PutChunk ==
    /\ Producing("putting")
    /\ Put("chunk")
    /\ producer' = "pulling"
    /\ UNCHANGED <<req, attempt, pc, resp, ctx, slot, called, sent, upstream,
                   heard, broken, reader, ledger>>

\* Usage is reported as the provider gives it, after the bytes that brought it
\* were passed on.
Report ==
    /\ Producing("pulling") /\ heard
    /\ status' = "ok" /\ known' = TRUE
    /\ UNCHANGED <<req, attempt, pc, resp, slot, called, sent, stream, reader, ledger>>

\* Mutant: the body is not told that the stream is over.
EndSilently ==
    /\ Producing("pulling") /\ (Native \/ cur \in sent)
    /\ status' = "ok" /\ known' \in {known \/ Native, TRUE}
    /\ producer' = "done" /\ upstream' = FALSE
    /\ UNCHANGED <<req, attempt, pc, resp, slot, called, sent, queue, heard,
                   broken, reader, ledger>>

\* The edge's stream runs out; what the native edge read always counts as
\* usage, a provider behind the translating one may never have given it.
EdgeEnds ==
    /\ Producing("pulling") /\ (Native \/ cur \in sent)
    /\ status' = "ok" /\ known' \in {known \/ Native, TRUE}
    /\ producer' = "ending" /\ upstream' = FALSE
    /\ UNCHANGED <<req, attempt, pc, resp, slot, called, sent, queue, heard,
                   broken, reader, ledger>>

\* Mutant: a stream that has begun hops too.
MayHopCommitted(s) == s \in HopStatuses /\ CanHop

\* A failure the producer may answer with a hop.
MayHop(s) == cur \notin sent /\ s \in HopStatuses /\ CanHop

\* What can be raised into the pump: a provider's refusal or a transport error
\* on the native edge, arguments the translating edge refuses, an open breaker.
Raised ==
    (IF Native THEN {"fault"} \union
         (IF cur \in sent THEN {}
          ELSE {"throttled", "client"} \union
               (IF owner = "deployment" THEN {} ELSE {"rejected"}))
     ELSE IF cur \in sent THEN {} ELSE {"client"})
    \union (IF owner = "deployment" /\ cur \notin sent THEN {"fault"} ELSE {})

\* Mutant: the error is dropped and the stream just ends.
PumpFailsQuietly ==
    /\ Producing("pulling")
    /\ upstream' = FALSE
    /\ \E s \in Raised :
           IF MayHop(s)
           THEN producer' = "hopping" /\ status' = s /\ known' = FALSE /\ UNCHANGED broken
           ELSE /\ producer' = "ending" /\ broken' = TRUE
                /\ IF cur \in sent THEN UNCHANGED ctx ELSE status' = s /\ known' = FALSE
    /\ UNCHANGED <<req, attempt, pc, resp, slot, called, sent, queue, heard, reader, ledger>>

\* Before the first chunk the ctx is told of the failure; after it the ctx
\* keeps what was reported.
PumpFails ==
    /\ Producing("pulling")
    /\ upstream' = FALSE
    /\ \E s \in Raised :
           IF MayHop(s)
           THEN producer' = "hopping" /\ status' = s /\ known' = FALSE /\ UNCHANGED broken
           ELSE /\ producer' = "raising" /\ broken' = TRUE
                /\ IF cur \in sent THEN UNCHANGED ctx ELSE status' = s /\ known' = FALSE
    /\ UNCHANGED <<req, attempt, pc, resp, slot, called, sent, queue, heard, reader, ledger>>

\* Once a translating edge has yielded, it turns the adapter's failure into an
\* error event of its own and ends.
EdgeFails ==
    /\ Producing("pulling") /\ ~Native /\ cur \in sent
    /\ status' \in {"fault", "throttled", "client"} /\ known' = FALSE
    /\ producer' = "telling" /\ upstream' = FALSE /\ broken' = TRUE
    /\ UNCHANGED <<req, attempt, pc, resp, slot, called, sent, queue, heard, reader, ledger>>

HopStream ==
    /\ Producing("hopping")
    /\ HopNow
    /\ producer' = "pulling" /\ upstream' = TRUE
    /\ UNCHANGED <<req, pc, resp, slot, sent, queue, heard, broken, reader>>

PutFailure ==
    /\ Started
    /\ \/ producer = "telling" /\ Put("fault")
       \/ producer = "raising" /\ Put("error")
    /\ producer' = "ending"
    /\ UNCHANGED <<req, attempt, pc, resp, ctx, slot, called, sent, upstream, heard,
                   broken, reader, ledger>>

PutEnd ==
    /\ producer = "cancelled" \/ Producing("ending")
    /\ Put("end")
    /\ producer' = "done"
    /\ UNCHANGED <<req, attempt, pc, resp, ctx, slot, called, sent, upstream, heard,
                   broken, reader, ledger>>

Cancellable == {"pulling", "putting", "telling", "hopping", "raising", "ending"}

\* The cancellation reaches the producer at its await: the pump closes the
\* edge's stream, and the task still has "end" to put.
Cancelled ==
    /\ body = "closed" /\ producer \in Cancellable
    /\ upstream' = FALSE
    /\ producer' = IF producer = "ending" THEN "done" ELSE "cancelled"
    /\ rows' \in {rows} \union
           (IF producer = "hopping" THEN {[rows EXCEPT ![cur] = @ + 1]} ELSE {})
    /\ UNCHANGED <<req, attempt, pc, resp, ctx, slot, called, sent, queue, heard,
                   broken, reader, bills>>

\* _keepalive; at most one ping waits in the queue here.
Ping ==
    /\ Started /\ "ping" \notin ToSet(queue)
    /\ Put("ping")
    /\ UNCHANGED <<req, attempt, pc, resp, ctx, slot, called, sent, producer,
                   upstream, heard, broken, reader, ledger>>

-----------------------------------------------------------------------------
(* A stream: the response body (_stream_with_heartbeat) and the client.     *)

\* A ping is passed on unless a chunk came since.
Get ==
    /\ body = "reading" /\ queue # <<>>
    /\ queue' = Tail(queue)
    /\ CASE Head(queue) = "ping"  -> body' \in {"reading", "yielding"} /\ UNCHANGED told
         [] Head(queue) = "chunk" -> body' = "yielding" /\ UNCHANGED told
         [] Head(queue) = "fault" -> body' = "yielding" /\ told' = TRUE
         [] Head(queue) = "error" -> body' = "last" /\ told' = TRUE
         [] Head(queue) = "end"   -> body' = "metering" /\ UNCHANGED told
    /\ UNCHANGED <<req, attempt, pc, resp, ctx, slot, called, sent, producer,
                   upstream, heard, broken, left, ledger>>

\* The client takes what was yielded.
Taken ==
    /\ \/ body = "yielding" /\ body' = "reading"
       \/ body = "last" /\ body' = "metering"
    /\ UNCHANGED <<req, attempt, pc, resp, ctx, slot, called, sent, stream, told,
                   left, ledger>>

MeterBody ==
    /\ body = "metering"
    /\ Meter
    /\ body' = "trailer"
    /\ UNCHANGED <<req, attempt, pc, resp, ctx, slot, called, sent, stream, told, left>>

\* The finally clause.
Close == body' = "closed" /\ pc' = "ended" /\ slot' = slot \ {at}

\* With or without the usage trailer.
Trailer ==
    /\ body = "trailer"
    /\ Close
    /\ UNCHANGED <<req, attempt, resp, ctx, called, sent, stream, told, left, ledger>>

\* Mutant: the stream is not metered.
LeaveUnmetered ==
    /\ Started
    /\ left' = body /\ Close
    /\ UNCHANGED <<req, attempt, resp, ctx, called, sent, stream, told, ledger>>

\* The client is gone: the body is cancelled at its await or closed at its
\* yield.  A stream not metered yet is metered by a task of its own; a metering
\* it was cancelled in may have left its row.
Leave ==
    /\ Started
    /\ left' = body /\ Close
    /\ \/ body = "trailer" /\ UNCHANGED ledger
       \/ body # "trailer" /\ Meter
       \/ /\ body = "metering"
          /\ rows' = [rows EXCEPT ![cur] = @ + 2]
          /\ bills' = IF Succeeded /\ owner = "deployment"
                      THEN [bills EXCEPT ![cur] = @ + 1] ELSE bills
    /\ UNCHANGED <<req, attempt, resp, ctx, called, sent, stream, told>>

\* Gone before the body took its first step, whose finally never runs.
LeaveUnstarted ==
    /\ body = "unstarted"
    /\ left' = body /\ body' = "closed" /\ pc' = "ended"
    /\ UNCHANGED <<req, attempt, resp, ctx, slot, called, sent, stream, told, ledger>>

-----------------------------------------------------------------------------
Handler ==
    \/ Unresolved \/ Admit \/ Blocked \/ Plan \/ Unprepared
    \/ Call \/ Result \/ HopInvoke \/ FinishInvoke \/ NextCandidate \/ Return
    \/ Open

EdgeStops == EdgeEnds \/ PumpFails \/ EdgeFails

Producer ==
    \/ Emit \/ PutChunk \/ Report \/ EdgeStops \/ HopStream \/ PutFailure
    \/ PutEnd \/ Cancelled

Body == Start \/ Get \/ Taken \/ MeterBody \/ Trailer

Next == Handler \/ Producer \/ Ping \/ Body \/ Leave \/ LeaveUnstarted

Spec == Init /\ [][Next]_vars

\* Every await of the handler ends; a client takes what it is sent or leaves; a
\* task that waits for room in the queue is served in turn; and no provider's
\* answer goes on for ever.
FairSpec ==
    /\ Spec
    /\ WF_vars(Handler)
    /\ WF_vars(Body)
    /\ SF_vars(Producer)
    /\ SF_vars(EdgeStops)

-----------------------------------------------------------------------------
(* Properties.                                                              *)

TypeOK ==
    /\ req \in Requests
    /\ at \in Candidates /\ hop \in BOOLEAN
    /\ pc \in {"resolving", "planning", "preparing", "calling", "invoked",
               "answered", "open", "ended"}
    /\ resp \in Responses
    /\ backend \in Backends \union {0} /\ owner \in Owners
    /\ status \in Statuses /\ known \in BOOLEAN
    /\ slot \subseteq Candidates
    /\ called \subseteq Attempts /\ sent \subseteq Attempts
    /\ producer \in Cancellable \union {"none", "cancelled", "done"}
    /\ upstream \in BOOLEAN /\ heard \in BOOLEAN /\ broken \in BOOLEAN
    /\ queue \in SeqOf({"chunk", "fault", "error", "end", "ping"}, MaxQueue)
    /\ body \in {"none", "unstarted", "reading", "yielding", "last", "metering",
                 "trailer", "closed"}
    /\ told \in BOOLEAN
    /\ left \in {"no", "unstarted", "reading", "yielding", "last", "metering",
                 "trailer"}
    /\ rows \in [Attempts -> Nat] /\ bills \in [Attempts -> Nat]

\* The attempts in the order they are made.
Turn(a) == 2 * (a[1] - 1) + (IF a[2] THEN 2 ELSE 1)

Commitment == INSTANCE Failover WITH
    Limit  <- 2 * (MaxFallbacks + 1),
    turn   <- Turn(cur),
    source <- {Turn(a) : a \in sent},
    over   <- pc = "ended"

\* An answer comes from one attempt: "Once a chunk is queued the stream is
\* committed" (core.py:318), and an answered candidate is the last.
OneSource == Commitment!Spec

\* A request is debited at most once, also when the client leaves while the
\* stream is being metered.
BilledOnce ==
    /\ \A a \in Attempts : bills[a] <= 1
    /\ \A a, b \in Attempts : bills[a] > 0 /\ bills[b] > 0 => a = b

\* An answer whose usage is known is debited to a user of the deployment's
\* keys, also when the client left it ("billed, not zero", core.py:776).
NeverFree ==
    pc = "ended" /\ cur \in called /\ Succeeded /\ owner = "deployment" =>
        bills[cur] = 1

\* Every attempt that went to a provider is in the ledger once the request is
\* over.
NeverSilent == pc = "ended" => \A a \in called : rows[a] > 0

\* A candidate that went to a provider has given its in-flight slot back when
\* the request moves on or ends.
SlotsReturned ==
    \A a \in called : a[1] \in slot => a[1] = at /\ pc # "ended"

\* What an attempt took and gave is accounted for: its bill, its row and its slot.
Accounted == BilledOnce /\ NeverFree /\ NeverSilent /\ SlotsReturned

\* A client that stays is told of a stream that failed, whichever of the edge,
\* the pump and the body the failure reached.
FailureTold ==
    pc = "ended" /\ left = "no" /\ broken => told

\* A request ends, whatever fails on the way.
Ends == <>(pc = "ended")

\* The provider's stream is closed after a client that left, "and every token
\* it keeps generating is billed" otherwise (core.py:357).
UpstreamClosed == left # "no" ~> ~upstream

\* Whatever a request began comes to an end: itself, and the provider's stream
\* behind a client that left.
Closes == Ends /\ UpstreamClosed
=============================================================================
