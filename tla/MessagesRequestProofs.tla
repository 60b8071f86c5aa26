----------------------- MODULE MessagesRequestProofs -----------------------
(***************************************************************************)
(* What a /v1/messages request guarantees for any number of models,        *)
(* backends and fallbacks, any length of the queue between producer and    *)
(* body, and wherever the client leaves.                                   *)
(***************************************************************************)
EXTENDS MessagesRequest, SequenceTheorems, WellFoundedInduction, TLAPS

Items  == {"chunk", "fault", "error", "end", "ping"}
Counts == [Attempts -> Nat]

\* There are no more candidates than places for them.
LEMMA CandidatesFit ==
    ASSUME NEW r \in Requests
    PROVE  /\ Len(r.tags) \in Candidates
           /\ \A i \in 1..Len(r.tags) : r.tags[i] \in Tags
<1>1. PICK m \in 0..(MaxFallbacks + 1) : r.tags \in [1..m -> Tags] /\ r.tags # <<>>
  BY DEF Requests, CandidateLists, SeqOf
<1>2. Len(r.tags) = m
  BY <1>1, MessagesAssumption
<1>3. m # 0
  BY <1>1, <1>2
<1>4. QED
  BY <1>1, <1>2, <1>3, MessagesAssumption DEF Candidates

\* A set of backends that is not empty has a first one.
LEMMA MinBackend ==
    ASSUME NEW S, S \subseteq Backends, S # {}
    PROVE  Min(S) \in S
<1>1. S \subseteq Nat
  BY MessagesAssumption
<1>2. \E x \in S : \A y \in S : ~ (<<y, x>> \in OpToRel(<, Nat))
  BY <1>1, NatLessThanWellFounded, WFMin, Zenon
<1>3. \E x \in S : \A y \in S : x =< y
  <2>1. PICK x \in S : \A y \in S : ~ (<<y, x>> \in OpToRel(<, Nat))
    BY <1>2
  <2>2. \A y \in S : ~ (y < x)
    BY <1>1, <2>1 DEF OpToRel
  <2>3. QED
    BY <1>1, <2>2
<1>4. QED
  BY <1>3 DEF Min

\* The queue holds items, and no more than it may.
LEMMA QueueIs ==
    ASSUME NEW q
    PROVE  q \in SeqOf(Items, MaxQueue) <=> q \in Seq(Items) /\ Len(q) =< MaxQueue
<1>0. MaxQueue \in Nat
  BY MessagesAssumption
<1>1. ASSUME q \in SeqOf(Items, MaxQueue)
      PROVE  q \in Seq(Items) /\ Len(q) =< MaxQueue
  <2>1. PICK m \in 0..MaxQueue : q \in [1..m -> Items]
    BY <1>1 DEF SeqOf
  <2>2. q \in Seq(Items) /\ Len(q) = m
    BY <1>0, <2>1
  <2>3. QED
    BY <1>0, <2>2
<1>2. ASSUME q \in Seq(Items), Len(q) =< MaxQueue
      PROVE  q \in SeqOf(Items, MaxQueue)
  <2>1. q \in [1..Len(q) -> Items] /\ Len(q) \in 0..MaxQueue
    BY <1>0, <1>2, LenProperties
  <2>2. QED
    BY <2>1 DEF SeqOf
<1>3. QED
  BY <1>1, <1>2

\* A bounded queue stays one when an item is put while there is space and when
\* its head is taken.
LEMMA BoundedQueue ==
    ASSUME NEW q \in SeqOf(Items, MaxQueue)
    PROVE  /\ \A x \in Items :
                  Len(q) < MaxQueue => Append(q, x) \in SeqOf(Items, MaxQueue)
           /\ q # <<>> => /\ Tail(q) \in SeqOf(Items, MaxQueue)
                          /\ Head(q) \in Items
<1>0. MaxQueue \in Nat /\ q \in Seq(Items) /\ Len(q) =< MaxQueue /\ Len(q) \in Nat
  BY QueueIs, MessagesAssumption, LenProperties
<1>1. ASSUME NEW x \in Items, Len(q) < MaxQueue
      PROVE  Append(q, x) \in SeqOf(Items, MaxQueue)
  <2>1. Append(q, x) \in Seq(Items) /\ Len(Append(q, x)) = Len(q) + 1
    BY <1>0, AppendProperties
  <2>2. Len(Append(q, x)) =< MaxQueue
    BY <1>0, <1>1, <2>1
  <2>3. QED
    BY <2>1, <2>2, QueueIs, Zenon
<1>2. ASSUME q # <<>>
      PROVE  Tail(q) \in SeqOf(Items, MaxQueue) /\ Head(q) \in Items
  <2>1. Head(q) \in Items /\ Tail(q) \in Seq(Items) /\ Len(Tail(q)) = Len(q) - 1
    BY <1>0, <1>2, HeadTailProperties
  <2>2. Len(Tail(q)) =< MaxQueue
    BY <1>0, <2>1
  <2>3. QED
    BY <2>1, <2>2, QueueIs, Zenon
<1>3. QED
  BY <1>1, <1>2

\* A hop is made for the deployment's own credentials.
HopOwned == producer = "hopping" => owner = "deployment"

\* Where the handler stands says which of the two tasks may move: the body runs
\* only while the response is open, the producer only while it runs or after it
\* was closed; and only a catalog model is served by the deployment.
Placed ==
    /\ at \in 1..Len(req.tags)
    /\ body \notin {"none", "closed"} <=> pc = "open"
    /\ body \in {"none", "unstarted"} => producer = "none" /\ queue = <<>>
    /\ body = "closed" => pc = "ended"
    /\ HopOwned
    /\ pc \in {"preparing", "calling", "invoked", "open"} /\ owner = "deployment" =>
           Tag \notin UserTags

Typed == TypeOK /\ Placed

\* What a catalog model is served by next is one of its backends.
LEMMA FirstServes ==
    ASSUME Typed, Tag \notin UserTags, NEW exclude
    PROVE  First(exclude) \in Backends \union {0}
<1>1. Tag \in Tags \ UserTags
  BY CandidatesFit DEF Typed, TypeOK, Placed, Tag
<1>2. req.serves[Tag] \subseteq Backends
  <2>1. req \in Requests
    BY DEF Typed, TypeOK
  <2>2. req.serves \in [Tags \ UserTags -> Served] /\ \A s \in Served : s \subseteq Backends
    BY <2>1, MessagesAssumption DEF Requests
  <2>3. QED
    BY <1>1, <2>2
<1>3. CASE req.serves[Tag] \ exclude = {}
  BY <1>3 DEF First
<1>4. CASE req.serves[Tag] \ exclude # {}
  <2>1. Min(req.serves[Tag] \ exclude) \in req.serves[Tag] \ exclude
    BY <1>2, <1>4, MinBackend
  <2>2. QED
    BY <1>2, <1>4, <2>1 DEF First
<1>5. QED
  BY <1>3, <1>4

\* A row or a debit more for the current attempt.
LEMMA CountsUp ==
    ASSUME TypeOK
    PROVE  /\ cur \in Attempts
           /\ \A n \in Nat : [rows EXCEPT ![cur] = @ + n] \in Counts
           /\ [rows EXCEPT ![cur] = @ + 1] \in Counts
           /\ [rows EXCEPT ![cur] = @ + 2] \in Counts
           /\ [bills EXCEPT ![cur] = @ + 1] \in Counts
           /\ rows \in Counts /\ bills \in Counts
<1>1. cur \in Attempts
  BY DEF TypeOK, Attempts, cur
<1>2. rows[cur] \in Nat /\ bills[cur] \in Nat
  BY <1>1 DEF TypeOK
<1>3. QED
  BY <1>1, <1>2 DEF TypeOK, Counts

\* Metering keeps both counts.
LEMMA MeterTyped ==
    ASSUME TypeOK, Meter
    PROVE  rows' \in Counts /\ bills' \in Counts
  BY CountsUp DEF Meter

\* Every step keeps the types.
LEMMA TypesKept ==
    ASSUME Typed, [Next]_vars
    PROVE  TypeOK'
<1> USE DEF Respond, attempt, ctx, stream, reader, ledger, Responses, Owners,
            Statuses, Cancellable
<1>0. TypeOK /\ Placed /\ cur \in Attempts
  BY CountsUp DEF Typed
<1>q. \A x \in Items : Put(x) => queue' \in SeqOf(Items, MaxQueue)
  BY <1>0, BoundedQueue DEF Put, Space, TypeOK, Items
<1>1. CASE Unresolved \/ Admit \/ Blocked \/ Unprepared \/ Return
  BY <1>0, <1>1 DEF TypeOK, Unresolved, Admit, Blocked, Unprepared, Return
<1>2. CASE Plan
  <2>1. Tag \notin UserTags => First({}) \in Backends \union {0}
    BY FirstServes
  <2>2. QED
    BY <1>0, <1>2, <2>1 DEF TypeOK, Plan
<1>3. CASE Call
  BY <1>0, <1>3 DEF TypeOK, Call
<1>3r. CASE Result
  <2>1. pc' = "invoked" /\ status' \in Statuses
    BY <1>3r DEF Result
  <2>2. known' \in BOOLEAN
    BY <1>3r DEF Result
  <2>3. UNCHANGED <<req, attempt, resp, slot, called, sent, stream, reader, ledger>>
    BY <1>3r DEF Result
  <2>4. QED
    BY <1>0, <2>1, <2>2, <2>3 DEF TypeOK
<1>4. CASE HopInvoke \/ HopStream
  <2>1. HopNow /\ owner = "deployment" /\ pc \in {"invoked", "open"}
    <3>1. CASE HopInvoke
      BY <3>1 DEF HopInvoke, CanHop
    <3>2. CASE HopStream
      BY <1>0, <3>2 DEF HopStream, Producing, Started, Placed, HopOwned
    <3>3. QED
      BY <1>4, <3>1, <3>2
  <2>2. rows' \in Counts /\ bills' \in Counts
    BY <1>0, <2>1, MeterTyped DEF HopNow
  <2>3. First({backend}) \in Backends \union {0}
    BY <1>0, <2>1, FirstServes DEF Placed
  <2>4. <<at, TRUE>> \in Attempts
    BY <1>0 DEF TypeOK, Attempts
  <2>5. /\ UNCHANGED <<req, at, owner, resp, slot, sent, queue, heard, broken, body, told, left>>
        /\ hop' = TRUE /\ backend' = First({backend}) /\ status' = "none" /\ known' = FALSE
        /\ called' = called \union {<<at, TRUE>>}
        /\ pc' \in {"calling", pc} /\ producer' \in {"pulling", producer}
        /\ upstream' \in {TRUE, upstream}
    BY <1>4 DEF HopInvoke, HopStream, HopNow
  <2>6. /\ backend' \in Backends \union {0} /\ called' \subseteq Attempts
        /\ hop' \in BOOLEAN /\ upstream' \in BOOLEAN
        /\ status' \in Statuses /\ known' \in BOOLEAN
        /\ pc' = "calling" \/ pc' = pc
        /\ producer' = "pulling" \/ producer' = producer
    BY <1>0, <2>3, <2>4, <2>5 DEF TypeOK
  <2>7. UNCHANGED <<req, at, owner, resp, slot, sent, queue, heard, broken, body, told, left>>
    BY <2>5
  <2>8. QED
    BY <1>0, <2>2, <2>6, <2>7 DEF TypeOK, Counts
<1>5. CASE FinishInvoke
  <2>1. rows' \in Counts /\ bills' \in Counts
    BY <1>0, <1>5, MeterTyped DEF FinishInvoke
  <2>2. QED
    BY <1>0, <1>5, <2>1 DEF TypeOK, FinishInvoke, Counts
<1>6. CASE NextCandidate
  <2>1. at + 1 \in Candidates
    BY <1>0, <1>6, CandidatesFit, MessagesAssumption
       DEF NextCandidate, Advances, TypeOK, Candidates
  <2>2. /\ at' \in Candidates /\ hop' \in BOOLEAN /\ pc' = "resolving"
        /\ resp' \in Responses /\ owner' \in Owners /\ status' \in Statuses
        /\ known' \in BOOLEAN /\ backend' \in Backends \union {0}
        /\ UNCHANGED <<req, slot, called, sent, stream, reader, ledger>>
    BY <1>6, <2>1 DEF NextCandidate
  <2>3. QED
    BY <1>0, <2>2 DEF TypeOK
<1>7. CASE Open \/ Start
  BY <1>0, <1>7 DEF TypeOK, Open, Start
<1>8. CASE Emit
  BY <1>0, <1>8 DEF TypeOK, Emit, Native
<1>9. CASE Report
  BY <1>0, <1>9 DEF TypeOK, Report
<1>10. CASE EdgeStops
  <2>1. known' \in BOOLEAN
    BY <1>0, <1>10 DEF EdgeStops, EdgeEnds, EdgeFails, PumpFails, TypeOK, Native
  <2>2. status' \in Statuses
    <3>1. \A s \in Raised : s \in Statuses
      BY DEF Raised
    <3>2. QED
      BY <1>0, <1>10, <3>1 DEF EdgeStops, EdgeEnds, EdgeFails, PumpFails, TypeOK
  <2>3. /\ upstream' \in BOOLEAN /\ broken' \in BOOLEAN
        /\ \/ producer' = "ending" \/ producer' = "hopping"
           \/ producer' = "raising" \/ producer' = "telling"
        /\ UNCHANGED <<req, attempt, pc, resp, slot, called, sent, queue, heard, reader,
                       ledger>>
    BY <1>0, <1>10 DEF EdgeStops, EdgeEnds, EdgeFails, PumpFails, TypeOK
  <2>4. QED
    BY <1>0, <2>1, <2>2, <2>3 DEF TypeOK
<1>11. CASE PutChunk \/ PutFailure \/ PutEnd \/ Ping
  <2>1. queue' \in SeqOf(Items, MaxQueue)
    BY <1>11, <1>q DEF PutChunk, PutFailure, PutEnd, Ping, Items
  <2>2. QED
    BY <1>0, <1>11, <2>1 DEF TypeOK, PutChunk, PutFailure, PutEnd, Ping, Items
<1>12. CASE Cancelled
  <2>1. rows' \in Counts
    BY <1>0, <1>12, CountsUp DEF Cancelled
  <2>2. /\ producer' = "done" \/ producer' = "cancelled"
        /\ upstream' \in BOOLEAN
        /\ UNCHANGED <<req, attempt, pc, resp, ctx, slot, called, sent, queue, heard,
                       broken, reader, bills>>
    BY <1>12 DEF Cancelled
  <2>3. QED
    BY <1>0, <2>1, <2>2 DEF TypeOK, Counts
<1>13. CASE Get
  <2>1. queue' \in SeqOf(Items, MaxQueue) /\ Head(queue) \in Items
    BY <1>0, <1>13, BoundedQueue DEF Get, TypeOK, Items
  <2>2. /\ body' \in {"reading", "yielding", "last", "metering"}
        /\ told' \in BOOLEAN
    BY <1>0, <1>13, <2>1 DEF Get, TypeOK, Items
  <2>3. QED
    BY <1>0, <1>13, <2>1, <2>2 DEF TypeOK, Get, Items
<1>14. CASE Taken \/ Trailer \/ LeaveUnstarted
  BY <1>0, <1>14 DEF TypeOK, Taken, Trailer, Close, LeaveUnstarted
<1>15. CASE MeterBody
  <2>1. rows' \in Counts /\ bills' \in Counts
    BY <1>0, <1>15, MeterTyped DEF MeterBody
  <2>2. QED
    BY <1>0, <1>15, <2>1 DEF TypeOK, MeterBody, Counts
<1>16. CASE Leave
  <2>1. rows' \in Counts /\ bills' \in Counts
    BY <1>0, <1>16, MeterTyped, CountsUp DEF Leave
  <2>2. QED
    BY <1>0, <1>16, <2>1 DEF TypeOK, Leave, Close, Started, Counts
<1>17. CASE UNCHANGED vars
  BY <1>0, <1>17 DEF vars, TypeOK
<1>18. QED
  BY <1>1, <1>2, <1>3, <1>3r, <1>4, <1>5, <1>6, <1>7, <1>8, <1>9, <1>10, <1>11,
     <1>12, <1>13, <1>14, <1>15, <1>16, <1>17 DEF Next, Handler, Producer, Body

\* Every step leaves the two tasks where the handler's place allows.
LEMMA PlacesKept ==
    ASSUME Typed, [Next]_vars
    PROVE  Placed'
<1> USE DEF Respond, attempt, ctx, stream, reader, ledger, Tag, HopOwned
<1>0. TypeOK /\ Placed
  BY DEF Typed
<1>1. CASE Unresolved \/ Admit \/ Blocked \/ Unprepared \/ Return
  BY <1>0, <1>1 DEF Placed, Unresolved, Admit, Blocked, Unprepared, Return
<1>1p. CASE Plan
  <2>1. /\ UNCHANGED <<req, at, body, producer, queue>> /\ pc = "planning" /\ pc' = "preparing"
        /\ owner' = "deployment" => Tag \notin UserTags
    BY <1>1p DEF Plan
  <2>2. producer # "hopping"
    BY <1>0, <2>1 DEF Placed
  <2>3. QED
    BY <1>0, <2>1, <2>2 DEF Placed
<1>2. CASE Call \/ Result \/ HopInvoke \/ FinishInvoke
  BY <1>0, <1>2 DEF Placed, Call, Result, HopInvoke, HopNow, FinishInvoke, CanHop
<1>3. CASE NextCandidate
  <2>1. at + 1 \in 1..Len(req.tags)
    BY <1>0, <1>3, CandidatesFit, MessagesAssumption
       DEF NextCandidate, Advances, TypeOK, Placed, Candidates
  <2>2. QED
    BY <1>0, <1>3, <2>1 DEF Placed, NextCandidate
<1>4. CASE Open \/ Start
  BY <1>0, <1>4 DEF Placed, Open, Start
<1>5. CASE Emit \/ Report \/ EdgeEnds \/ EdgeFails
  BY <1>0, <1>5 DEF Placed, Emit, Report, EdgeEnds, EdgeFails, Producing, Started
<1>6. CASE PumpFails
  BY <1>0, <1>6 DEF Placed, PumpFails, MayHop, CanHop, Producing, Started
<1>7. CASE HopStream
  BY <1>0, <1>7 DEF Placed, HopStream, HopNow, Producing, Started
<1>8. CASE PutChunk \/ PutFailure \/ PutEnd \/ Cancelled \/ Ping
  BY <1>0, <1>8 DEF Placed, PutChunk, PutFailure, PutEnd, Cancelled, Cancellable, Ping,
                    Producing, Started
<1>9. CASE Get
  <2>1. body = "reading" /\ body' \in {"reading", "yielding", "last", "metering"}
    <3>1. Head(queue) \in Items
      BY <1>0, <1>9, BoundedQueue DEF Get, TypeOK, Items
    <3>2. QED
      BY <1>9, <3>1 DEF Get, Items
  <2>2. QED
    BY <1>0, <1>9, <2>1 DEF Placed, Get
<1>10. CASE Taken \/ MeterBody \/ Trailer \/ Leave \/ LeaveUnstarted
  BY <1>0, <1>10 DEF Placed, Taken, MeterBody, Trailer, Leave, LeaveUnstarted, Close, Started
<1>11. CASE UNCHANGED vars
  BY <1>0, <1>11 DEF vars, Placed
<1>12. QED
  BY <1>1, <1>1p, <1>2, <1>3, <1>4, <1>5, <1>6, <1>7, <1>8, <1>9, <1>10, <1>11
     DEF Next, Handler, Producer, Body, EdgeStops

\* The types and places hold throughout.
LEMMA TypedAlways == Spec => []Typed
<1>1. Init => Typed
  <2> SUFFICES ASSUME Init PROVE Typed
    OBVIOUS
  <2> USE MessagesAssumption DEF Init
  <2>1. at \in 1..Len(req.tags) /\ at \in Candidates
    <3>1. Len(req.tags) \in Candidates
      BY CandidatesFit
    <3>2. QED
      BY <3>1 DEF Candidates
  <2>2. rows \in Counts /\ bills \in Counts
    BY DEF None, Counts
  <2>3. queue \in SeqOf(Items, MaxQueue)
    <3>1. <<>> \in Seq(Items) /\ Len(<<>>) = 0
      BY EmptySeq
    <3>2. 0 =< MaxQueue
      OBVIOUS
    <3>3. QED
      BY <3>1, <3>2, QueueIs, Zenon
  <2>4. QED
    BY <2>1, <2>2, <2>3
       DEF Typed, TypeOK, Placed, HopOwned, Responses, Owners, Statuses, Counts, Items
<1>2. Typed /\ [Next]_vars => Typed'
  BY TypesKept, PlacesKept DEF Typed
<1>3. QED
  BY <1>1, <1>2, PTL DEF Spec

\* The variables keep their types; in particular no candidate is tried beyond
\* the last one, and the producer is never further ahead than MaxQueue.
THEOREM TypeCorrect == Spec => []TypeOK
<1>1. Typed => TypeOK
  BY DEF Typed
<1>2. QED
  BY <1>1, TypedAlways, PTL

-----------------------------------------------------------------------------
(* What was put in the queue before the end.                                *)

Early == {"chunk", "fault", "ping"}
Over  == {"ending", "done", "cancelled"}

\* A producer that is not at its end has put neither an end nor an error, so
\* that the body still reads: what the body meters no longer changes.
Ordered ==
    pc = "open" /\ producer \notin Over =>
        queue \in Seq(Early) /\ body \in {"unstarted", "reading", "yielding"}

\* A queue of early items stays one when another is put or its head taken.
LEMMA EarlyQueue ==
    ASSUME NEW q \in Seq(Early)
    PROVE  /\ \A x \in Early : Append(q, x) \in Seq(Early)
           /\ q # <<>> => Tail(q) \in Seq(Early) /\ Head(q) \in Early
  BY AppendProperties, HeadTailProperties

\* What was put before the end stays before it.
LEMMA OrderedAlways == Spec => []Ordered
<1>1. Init => Ordered
  BY DEF Init, Ordered
<1>2. Typed /\ Ordered /\ [Next]_vars => Ordered'
  <2> SUFFICES ASSUME Typed, Ordered, [Next]_vars PROVE Ordered'
    OBVIOUS
  <2> USE DEF Respond, attempt, ctx, stream, reader, ledger
  <2>0. Placed
    BY DEF Typed
  <2>1. CASE Handler
    <3>1. CASE Open
      <4>1. queue = <<>> /\ <<>> \in Seq(Early)
        BY <2>0, <3>1, EmptySeq DEF Open, Placed
      <4>2. QED
        BY <3>1, <4>1 DEF Open, Ordered
    <3>2. CASE ~Open
      <4>1. pc' # "open"
        BY <2>1, <3>2 DEF Handler, Unresolved, Admit, Blocked, Plan, Unprepared, Call,
                          Result, HopInvoke, FinishInvoke, NextCandidate, Return
      <4>2. QED
        BY <4>1 DEF Ordered
    <3>3. QED
      BY <3>1, <3>2
  <2>2. CASE PutChunk \/ Ping
    <3>1. \E x \in Early : queue' = Append(queue, x)
      BY <2>2 DEF PutChunk, Ping, Put, Early
    <3>2. producer' \notin Over => producer \notin Over
      BY <2>2 DEF PutChunk, Ping, Producing, Over
    <3>3. UNCHANGED <<pc, body>>
      BY <2>2 DEF PutChunk, Ping
    <3>4. QED
      BY <3>1, <3>2, <3>3, EarlyQueue DEF Ordered
  <2>3. CASE PutFailure \/ PutEnd \/ Cancelled \/ EdgeEnds
    BY <2>3 DEF PutFailure, PutEnd, Cancelled, EdgeEnds, Ordered, Over
  <2>4. CASE Emit \/ Report \/ PumpFails \/ EdgeFails \/ HopStream
    <3>1. producer \notin Over /\ UNCHANGED <<pc, body, queue>>
      BY <2>4 DEF Emit, Report, PumpFails, EdgeFails, HopStream, Producing, Over
    <3>2. QED
      BY <3>1 DEF Ordered
  <2>5. CASE Get
    <3>0. UNCHANGED <<pc, producer>>
      BY <2>5 DEF Get
    <3>1. queue # <<>> /\ queue' = Tail(queue)
      BY <2>5 DEF Get
    <3>2. Head(queue) \in Early => body' \in {"reading", "yielding"}
      BY <2>5 DEF Get, Early
    <3>3. ASSUME pc = "open", producer \notin Over
          PROVE  queue' \in Seq(Early) /\ body' \in {"reading", "yielding"}
      BY <3>1, <3>2, <3>3, EarlyQueue DEF Ordered
    <3>4. (queue \in Seq(Early))' <=> queue' \in Seq(Early)
      BY DEF Early
    <3>5. QED
      BY <3>0, <3>3, <3>4 DEF Ordered, Over
  <2>6. CASE Start \/ Taken \/ MeterBody
    <3>1. Start => producer \notin Over
      BY <2>0 DEF Start, Placed, Over
    <3>2. UNCHANGED <<pc, queue>>
      BY <2>6 DEF Start, Taken, MeterBody
    <3>3. CASE Start
      BY <3>1, <3>2, <3>3 DEF Start, Ordered
    <3>4. CASE Taken \/ MeterBody
      BY <3>2, <3>4 DEF Taken, MeterBody, Ordered, Over
    <3>5. QED
      BY <2>6, <3>3, <3>4
  <2>7. CASE Trailer \/ Leave \/ LeaveUnstarted
    BY <2>7 DEF Trailer, Leave, LeaveUnstarted, Close, Ordered
  <2>8. CASE UNCHANGED vars
    BY <2>8 DEF vars, Ordered
  <2>9. QED
    BY <2>1, <2>2, <2>3, <2>4, <2>5, <2>6, <2>7, <2>8
       DEF Next, Producer, EdgeStops, Body
<1>3. QED
  BY <1>1, <1>2, TypedAlways, PTL DEF Spec

-----------------------------------------------------------------------------
(* One answer and one bill.                                                 *)

Answered == pc \in {"open", "ended"} \/ (pc = "answered" /\ resp = "ok")
Metered  == pc = "ended" \/ body = "trailer" \/ (pc = "answered" /\ resp = "ok")

\* Only the current attempt has sent anything; a hop is made while it has not,
\* and for a failure; and only a response that is over has been billed.
Committed ==
    /\ sent \subseteq {cur}
    /\ sent # {} => Answered
    /\ producer = "hopping" => cur \notin sent /\ ~hop /\ status \in HopStatuses
    /\ \A a \in Attempts : bills[a] > 0 => a = cur /\ bills[a] = 1 /\ Metered

\* Metering bills the current attempt, and only an answer with usage.
LEMMA MeterBills ==
    ASSUME TypeOK, Meter
    PROVE  /\ Succeeded /\ owner = "deployment" =>
                  \A a \in Attempts : bills'[a] = IF a = cur THEN bills[a] + 1 ELSE bills[a]
           /\ ~(Succeeded /\ owner = "deployment") => bills' = bills
  BY DEF Meter, TypeOK

\* A hop is made before anything was sent or billed.
LEMMA HopIsFree ==
    ASSUME Typed, Ordered, Committed, HopInvoke \/ HopStream
    PROVE  /\ sent = {} /\ bills' = bills
           /\ \A a \in Attempts : bills[a] = 0
           /\ pc \in {"invoked", "open"} /\ ~hop
<1>1. TypeOK /\ Placed /\ HopNow
  BY DEF Typed, HopInvoke, HopStream
<1>2. pc \in {"invoked", "open"} /\ sent = {} /\ ~hop /\ body # "trailer"
  <2>1. CASE HopInvoke
    BY <1>1, <2>1 DEF HopInvoke, CanHop, Committed, Answered, Placed
  <2>2. CASE HopStream
    BY <1>1, <2>2 DEF HopStream, Producing, Started, Committed, Placed, Ordered, Over
  <2>3. QED
    BY <2>1, <2>2
<1>3. \A a \in Attempts : bills[a] = 0
  BY <1>1, <1>2 DEF Committed, Metered, TypeOK
<1>4. ~Succeeded
  BY DEF HopInvoke, HopStream, Producing, Committed, HopStatuses, Succeeded
<1>5. bills' = bills
  BY <1>1, <1>4, MeterBills DEF HopNow
<1>6. QED
  BY <1>2, <1>3, <1>5

\* The answer and the bill belong to one attempt throughout.
LEMMA CommittedAlways == Spec => []Committed
<1>1. Init => Committed
  BY DEF Init, Committed, None
<1>2. Typed /\ Ordered /\ Committed /\ [Next]_vars => Committed'
  <2> SUFFICES ASSUME Typed, Ordered, Committed, [Next]_vars PROVE Committed'
    OBVIOUS
  <2> USE DEF Respond, attempt, ctx, stream, reader, ledger, Answered, Metered
  <2>0. TypeOK /\ Placed
    BY DEF Typed
  <2>1. CASE Unresolved \/ Admit \/ Blocked \/ Unprepared \/ Plan \/ Call \/ Result \/ Open
    BY <2>0, <2>1 DEF Committed, Placed, Unresolved, Admit, Blocked, Unprepared, Plan,
                      Call, Result, Open, cur
  <2>2. CASE NextCandidate \/ Return
    <3>1. CASE Return
      BY <3>1 DEF Committed, Return, cur
    <3>2. CASE NextCandidate
      <4>1. sent = {} /\ \A a \in Attempts : bills[a] = 0
        BY <2>0, <3>2 DEF NextCandidate, Advances, Committed, TypeOK, Placed
      <4>2. producer = "none"
        BY <2>0, <3>2 DEF NextCandidate, Placed
      <4>3. QED
        BY <3>2, <4>1, <4>2 DEF NextCandidate, Committed
    <3>3. QED
      BY <2>2, <3>1, <3>2
  <2>3. CASE HopInvoke \/ HopStream
    <3>1. sent = {} /\ bills' = bills /\ \A a \in Attempts : bills[a] = 0
      BY <2>3, HopIsFree
    <3>2. producer' # "hopping" /\ sent' = sent
      BY <2>0, <2>3 DEF HopInvoke, HopStream, Placed
    <3>3. QED
      BY <3>1, <3>2 DEF Committed
  <2>4. CASE FinishInvoke
    <3>1. \A a \in Attempts : bills[a] = 0
      BY <2>0, <2>4 DEF FinishInvoke, Committed, TypeOK, Placed
    <3>2. \A a \in Attempts : bills'[a] > 0 => a = cur /\ bills'[a] = 1 /\ status = "ok"
      BY <2>0, <2>4, <3>1, MeterBills DEF FinishInvoke, Succeeded
    <3>3. status = "ok" => pc' = "answered" /\ resp' = "ok"
      BY <2>4 DEF FinishInvoke
    <3>4. /\ UNCHANGED <<cur, producer>> /\ producer # "hopping"
          /\ sent' \subseteq {cur} /\ (sent' # {} => pc' = "answered" /\ resp' = "ok")
      BY <2>0, <2>4 DEF FinishInvoke, Committed, Placed, cur
    <3>5. QED
      BY <3>2, <3>3, <3>4 DEF Committed
  <2>5. CASE Start \/ Get \/ Taken \/ Trailer \/ LeaveUnstarted
    <3>1. UNCHANGED <<cur, status, sent, bills, hop>> /\ (Metered => Metered')
      BY <2>5 DEF Start, Get, Taken, Trailer, LeaveUnstarted, Close, cur
    <3>2. Answered' /\ (producer' = "hopping" => producer = "hopping")
      BY <2>0, <2>5 DEF Start, Get, Taken, Trailer, LeaveUnstarted, Close, Placed
    <3>3. QED
      BY <3>1, <3>2 DEF Committed
  <2>6. CASE Emit \/ PutChunk \/ Report \/ EdgeEnds \/ EdgeFails
    <3>1. pc = "open" /\ UNCHANGED <<cur, pc, body, bills, resp>>
      BY <2>0, <2>6 DEF Emit, PutChunk, Report, EdgeEnds, EdgeFails, Producing, Started,
                        Placed, cur
    <3>2. producer' # "hopping" /\ sent' \in {sent, sent \union {cur}}
      BY <2>6 DEF Emit, PutChunk, Report, EdgeEnds, EdgeFails, Producing
    <3>3. QED
      BY <3>1, <3>2 DEF Committed
  <2>7. CASE PumpFails
    <3>1. UNCHANGED <<cur, pc, body, bills, resp, sent, hop>>
      BY <2>7 DEF PumpFails, cur
    <3>2. producer' = "hopping" => cur \notin sent /\ ~hop /\ status' \in HopStatuses
      BY <2>7 DEF PumpFails, MayHop, CanHop
    <3>3. QED
      BY <3>1, <3>2 DEF Committed
  <2>8. CASE PutFailure \/ PutEnd \/ Cancelled \/ Ping
    <3>1. UNCHANGED <<cur, pc, body, bills, resp, sent, hop, status>>
      BY <2>8 DEF PutFailure, PutEnd, Cancelled, Ping, cur
    <3>2. producer' = "hopping" => producer = "hopping"
      BY <2>8 DEF PutFailure, PutEnd, Cancelled, Ping
    <3>3. QED
      BY <3>1, <3>2 DEF Committed
  <2>9. CASE MeterBody \/ Leave
    <3>1. /\ UNCHANGED <<cur, sent, hop, status, producer>> /\ pc = "open"
          /\ pc' \in {"open", "ended"} /\ Metered'
      BY <2>0, <2>9 DEF MeterBody, Leave, Close, Started, Placed, cur
    <3>2. \A a \in Attempts : bills'[a] > 0 => a = cur /\ bills'[a] = 1
      <4>1. CASE body = "trailer"
        BY <2>9, <4>1 DEF MeterBody, Leave, Committed
      <4>2. CASE body # "trailer"
        <5>1. \A a \in Attempts : bills[a] = 0
          BY <2>0, <3>1, <4>2 DEF Committed, TypeOK
        <5>2. \/ bills' = bills
              \/ \A a \in Attempts : bills'[a] = IF a = cur THEN bills[a] + 1 ELSE bills[a]
          BY <2>0, <2>9, MeterBills DEF MeterBody, Leave, TypeOK
        <5>3. QED
          BY <5>1, <5>2
      <4>3. QED
        BY <4>1, <4>2
    <3>3. QED
      BY <3>1, <3>2 DEF Committed
  <2>10. CASE UNCHANGED vars
    BY <2>10 DEF vars, Committed, cur
  <2>11. QED
    BY <2>1, <2>2, <2>3, <2>4, <2>5, <2>6, <2>7, <2>8, <2>9, <2>10
       DEF Next, Handler, Producer, EdgeStops, Body
<1>3. QED
  BY <1>1, <1>2, TypedAlways, OrderedAlways, PTL DEF Spec

\* A request is debited at most once, wherever its client leaves.
THEOREM DebitedOnce == Spec => []BilledOnce
<1>1. Typed /\ Committed => BilledOnce
  BY DEF Typed, TypeOK, Committed, BilledOnce
<1>2. QED
  BY <1>1, TypedAlways, CommittedAlways, PTL

\* Every step of a request is one of the abstract failover, or leaves it alone.
THEOREM ImplementsFailover == Spec => OneSource
<1> DEFINE turns == {Turn(a) : a \in sent}
<1>1. Init => Commitment!Init
  BY DEF Init, Commitment!Init, Turn, cur
<1>2. Typed /\ Ordered /\ Committed /\ Typed' /\ [Next]_vars =>
          [Commitment!Next]_(Commitment!vars)
  <2> SUFFICES ASSUME Typed, Ordered, Committed, Typed', [Next]_vars
               PROVE  [Commitment!Next]_(Commitment!vars)
    OBVIOUS
  <2> USE DEF Respond, attempt, ctx, stream, reader, ledger
  <2>0. TypeOK /\ Placed
    BY DEF Typed
  <2>1. ASSUME UNCHANGED <<at, hop, sent>>, pc # "ended" \/ pc' = pc
        PROVE  [Commitment!Next]_(Commitment!vars)
    <3>1. UNCHANGED <<Turn(cur), turns>>
      BY <2>1 DEF Turn, cur
    <3>2. CASE pc' = "ended" /\ pc # "ended"
      BY <2>1, <3>1, <3>2 DEF Commitment!Next, Commitment!End
    <3>3. CASE pc' # "ended" \/ pc = "ended"
      BY <2>1, <3>1, <3>3 DEF Commitment!vars
    <3>4. QED
      BY <3>2, <3>3
  <2>2. ASSUME UNCHANGED <<at, hop>>, pc # "ended", sent' = sent \union {cur}
        PROVE  [Commitment!Next]_(Commitment!vars)
    <3>1. turns \subseteq {Turn(cur)} /\ turns' = {Turn(cur)} /\ UNCHANGED Turn(cur)
      BY <2>2 DEF Committed, Turn, cur
    <3>2. (pc' = "ended") \in BOOLEAN
      OBVIOUS
    <3>3. QED
      BY <2>2, <3>1, <3>2 DEF Commitment!Next, Commitment!Send
  <2>3. CASE Unresolved \/ Admit \/ Blocked \/ Plan \/ Unprepared \/ Call \/ Result
    BY <2>1, <2>3 DEF Unresolved, Admit, Blocked, Plan, Unprepared, Call, Result
  <2>4. CASE Return \/ Open \/ Start \/ Get \/ Taken \/ MeterBody \/ Trailer
    <3>1. UNCHANGED <<at, hop, sent>>
      BY <2>4 DEF Return, Open, Start, Get, Taken, MeterBody, Trailer
    <3>2. pc # "ended"
      BY <2>0, <2>4 DEF Return, Open, Start, Get, Taken, MeterBody, Trailer, Placed
    <3>3. QED
      BY <2>1, <3>1, <3>2
  <2>5. CASE FinishInvoke
    BY <2>1, <2>2, <2>5 DEF FinishInvoke
  <2>6. CASE Leave \/ LeaveUnstarted
    <3>1. UNCHANGED <<at, hop, sent>> /\ pc # "ended"
      BY <2>0, <2>6 DEF Leave, LeaveUnstarted, Started, Placed
    <3>2. QED
      BY <2>1, <3>1
  <2>7. CASE Emit
    <3>1. UNCHANGED <<at, hop>> /\ pc # "ended" /\ sent' = sent \union {cur}
      BY <2>0, <2>7 DEF Emit, Producing, Started, Placed
    <3>2. QED
      BY <2>2, <3>1
  <2>8. CASE PutChunk \/ Report \/ EdgeStops \/ PutFailure \/ PutEnd \/ Cancelled \/ Ping
    <3>1. UNCHANGED <<at, hop, sent, pc>>
      BY <2>8 DEF PutChunk, Report, EdgeStops, EdgeEnds, PumpFails, EdgeFails,
                  PutFailure, PutEnd, Cancelled, Ping
    <3>2. QED
      BY <2>1, <3>1
  <2>9. ASSUME sent = {}, sent' = sent, pc # "ended", pc' # "ended",
               \/ at' = at /\ ~hop /\ hop'
               \/ at' = at + 1 /\ ~hop'
        PROVE  [Commitment!Next]_(Commitment!vars)
    <3>1. at \in Candidates /\ at' \in Candidates /\ hop \in BOOLEAN /\ hop' \in BOOLEAN
      BY DEF Typed, TypeOK
    <3>2. Turn(cur)' \in (Turn(cur) + 1)..(2 * (MaxFallbacks + 1))
      <4>1. /\ hop => Turn(cur) = 2 * at
            /\ ~hop => Turn(cur) = 2 * at - 1
            /\ hop' => Turn(cur)' = 2 * at'
            /\ ~hop' => Turn(cur)' = 2 * at' - 1
        BY <3>1, MessagesAssumption DEF Turn, cur, Candidates
      <4>2. /\ at \in 1..(MaxFallbacks + 1)
            /\ at' \in 1..(MaxFallbacks + 1)
        BY <3>1 DEF Candidates
      <4>3. CASE at' = at /\ ~hop /\ hop'
        BY <4>1, <4>2, <4>3, MessagesAssumption
      <4>4. CASE at' = at + 1 /\ ~hop'
        BY <3>1, <4>1, <4>2, <4>4, MessagesAssumption
      <4>5. QED
        BY <2>9, <4>3, <4>4
    <3>3. turns = {} /\ turns' = turns
      BY <2>9
    <3>4. QED
      BY <2>9, <3>2, <3>3 DEF Commitment!Next, Commitment!MoveOn
  <2>10. CASE HopInvoke \/ HopStream
    <3>1. sent = {} /\ pc \in {"invoked", "open"} /\ ~hop
      BY <2>10, HopIsFree
    <3>2. /\ sent' = sent /\ at' = at /\ hop' /\ pc' \in {"calling", pc}
      BY <2>10 DEF HopInvoke, HopStream, HopNow
    <3>3. QED
      BY <2>9, <3>1, <3>2
  <2>11. CASE NextCandidate
    <3>1. sent = {} /\ sent' = sent /\ pc # "ended" /\ pc' # "ended"
      BY <2>11 DEF NextCandidate, Advances, Committed, Answered
    <3>2. at' = at + 1 /\ ~hop'
      BY <2>11 DEF NextCandidate
    <3>3. QED
      BY <2>9, <3>1, <3>2
  <2>12. CASE UNCHANGED vars
    BY <2>12 DEF vars, Commitment!vars, Turn, cur
  <2>13. QED
    BY <2>3, <2>4, <2>5, <2>6, <2>7, <2>8, <2>10, <2>11, <2>12
       DEF Next, Handler, Producer, Body
<1>3. QED
  BY <1>1, <1>2, TypedAlways, OrderedAlways, CommittedAlways, PTL
     DEF Spec, OneSource, Commitment!Spec

-----------------------------------------------------------------------------
(* What an attempt leaves behind: its row, its bill and its slot.           *)

Serving == pc \in {"calling", "invoked", "open"}
Closing == pc \in {"answered", "ended"} \/ body = "trailer"

\* A candidate goes to a provider after those before it; while it does it may
\* hold its slot, and its last attempt may have no row; then it has both a row
\* and, for an answer with usage on the deployment's keys, a bill.
Accounts ==
    /\ \A a \in called : a[1] =< at
    /\ pc \in {"resolving", "planning", "preparing"} \/ body = "unstarted" =>
           \A a \in called : a[1] # at
    /\ \A a \in called : a[1] \in slot => a[1] = at /\ Serving
    /\ \A a \in called : rows[a] = 0 => a = cur /\ Serving /\ body # "trailer"
    /\ Closing /\ cur \in called /\ Succeeded /\ owner = "deployment" => bills[cur] = 1

\* The current attempt is one of the current candidate.
LEMMA CurIs ==
    ASSUME TypeOK
    PROVE  cur \in Attempts /\ cur[1] = at /\ <<at, TRUE>>[1] = at
  BY DEF TypeOK, cur, Attempts

\* Metering leaves a row for the current attempt, and takes none away.
LEMMA MeterRows ==
    ASSUME TypeOK, Meter
    PROVE  /\ rows'[cur] > 0
           /\ \A a \in Attempts : rows'[a] = 0 => rows[a] = 0
<1>1. cur \in Attempts /\ rows \in [Attempts -> Nat]
  BY CurIs DEF TypeOK
<1>2. QED
  BY <1>1 DEF Meter

\* Metering an open or invoked attempt bills it once.
LEMMA MeterSettles ==
    ASSUME Typed, Committed, Meter, pc \in {"invoked", "open"}, body # "trailer",
           Succeeded, owner = "deployment"
    PROVE  bills'[cur] = 1
<1>1. cur \in Attempts /\ bills[cur] \in Nat
  BY CurIs DEF Typed, TypeOK
<1>2. ~ (bills[cur] > 0)
  BY <1>1 DEF Committed, Metered
<1>3. bills'[cur] = bills[cur] + 1
  BY <1>1, MeterBills DEF Typed
<1>4. QED
  BY <1>1, <1>2, <1>3

\* Rows, bills and slots are accounted for throughout.
LEMMA AccountsAlways == Spec => []Accounts
<1>1. Init => Accounts
  BY DEF Init, Accounts
<1>2. Typed /\ Ordered /\ Committed /\ Accounts /\ [Next]_vars => Accounts'
  <2> SUFFICES ASSUME Typed, Ordered, Committed, Accounts, [Next]_vars PROVE Accounts'
    OBVIOUS
  <2> USE DEF Respond, attempt, ctx, stream, reader, ledger, Serving, Closing, Succeeded
  <2>0. TypeOK /\ Placed /\ cur \in Attempts /\ cur[1] = at /\ <<at, TRUE>>[1] = at
    BY CurIs DEF Typed
  <2>1. CASE Unresolved \/ Admit \/ Blocked \/ Unprepared \/ Plan
    <3>1. /\ UNCHANGED <<cur, at, called, rows, bills, body>>
          /\ slot' \subseteq slot \union {at}
          /\ pc \in {"resolving", "planning", "preparing"}
      BY <2>1 DEF Unresolved, Admit, Blocked, Unprepared, Plan, cur
    <3>2. \A a \in called : a[1] < at \/ a[1] > at
      BY <2>0, <3>1 DEF Accounts, TypeOK, Attempts, Candidates
    <3>3. cur \notin called /\ (\A a \in called : a[1] # at /\ a[1] \notin slot')
      BY <2>0, <3>1 DEF Accounts
    <3>4. QED
      BY <3>1, <3>3 DEF Accounts
  <2>2. CASE Call \/ Result \/ Open
    BY <2>0, <2>2 DEF Accounts, Call, Result, Open, Placed, cur
  <2>3. CASE Return
    BY <2>0, <2>3 DEF Accounts, Return, Placed, cur
  <2>4. CASE NextCandidate
    <3>1. \A a \in called : a[1] =< at' /\ a[1] # at'
      BY <2>0, <2>4 DEF Accounts, NextCandidate, TypeOK, Attempts, Candidates
    <3>2. \A a \in called : a[1] \notin slot /\ rows[a] # 0
      BY <2>4 DEF Accounts, NextCandidate
    <3>3. body = "none"
      BY <2>0, <2>4 DEF NextCandidate, Placed
    <3>4. QED
      BY <2>4, <3>1, <3>2, <3>3 DEF Accounts, NextCandidate
  <2>5. CASE HopInvoke \/ HopStream
    <3>1. /\ Meter /\ called' = called \union {cur'} /\ cur' = <<at, TRUE>>
          /\ UNCHANGED <<at, slot, body>> /\ status' = "none"
      BY <2>5 DEF HopInvoke, HopStream, HopNow, cur
    <3>2. pc' \in {"calling", "open"} /\ body \notin {"unstarted", "trailer"}
      BY <2>0, <2>5 DEF HopInvoke, HopStream, Producing, Started, Placed, Ordered, Over
    <3>3. \A a \in called : rows'[a] # 0
      BY <2>0, <3>1, MeterRows DEF Accounts, TypeOK
    <3>4. \A a \in called' : a[1] =< at /\ (a[1] \in slot => a[1] = at)
      <4>1. at =< at
        BY <2>0, MessagesAssumption DEF TypeOK, Candidates
      <4>2. QED
        BY <2>0, <3>1, <4>1 DEF Accounts
    <3>5. QED
      BY <3>1, <3>2, <3>3, <3>4 DEF Accounts
  <2>6. CASE FinishInvoke
    <3>1. /\ Meter /\ UNCHANGED <<at, hop, cur, called, body, status, known, owner>>
          /\ pc = "invoked" /\ pc' = "answered" /\ slot' = slot \ {at} /\ body = "none"
      BY <2>0, <2>6 DEF FinishInvoke, Placed, cur
    <3>2. \A a \in called : rows'[a] # 0
      BY <2>0, <3>1, MeterRows DEF Accounts, TypeOK
    <3>3. Succeeded /\ owner = "deployment" => bills'[cur] = 1
      BY <3>1, MeterSettles
    <3>4. QED
      BY <3>1, <3>2, <3>3 DEF Accounts
  <2>7. CASE Start
    BY <2>0, <2>7 DEF Accounts, Start, Placed, cur, TypeOK, Candidates
  <2>8. CASE Emit \/ PutChunk \/ Report \/ EdgeStops \/ Ping \/ PutFailure \/ PutEnd
             \/ Cancelled
    <3>1. UNCHANGED <<cur, at, owner, pc, body, called, slot, bills>>
      BY <2>8 DEF Emit, PutChunk, Report, EdgeStops, EdgeEnds, PumpFails, EdgeFails,
                  Ping, PutFailure, PutEnd, Cancelled, cur
    <3>2. \A a \in called : rows'[a] = 0 => rows[a] = 0
      <4>1. CASE Cancelled
        BY <2>0, <4>1 DEF Cancelled, TypeOK
      <4>2. CASE ~Cancelled
        BY <2>8, <4>2 DEF Emit, PutChunk, Report, EdgeStops, EdgeEnds, PumpFails,
                          EdgeFails, Ping, PutFailure, PutEnd
      <4>3. QED
        BY <4>1, <4>2
    <3>3. UNCHANGED <<status, known>> \/ ~Closing
      BY <2>0, <2>8 DEF Emit, PutChunk, Report, EdgeStops, EdgeEnds, PumpFails, EdgeFails,
                        Ping, PutFailure, PutEnd, Cancelled, Producing, Started, Placed,
                        Ordered, Over
    <3>4. QED
      BY <3>1, <3>2, <3>3 DEF Accounts
  <2>9. CASE Get \/ Taken
    <3>1. /\ UNCHANGED <<cur, at, owner, pc, called, slot, rows, bills, status, known>>
          /\ pc = "open" /\ body # "trailer"
      BY <2>0, <2>9 DEF Get, Taken, Placed, cur
    <3>2. body' \in {"reading", "yielding", "last", "metering"}
      <4>1. Get => Head(queue) \in Items
        BY <2>0, BoundedQueue DEF Get, TypeOK, Items
      <4>2. QED
        BY <2>9, <4>1 DEF Get, Taken, Items
    <3>3. QED
      BY <3>1, <3>2 DEF Accounts
  <2>10. CASE MeterBody \/ Leave \/ Trailer
    <3>1. /\ UNCHANGED <<cur, at, owner, called, status, known>>
          /\ pc = "open" /\ body # "unstarted" /\ body' # "unstarted"
      BY <2>0, <2>10 DEF MeterBody, Leave, Trailer, Started, Close, Placed, cur
    <3>2. \A a \in called : rows'[a] # 0
      <4>1. CASE body = "trailer"
        BY <2>10, <4>1 DEF MeterBody, Leave, Trailer, Accounts
      <4>2. CASE body # "trailer" /\ Meter
        BY <2>0, <4>2, MeterRows DEF Accounts, TypeOK
      <4>3. CASE rows' = [rows EXCEPT ![cur] = @ + 2]
        BY <2>0, <4>3 DEF Accounts, TypeOK
      <4>4. QED
        BY <2>10, <4>1, <4>2, <4>3 DEF MeterBody, Leave, Trailer
    <3>3. cur \in called /\ Succeeded /\ owner = "deployment" => bills'[cur] = 1
      <4>1. CASE body = "trailer"
        BY <2>10, <4>1 DEF MeterBody, Leave, Trailer, Accounts
      <4>2. CASE body # "trailer" /\ Meter
        BY <3>1, <4>2, MeterSettles
      <4>3. CASE /\ body = "metering"
                 /\ bills' = IF Succeeded /\ owner = "deployment"
                             THEN [bills EXCEPT ![cur] = @ + 1] ELSE bills
        <5>1. bills[cur] \in Nat /\ ~ (bills[cur] > 0)
          BY <2>0, <3>1, <4>3 DEF Committed, Metered, TypeOK
        <5>2. QED
          BY <2>0, <4>3, <5>1 DEF TypeOK
      <4>4. QED
        BY <2>10, <4>1, <4>2, <4>3 DEF MeterBody, Leave, Trailer
    <3>4. \/ pc' = "open" /\ slot' = slot
          \/ pc' = "ended" /\ slot' = slot \ {at}
      BY <3>1, <2>10 DEF MeterBody, Leave, Trailer, Close
    <3>5. QED
      BY <2>0, <3>1, <3>2, <3>3, <3>4 DEF Accounts
  <2>11. CASE LeaveUnstarted
    <3>1. \A a \in called : a[1] # at /\ a[1] \notin slot /\ rows[a] # 0
      BY <2>0, <2>11 DEF Accounts, LeaveUnstarted
    <3>2. cur \notin called /\ UNCHANGED <<cur, at, called, slot, rows>> /\ body' = "closed"
      BY <2>0, <2>11, <3>1 DEF LeaveUnstarted, cur
    <3>3. QED
      BY <3>1, <3>2 DEF Accounts
  <2>12. CASE UNCHANGED vars
    BY <2>12 DEF vars, Accounts, cur
  <2>13. QED
    BY <2>1, <2>2, <2>3, <2>4, <2>5, <2>6, <2>7, <2>8, <2>9, <2>10, <2>11, <2>12
       DEF Next, Handler, Producer, Body
<1>3. QED
  BY <1>1, <1>2, TypedAlways, OrderedAlways, CommittedAlways, PTL DEF Spec

\* A known answer on the deployment's keys is billed, however the request ends.
THEOREM AnswersAreBilled == Spec => []NeverFree
<1>1. Accounts => NeverFree
  BY DEF Accounts, NeverFree, Closing
<1>2. QED
  BY <1>1, AccountsAlways, PTL

\* Every attempt that went to a provider has a row when the request is over.
THEOREM AttemptsAreRecorded == Spec => []NeverSilent
<1>1. Typed /\ Accounts => NeverSilent
  BY DEF Typed, TypeOK, Accounts, NeverSilent, Serving
<1>2. QED
  BY <1>1, TypedAlways, AccountsAlways, PTL

\* A candidate that went to a provider gives its slot back.
THEOREM SlotsGivenBack == Spec => []SlotsReturned
<1>1. Accounts => SlotsReturned
  BY DEF Accounts, SlotsReturned, Serving
<1>2. QED
  BY <1>1, AccountsAlways, PTL

\* However a request ends, its attempts are accounted for: debited at most once,
\* never free, never unrecorded, and with their slots given back.
THEOREM AttemptsAccounted == Spec => []Accounted
<1>1. BilledOnce /\ NeverFree /\ NeverSilent /\ SlotsReturned => Accounted
  BY DEF Accounted
<1>2. QED
  BY <1>1, DebitedOnce, AnswersAreBilled, AttemptsAreRecorded, SlotsGivenBack, PTL

-----------------------------------------------------------------------------
(* A failure reaches a client that is still there.                          *)

Failures == {"fault", "error"}

\* A failure waits in the queue, and the end is not before it.
Pending(q) ==
    \E i \in 1..Len(q) : q[i] \in Failures /\ \A j \in 1..(i - 1) : q[j] # "end"

\* An open stream that broke untold has its failure to put or waiting in the
\* queue, and a body that reads; one that is over has told the client that
\* stayed.
Telling ==
    /\ body \in {"none", "unstarted"} => ~broken
    /\ pc = "open" /\ broken /\ ~told =>
           /\ body \in {"reading", "yielding"}
           /\ producer \in {"telling", "raising"} \/ Pending(queue)
    /\ FailureTold

\* A failure in the queue survives what is put behind it, follows only early
\* items where it is put, and is taken before the end.
LEMMA PendingQueue ==
    ASSUME NEW q \in Seq(Items)
    PROVE  /\ \A x \in Items : Pending(q) => Pending(Append(q, x))
           /\ q \in Seq(Early) => \A x \in Failures : Pending(Append(q, x))
           /\ q # <<>> /\ Pending(q) /\ Head(q) \notin Failures =>
                  Pending(Tail(q)) /\ Head(q) # "end"
<1>1. Len(q) \in Nat
  OBVIOUS
<1>2. \A x : /\ Len(Append(q, x)) = Len(q) + 1
             /\ Append(q, x)[Len(q) + 1] = x
             /\ \A i \in 1..Len(q) : Append(q, x)[i] = q[i]
  OBVIOUS
<1>3. ASSUME NEW x \in Items, Pending(q)
      PROVE  Pending(Append(q, x))
  <2>1. PICK i \in 1..Len(q) : q[i] \in Failures /\ \A j \in 1..(i - 1) : q[j] # "end"
    BY <1>3 DEF Pending
  <2>2. /\ i \in 1..Len(Append(q, x)) /\ Append(q, x)[i] \in Failures
        /\ \A j \in 1..(i - 1) : Append(q, x)[j] # "end"
    BY <1>1, <1>2, <2>1
  <2>3. QED
    BY <2>2 DEF Pending
<1>4. ASSUME q \in Seq(Early), NEW x \in Failures
      PROVE  Pending(Append(q, x))
  <2>1. \A j \in 1..Len(q) : q[j] \in Early
    BY <1>4, ElementOfSeq
  <2>2. \A j \in 1..Len(q) : q[j] # "end"
    BY <2>1 DEF Early
  <2>3. /\ Len(q) + 1 \in 1..Len(Append(q, x))
        /\ Append(q, x)[Len(q) + 1] \in Failures
        /\ \A j \in 1..(Len(q) + 1 - 1) : Append(q, x)[j] # "end"
    BY <1>1, <1>2, <2>2
  <2>4. QED
    BY <2>3 DEF Pending
<1>5. ASSUME q # <<>>, Pending(q), Head(q) \notin Failures
      PROVE  Pending(Tail(q)) /\ Head(q) # "end"
  <2>1. PICK i \in 1..Len(q) : q[i] \in Failures /\ \A j \in 1..(i - 1) : q[j] # "end"
    BY <1>5 DEF Pending
  <2>2. /\ Head(q) = q[1] /\ Len(Tail(q)) = Len(q) - 1
        /\ \A j \in 1..Len(Tail(q)) : Tail(q)[j] = q[j + 1]
    BY <1>5, HeadTailProperties
  <2>3. i # 1
    BY <1>5, <2>1, <2>2
  <2>4. q[1] # "end"
    BY <1>1, <2>1, <2>3
  <2>5. /\ i - 1 \in 1..Len(Tail(q)) /\ Tail(q)[i - 1] \in Failures
    BY <1>1, <2>1, <2>2, <2>3
  <2>6. \A j \in 1..(i - 1 - 1) : Tail(q)[j] # "end"
    BY <1>1, <2>1, <2>2, <2>3
  <2>7. QED
    BY <2>2, <2>4, <2>5, <2>6 DEF Pending
<1>6. QED
  BY <1>3, <1>4, <1>5

\* A failure is never lost on its way to the client.
LEMMA TellingAlways == Spec => []Telling
<1>1. Init => Telling
  BY DEF Init, Telling, FailureTold
<1>2. Typed /\ Ordered /\ Telling /\ [Next]_vars => Telling'
  <2> SUFFICES ASSUME Typed, Ordered, Telling, [Next]_vars PROVE Telling'
    OBVIOUS
  <2> USE DEF Respond, attempt, ctx, stream, reader, ledger, FailureTold
  <2>0. TypeOK /\ Placed /\ queue \in Seq(Items)
    BY QueueIs DEF Typed, TypeOK, Items
  <2>1. CASE Handler
    <3>1. pc \notin {"open", "ended"} /\ UNCHANGED <<broken, told, left>>
      BY <2>1 DEF Handler, Unresolved, Admit, Blocked, Plan, Unprepared, Call, Result,
                  HopInvoke, FinishInvoke, NextCandidate, Return, Open
    <3>2. body = "none"
      BY <2>0, <3>1 DEF Placed, TypeOK
    <3>3. QED
      BY <3>1, <3>2 DEF Telling
  <2>2. CASE PutChunk \/ Ping
    <3>1. /\ UNCHANGED <<pc, body, broken, told, left>>
          /\ producer \in {"telling", "raising"} => producer' = producer
          /\ \E x \in Items : queue' = Append(queue, x)
      BY <2>2 DEF PutChunk, Ping, Producing, Put, Items
    <3>2. Pending(queue) => Pending(queue')
      BY <2>0, <3>1, PendingQueue
    <3>3. QED
      BY <3>1, <3>2 DEF Telling
  <2>3. CASE PutFailure
    <3>1. pc = "open" /\ producer \in {"telling", "raising"}
      BY <2>0, <2>3 DEF PutFailure, Started, Placed
    <3>2. queue \in Seq(Early)
      BY <3>1 DEF Ordered, Over
    <3>3. \E x \in Failures : queue' = Append(queue, x)
      BY <2>3 DEF PutFailure, Put, Failures
    <3>4. Pending(queue')
      BY <2>0, <3>2, <3>3, PendingQueue
    <3>5. UNCHANGED <<pc, body, broken, told, left>>
      BY <2>3 DEF PutFailure
    <3>6. QED
      BY <3>4, <3>5 DEF Telling
  <2>4. CASE PutEnd
    <3>1. /\ UNCHANGED <<pc, body, broken, told, left>> /\ queue' = Append(queue, "end")
          /\ producer \notin {"telling", "raising"}
      BY <2>4 DEF PutEnd, Put, Producing
    <3>2. Pending(queue) => Pending(queue')
      BY <2>0, <3>1, PendingQueue DEF Items
    <3>3. QED
      BY <3>1, <3>2 DEF Telling
  <2>5. CASE Emit \/ Report \/ EdgeEnds \/ HopStream
    <3>1. /\ UNCHANGED <<pc, body, broken, told, left, queue>>
          /\ producer \notin {"telling", "raising"}
      BY <2>5 DEF Emit, Report, EdgeEnds, HopStream, Producing
    <3>2. QED
      BY <3>1 DEF Telling
  <2>6. CASE PumpFails \/ EdgeFails
    <3>1. /\ UNCHANGED <<pc, body, told, left, queue>> /\ Producing("pulling")
          /\ \/ broken' = broken
             \/ producer' \in {"telling", "raising"}
      BY <2>6 DEF PumpFails, EdgeFails
    <3>2. pc = "open" /\ body \in {"reading", "yielding"}
      BY <2>0, <3>1 DEF Producing, Started, Placed, Ordered, Over
    <3>3. producer \notin {"telling", "raising"}
      BY <3>1 DEF Producing
    <3>4. QED
      BY <3>1, <3>2, <3>3 DEF Telling
  <2>7. CASE Cancelled
    <3>1. UNCHANGED <<pc, body, broken, told, left, queue>> /\ pc = "ended"
      BY <2>0, <2>7 DEF Cancelled, Placed
    <3>2. QED
      BY <3>1 DEF Telling
  <2>8. CASE Get
    <3>1. /\ UNCHANGED <<pc, broken, left, producer>> /\ queue' = Tail(queue)
          /\ body = "reading" /\ queue # <<>> /\ pc = "open"
      BY <2>0, <2>8 DEF Get, Placed
    <3>2. Head(queue) \in Items
      BY <2>0, <3>1, HeadTailProperties
    <3>3. /\ Head(queue) \in Failures => told'
          /\ Head(queue) \notin Failures => told' = told
          /\ Head(queue) \notin Failures \union {"end"} => body' \in {"reading", "yielding"}
          /\ body' \notin {"none", "unstarted"}
      BY <2>8, <3>2 DEF Get, Failures, Items
    <3>4. Pending(queue) /\ Head(queue) \notin Failures =>
              Pending(queue') /\ Head(queue) # "end"
      BY <2>0, <3>1, PendingQueue
    <3>5. producer \in {"telling", "raising"} => Head(queue) # "end"
      <4>1. producer \in {"telling", "raising"} => queue \in Seq(Early)
        BY <3>1 DEF Ordered, Over
      <4>2. queue \in Seq(Early) => Head(queue) \in Early
        BY <3>1, EarlyQueue
      <4>3. QED
        BY <4>1, <4>2 DEF Early
    <3>6. QED
      BY <3>1, <3>3, <3>4, <3>5 DEF Telling
  <2>9. CASE Start \/ Taken \/ MeterBody
    <3>1. UNCHANGED <<pc, broken, told, left, queue>> /\ pc = "open"
      BY <2>0, <2>9 DEF Start, Taken, MeterBody, Placed
    <3>2. broken /\ ~told => body = "yielding" /\ body' = "reading" /\ producer' = producer
      BY <2>9, <3>1 DEF Start, Taken, MeterBody, Telling
    <3>3. body' \notin {"none", "unstarted"}
      BY <2>9 DEF Start, Taken, MeterBody
    <3>4. QED
      BY <3>1, <3>2, <3>3 DEF Telling
  <2>10. CASE Trailer \/ Leave \/ LeaveUnstarted
    <3>1. /\ UNCHANGED <<broken, told>> /\ body' = "closed" /\ pc' = "ended" /\ pc = "open"
          /\ body = "trailer" \/ left' # "no"
      BY <2>0, <2>10 DEF Trailer, Leave, LeaveUnstarted, Close, Started, Placed, TypeOK
    <3>2. QED
      BY <3>1 DEF Telling
  <2>11. CASE UNCHANGED vars
    BY <2>11 DEF vars, Telling
  <2>12. QED
    BY <2>1, <2>2, <2>3, <2>4, <2>5, <2>6, <2>7, <2>8, <2>9, <2>10, <2>11
       DEF Next, Producer, EdgeStops, Body
<1>3. QED
  BY <1>1, <1>2, TypedAlways, OrderedAlways, PTL DEF Spec

\* A client that stays learns of a failed stream, however far the producer is
\* ahead of it.
THEOREM FailuresAreTold == Spec => []FailureTold
<1>1. Telling => FailureTold
  BY DEF Telling
<1>2. QED
  BY <1>1, TellingAlways, PTL
=============================================================================
