------------------------- MODULE ChatRequestProofs -------------------------
(***************************************************************************)
(* What failover and metering of a chat request guarantee for any number   *)
(* of models, backends and fallbacks, and however an adapter reports       *)
(* timeouts.                                                               *)
(***************************************************************************)
EXTENDS ChatRequest, WellFoundedInduction, TLAPS

\* There are no more candidates than places for them.
LEMMA CandidatesFit ==
    ASSUME NEW r \in Requests
    PROVE  /\ Len(r.tags) \in Candidates
           /\ \A i \in 1..Len(r.tags) : r.tags[i] \in Tags
<1>1. PICK m \in 0..(MaxFallbacks + 1) : r.tags \in [1..m -> Tags] /\ r.tags # <<>>
  BY DEF Requests, CandidateLists, SeqOf
<1>2. Len(r.tags) = m
  BY <1>1, ChatAssumption
<1>3. m # 0
  BY <1>1, <1>2
<1>4. QED
  BY <1>1, <1>2, <1>3, ChatAssumption DEF Candidates

\* A set of backends that is not empty has a first one.
LEMMA MinBackend ==
    ASSUME NEW S, S \subseteq Backends, S # {}
    PROVE  Min(S) \in S
<1>1. S \subseteq Nat
  BY ChatAssumption
<1>2. \E x \in S : \A y \in S : ~ (<<y, x>> \in OpToRel(<, Nat))
  BY <1>1, NatLessThanWellFounded, WFMin, Zenon
<1>3. \E x \in S : \A y \in S : x =< y
  <2>1. PICK x \in S : \A y \in S : ~ (<<y, x>> \in OpToRel(<, Nat))
    BY <1>2
  <2>2. \A y \in S : ~ (y < x)
    BY <1>1, <2>1 DEF OpToRel
  <2>3. QED
    BY <1>1, <2>2
<1>4. QED
  BY <1>3 DEF Min

Meters == [Attempts -> [success : Nat, error : Nat]]
Slots  == [Attempts -> {"none", "counted", "held"}]

\* A call is repeated only while tries are left, and every attempt is one of a
\* candidate.
Typed ==
    /\ TypeOK
    /\ pc = "backoff" => tries < MaxTries
    /\ at \in 1..Len(req.tags)

\* What a catalog model resolves to is a backend that serves it and is not
\* excluded.
LEMMA FirstServes ==
    ASSUME Typed, Tag \notin UserTags, NEW exclude
    PROVE  /\ First(exclude) \in Backends \union {0}
           /\ First(exclude) # 0 => First(exclude) \in req.serves[Tag] \ exclude
<1>1. Tag \in Tags \ UserTags
  BY CandidatesFit DEF Typed, TypeOK, Tag
<1>2. req.serves[Tag] \subseteq Backends
  BY <1>1 DEF Typed, TypeOK, Requests
<1>3. CASE req.serves[Tag] \ exclude = {}
  BY <1>3 DEF First
<1>4. CASE req.serves[Tag] \ exclude # {}
  <2>1. Min(req.serves[Tag] \ exclude) \in req.serves[Tag] \ exclude
    BY <1>2, <1>4, MinBackend
  <2>2. QED
    BY <1>2, <1>4, <2>1 DEF First
<1>5. QED
  BY <1>3, <1>4

\* The same for the resolution that MCP servers may repeat.
LEMMA ResolveServes ==
    ASSUME Typed, Tag \notin UserTags, NEW exclude
    PROVE  /\ Resolve(exclude) \in Backends \union {0}
           /\ Resolve(exclude) # 0 => Resolve(exclude) \in req.serves[Tag] \ exclude
<1>1. \A e : /\ First(e) \in Backends \union {0}
             /\ First(e) # 0 => First(e) \in req.serves[Tag] \ e
  BY FirstServes, Zenon
<1>2. QED
  BY <1>1 DEF Resolve

\* Updating the current attempt's meter or slot keeps their types.
LEMMA UpdatesTyped ==
    ASSUME TypeOK
    PROVE  /\ cur \in Attempts
           /\ [meter EXCEPT ![cur].success = @ + 1] \in Meters
           /\ [meter EXCEPT ![cur].error = @ + 1] \in Meters
           /\ [slot EXCEPT ![cur] = "counted"] \in Slots
           /\ [slot EXCEPT ![cur] = "held"] \in Slots
           /\ [slot EXCEPT ![cur] = IF @ = "held" THEN "none" ELSE @] \in Slots
<1>1. cur \in Attempts
  BY DEF TypeOK, Attempts, cur
<1>2. meter[cur] \in [success : Nat, error : Nat]
  BY <1>1 DEF TypeOK
<1>3. [meter[cur] EXCEPT !.success = @ + 1] \in [success : Nat, error : Nat]
  BY <1>2
<1>4. [meter[cur] EXCEPT !.error = @ + 1] \in [success : Nat, error : Nat]
  BY <1>2
<1>5. [meter EXCEPT ![cur].success = @ + 1] \in Meters
  BY <1>1, <1>3 DEF TypeOK, Meters
<1>6. [meter EXCEPT ![cur].error = @ + 1] \in Meters
  BY <1>1, <1>4 DEF TypeOK, Meters
<1>7. slot[cur] \in {"none", "counted", "held"}
  BY <1>1 DEF TypeOK
<1>8. QED
  BY <1>1, <1>5, <1>6, <1>7 DEF TypeOK, Slots

\* The types hold throughout.
LEMMA TypedAlways == Spec => []Typed
<1>1. Init => Typed
  <2> SUFFICES ASSUME Init PROVE Typed
    OBVIOUS
  <2> USE ChatAssumption DEF Init
  <2>1. at \in 1..Len(req.tags) /\ at \in Candidates
    <3>1. Len(req.tags) \in Candidates
      BY CandidatesFit
    <3>2. QED
      BY <3>1 DEF Candidates
  <2>1a. hop \in BOOLEAN /\ pc \in Places /\ pc # "backoff"
    BY DEF Places
  <2>2. backend \in [Attempts -> Backends \union {0}]
    BY DEF None
  <2>3. owner \in [Attempts -> Owners] /\ slot \in [Attempts -> {"none", "counted", "held"}]
    BY DEF Owners
  <2>4. meter \in [Attempts -> [success : Nat, error : Nat]]
    OBVIOUS
  <2>5. tries \in 1..MaxTries
    OBVIOUS
  <2>6. sent \subseteq Attempts
    OBVIOUS
  <2>7. QED
    BY <2>1, <2>1a, <2>2, <2>3, <2>4, <2>5, <2>6 DEF Typed, TypeOK
<1>2. Typed /\ [Next]_vars => Typed'
  <2> SUFFICES ASSUME Typed, [Next]_vars PROVE Typed'
    OBVIOUS
  <2> USE DEF Fail, End, place, serving, call, Places, Errors
  <2>0. /\ TypeOK
        /\ cur \in Attempts
        /\ [meter EXCEPT ![cur].success = @ + 1] \in Meters
        /\ [meter EXCEPT ![cur].error = @ + 1] \in Meters
        /\ [slot EXCEPT ![cur] = "counted"] \in Slots
        /\ [slot EXCEPT ![cur] = "held"] \in Slots
        /\ [slot EXCEPT ![cur] = IF @ = "held" THEN "none" ELSE @] \in Slots
    BY UpdatesTyped DEF Typed
  <2>1. CASE Refuse \/ Missing \/ Check \/ BreakerOpen
    BY <2>0, <2>1 DEF Typed, TypeOK, Refuse, Missing, Check, BreakerOpen
  <2>2. CASE Reserve \/ Reserved
    <3>1. /\ slot' \in Slots /\ pc' \in {"reserving", "routing"}
          /\ UNCHANGED <<req, at, hop, backend, owner, tries, known, error, sent,
                         meter, timedOut, left>>
      BY <2>0, <2>2 DEF TypeOK, Reserve, Reserved, Slots
    <3>2. QED
      BY <2>0, <3>1 DEF Typed, TypeOK, Slots
  <2>3. CASE Blocked
    BY <2>0, <2>3 DEF Typed, TypeOK, Blocked, Meters
  <2>4. CASE Route
    <3>1. /\ backend' \in [Attempts -> Backends \union {0}]
          /\ owner' \in [Attempts -> Owners]
      <4>1. CASE Tag \in UserTags
        BY <2>0, <2>4, <4>1 DEF Route, TypeOK, Owners
      <4>2. CASE Tag \notin UserTags
        <5>0. Resolve(Excluded) \in Backends \union {0}
          BY <4>2, ResolveServes
        <5>1. PICK b \in Backends \union {0} : backend' = [backend EXCEPT ![cur] = b]
          BY <2>4, <4>2, <5>0 DEF Route
        <5>2. QED
          BY <2>0, <2>4, <4>2, <5>1 DEF Route, TypeOK, Owners
      <4>3. QED
        BY <4>1, <4>2
    <3>2. QED
      BY <2>0, <2>4, <3>1 DEF Typed, TypeOK, Route
  <2>5. CASE Answer
    BY <2>0, <2>5 DEF Typed, TypeOK, Answer, Bill, GiveSlotBack, Meters, Slots
  <2>6. CASE EndUnmetered \/ StreamEnds
    <3>1. /\ UNCHANGED <<req, at, hop, serving, call, meter, timedOut, left>>
          /\ slot' \in Slots /\ pc' = "ended" /\ sent' \subseteq Attempts
      BY <2>0, <2>6 DEF TypeOK, EndUnmetered, StreamEnds, GiveSlotBack
    <3>2. QED
      BY <2>0, <3>1 DEF Typed, TypeOK, Slots
  <2>7. CASE ReportUsage \/ SendChunk
    <3>1. /\ UNCHANGED <<req, at, hop, pc, serving, tries, error, slot, meter, timedOut, left>>
          /\ known' \in BOOLEAN /\ sent' \subseteq Attempts
      BY <2>0, <2>7 DEF TypeOK, ReportUsage, SendChunk
    <3>2. QED
      BY <2>0, <3>1 DEF Typed, TypeOK
  <2>8. CASE SendFinal
    BY <2>0, <2>8 DEF Typed, TypeOK, SendFinal, Bill, Meters
  <2>9. CASE Retry \/ CallAgain
    BY <2>0, <2>9, ChatAssumption DEF Typed, TypeOK, Retry, CallAgain
  <2>10. CASE Fault \/ TimeOut
    BY <2>0, <2>10 DEF Typed, TypeOK, Fault, TimeOut, TimeoutError
  <2>11. CASE HopToBackend \/ FallBack \/ Raise
    <3>1. /\ meter' \in Meters /\ slot' \in Slots
          /\ UNCHANGED <<req, backend, owner, sent, timedOut, left>>
      BY <2>0, <2>11 DEF HopToBackend, FallBack, Raise, Recorded, GiveSlotBack
    <3>2. at' \in 1..Len(req.tags) /\ at' \in Candidates /\ hop' \in BOOLEAN
      <4>1. Len(req.tags) \in Candidates /\ at \in 1..Len(req.tags)
        BY <2>0, CandidatesFit DEF Typed, TypeOK
      <4>2. at' = at \/ (at < Len(req.tags) /\ at' = at + 1)
        BY <2>11 DEF HopToBackend, FallBack, Raise, MayFallBack
      <4>3. hop' \in BOOLEAN
        BY <2>0, <2>11 DEF HopToBackend, FallBack, Raise, TypeOK
      <4>4. QED
        BY <4>1, <4>2, <4>3, ChatAssumption DEF Candidates
    <3>3. /\ pc' \in {"gate", "ended"} /\ tries' \in 1..MaxTries /\ known' \in BOOLEAN
          /\ error' \in Errors \union {"none"}
      <4>1. CASE HopToBackend \/ FallBack
        <5>1. pc' = "gate" /\ tries' = 1 /\ known' \in BOOLEAN /\ error' = "none"
          BY <4>1 DEF HopToBackend, FallBack, BeginAttempt
        <5>2. QED
          BY <5>1, ChatAssumption
      <4>2. CASE Raise
        <5>1. pc' = "ended" /\ UNCHANGED <<tries, known, error>>
          BY <4>2 DEF Raise
        <5>2. QED
          BY <2>0, <5>1 DEF TypeOK
      <4>3. QED
        BY <2>11, <4>1, <4>2
    <3>4. QED
      BY <2>0, <3>1, <3>2, <3>3 DEF Typed, TypeOK, Meters, Slots
  <2>12. CASE Leave \/ LeaveFailing
    <3>1. meter' \in Meters /\ slot' \in Slots
      BY <2>0, <2>12 DEF Leave, LeaveFailing, MeterAbandoned, Bill, GiveSlotBack,
                         TypeOK, Meters
    <3>2. /\ UNCHANGED <<req, at, hop, serving, tries, known, error, sent, timedOut>>
          /\ pc' = "ended" /\ left' \in Places
      BY <2>0, <2>12 DEF TypeOK, Leave, LeaveFailing
    <3>3. QED
      BY <2>0, <3>1, <3>2 DEF Typed, TypeOK, Meters, Slots
  <2>13. CASE UNCHANGED vars
    BY <2>13 DEF vars, Typed, TypeOK
  <2>14. QED
    BY <2>1, <2>2, <2>3, <2>4, <2>5, <2>6, <2>7, <2>8, <2>9, <2>10, <2>11, <2>12,
       <2>13 DEF Next, Service
<1>3. QED
  BY <1>1, <1>2, PTL DEF Spec

\* The variables keep their types; in particular no attempt is made beyond the
\* last candidate, and no call repeated beyond max_attempts.
THEOREM TypeCorrect == Spec => []TypeOK
<1>1. Typed => TypeOK
  BY DEF Typed
<1>2. QED
  BY <1>1, TypedAlways, PTL

-----------------------------------------------------------------------------
(* Timeouts.                                                                *)

\* While a timed-out attempt is being wound up its error is still the timeout,
\* which no layer repeats.
TimeoutKept ==
    timedOut /\ (req.stream => req.aware) =>
        pc = "ended" \/ (pc = "failing" /\ error = "timeout")

\* A call the provider timed out is the last one of the request, however many
\* candidates, backends and tries there are, where the adapter reports it.
THEOREM TimeoutIsLast == Spec => []TimeoutsTerminal
<1>1. Init => TimeoutKept
  BY DEF Init, TimeoutKept
<1>2. TimeoutKept /\ [Next]_vars => TimeoutKept'
  <2> SUFFICES ASSUME TimeoutKept, [Next]_vars PROVE TimeoutKept'
    OBVIOUS
  <2> USE DEF TimeoutKept, Fail, End, place, serving, call
  <2>1. CASE Refuse \/ Reserve \/ Reserved \/ Missing \/ Blocked \/ Route \/ Check
    BY <2>1 DEF Refuse, Reserve, Reserved, Missing, Blocked, Route, Check
  <2>2. CASE BreakerOpen \/ Answer \/ Retry \/ CallAgain
    BY <2>2 DEF BreakerOpen, Answer, Retry, CallAgain
  <2>3. CASE ReportUsage \/ SendChunk \/ SendFinal \/ EndUnmetered \/ StreamEnds
    BY <2>3 DEF ReportUsage, SendChunk, SendFinal, EndUnmetered, StreamEnds
  <2>4. CASE Fault \/ TimeOut
    BY <2>4 DEF Fault, TimeOut, TimeoutError
  <2>5. CASE HopToBackend \/ FallBack
    <3>1. pc = "failing" /\ Retriable /\ UNCHANGED <<req, timedOut>>
      BY <2>5 DEF HopToBackend, FallBack, Recorded, MayHop, MayFallBack
    <3>2. error # "timeout"
      BY <3>1 DEF Retriable
    <3>3. QED
      BY <3>1, <3>2
  <2>6. CASE Raise
    BY <2>6 DEF Raise, Recorded
  <2>7. CASE Leave \/ LeaveFailing
    BY <2>7 DEF Leave, LeaveFailing
  <2>8. CASE UNCHANGED vars
    BY <2>8 DEF vars
  <2>9. QED
    BY <2>1, <2>2, <2>3, <2>4, <2>5, <2>6, <2>7, <2>8 DEF Next, Service
<1>3. TimeoutKept => TimeoutsTerminal
  BY DEF TimeoutKept, TimeoutsTerminal
<1>4. QED
  BY <1>1, <1>2, <1>3, PTL DEF Spec

-----------------------------------------------------------------------------
(* Billing and commitment.                                                  *)

\* Only the current attempt has sent anything or been billed, and one that is
\* billed and not over has sent something, so that it is never left.
Committed ==
    /\ sent \subseteq {cur}
    /\ \A a \in Attempts :
           meter[a].success > 0 =>
               /\ a = cur
               /\ pc \in {"tail", "failing", "ended"}
               /\ pc \in {"tail", "failing"} => cur \in sent
    /\ \A a \in Attempts : meter[a].success > 1 => pc = "ended" /\ left = "tail"

\* What billing and recording a failure do to the success rows.
LEMMA SuccessRows ==
    ASSUME TypeOK
    PROVE  /\ \A a \in Attempts : meter[a].success \in Nat
           /\ Bill => \A a \in Attempts : meter'[a].success =
                          IF a = cur THEN meter[a].success + 1 ELSE meter[a].success
           /\ meter' = [meter EXCEPT ![cur].error = @ + 1] =>
                  \A a \in Attempts : meter'[a].success = meter[a].success
<1>1. cur \in Attempts /\ meter \in [Attempts -> [success : Nat, error : Nat]]
  BY DEF TypeOK, Attempts, cur
<1>2. \A a \in Attempts : meter[a].success \in Nat
  BY <1>1
<1>3. ASSUME Bill, NEW a \in Attempts
      PROVE  meter'[a].success =
                 IF a = cur THEN meter[a].success + 1 ELSE meter[a].success
  BY <1>1, <1>3 DEF Bill
<1>4. ASSUME meter' = [meter EXCEPT ![cur].error = @ + 1], NEW a \in Attempts
      PROVE  meter'[a].success = meter[a].success
  BY <1>1, <1>4
<1>5. QED
  BY <1>2, <1>3, <1>4

\* Once an answer has begun the attempt is not left: no hop, no fallback.
LEMMA NothingSent ==
    ASSUME Typed, Committed, HopToBackend \/ FallBack
    PROVE  sent = {} /\ pc = "failing"
<1>1. pc = "failing" /\ ~Emitted
  BY DEF HopToBackend, FallBack, Recorded, MayHop, MayFallBack
<1>2. cur \notin sent
  BY <1>1 DEF Emitted, cur, Typed, TypeOK
<1>3. QED
  BY <1>1, <1>2 DEF Committed

\* The answer and the success rows belong to one attempt throughout.
LEMMA CommittedAlways == Spec => []Committed
<1>1. Init => Committed
  BY DEF Init, Committed, cur
<1>2. Typed /\ Committed /\ [Next]_vars => Committed'
  <2> SUFFICES ASSUME Typed, Committed, [Next]_vars PROVE Committed'
    OBVIOUS
  <2> USE DEF Fail, End, place, serving, call
  <2>0. /\ TypeOK
        /\ \A a \in Attempts : meter[a].success \in Nat
        /\ Bill => \A a \in Attempts : meter'[a].success =
                       IF a = cur THEN meter[a].success + 1 ELSE meter[a].success
        /\ meter' = [meter EXCEPT ![cur].error = @ + 1] =>
               \A a \in Attempts : meter'[a].success = meter[a].success
    BY SuccessRows DEF Typed
  <2>1. ASSUME UNCHANGED <<at, hop, left>>, pc # "ended",
               sent' \in {sent, sent \union {cur}},
               pc \in {"tail", "failing"} => pc' \in {"tail", "failing", "ended"},
               \A a \in Attempts : meter'[a].success = meter[a].success
        PROVE  Committed'
    BY <2>0, <2>1 DEF Committed, cur
  <2>2. CASE Refuse \/ Reserve \/ Reserved \/ Missing \/ Route \/ Check
    BY <2>1, <2>2 DEF Refuse, Reserve, Reserved, Missing, Route, Check
  <2>3. CASE Blocked
    <3>1. \A a \in Attempts : meter'[a].success = meter[a].success
      BY <2>0, <2>3 DEF Blocked
    <3>2. QED
      BY <2>1, <2>3, <3>1 DEF Blocked
  <2>4. CASE BreakerOpen \/ Retry \/ CallAgain \/ Fault \/ TimeOut
    BY <2>1, <2>4 DEF BreakerOpen, Retry, CallAgain, Fault, TimeOut
  <2>5. CASE ReportUsage \/ SendChunk \/ EndUnmetered \/ StreamEnds
    BY <2>1, <2>5 DEF ReportUsage, SendChunk, EndUnmetered, StreamEnds
  <2>6. CASE Answer \/ SendFinal
    <3>1. /\ Bill /\ pc = "calling" /\ pc' \in {"tail", "ended"}
          /\ UNCHANGED <<at, hop>> /\ sent' = sent \union {cur}
      BY <2>6 DEF Answer, SendFinal
    <3>2. \A a \in Attempts : meter[a].success = 0
      BY <2>0, <3>1 DEF Committed
    <3>3. \A a \in Attempts : meter'[a].success = IF a = cur THEN 1 ELSE 0
      BY <2>0, <3>1, <3>2
    <3>4. QED
      BY <3>1, <3>3 DEF Committed, cur
  <2>7. CASE HopToBackend \/ FallBack
    <3>1. sent = {} /\ pc = "failing" /\ sent' = sent
      BY <2>7, NothingSent DEF HopToBackend, FallBack, Recorded
    <3>2. \A a \in Attempts : meter[a].success = 0
      BY <2>0, <3>1 DEF Committed
    <3>3. \A a \in Attempts : meter'[a].success = 0
      BY <2>0, <2>7, <3>2 DEF HopToBackend, FallBack, Recorded
    <3>4. QED
      BY <3>1, <3>3 DEF Committed
  <2>8. CASE Raise
    <3>1. \A a \in Attempts : meter'[a].success = meter[a].success
      BY <2>0, <2>8 DEF Raise, Recorded
    <3>2. QED
      BY <2>1, <2>8, <3>1 DEF Raise, Recorded
  <2>9. CASE Leave \/ LeaveFailing
    <3>1. /\ pc' = "ended" /\ left' = pc /\ pc # "ended"
          /\ UNCHANGED <<at, hop, sent>>
      BY <2>9 DEF Leave, LeaveFailing
    <3>2. CASE \A a \in Attempts : meter'[a].success = meter[a].success
      BY <2>0, <3>1, <3>2 DEF Committed, cur
    <3>3. CASE Leave /\ Bill
      <4>1. pc # "failing"
        BY <3>3 DEF Leave
      <4>2. \A a \in Attempts : a # cur => meter'[a].success = 0
        BY <2>0, <3>3 DEF Committed
      <4>3. pc # "tail" => \A a \in Attempts : meter'[a].success \in {0, 1}
        BY <2>0, <3>1, <3>3, <4>1 DEF Committed
      <4>4. QED
        BY <2>0, <3>1, <4>2, <4>3 DEF Committed, cur
    <3>4. QED
      BY <2>0, <2>9, <3>2, <3>3 DEF Leave, LeaveFailing, MeterAbandoned
  <2>10. CASE UNCHANGED vars
    BY <2>10 DEF vars, Committed, cur
  <2>11. QED
    BY <2>2, <2>3, <2>4, <2>5, <2>6, <2>7, <2>8, <2>9, <2>10 DEF Next, Service
<1>3. QED
  BY <1>1, <1>2, TypedAlways, PTL DEF Spec

\* A request is billed for one attempt, whatever failed before and after it.
THEOREM BilledForOne == Spec => []BilledOnce
<1>1. Committed => BilledOnce
  BY DEF Committed, BilledOnce
<1>2. QED
  BY <1>1, CommittedAlways, PTL

\* Every step of a request is one of the abstract failover, or leaves it alone.
THEOREM ImplementsFailover == Spec => OneSource
<1> DEFINE turns == {Turn(a) : a \in sent}
<1>1. Init => Commitment!Init
  BY DEF Init, Commitment!Init, Turn, cur
<1>2. Typed /\ Committed /\ Typed' /\ [Next]_vars => [Commitment!Next]_(Commitment!vars)
  <2> SUFFICES ASSUME Typed, Committed, Typed', [Next]_vars
               PROVE  [Commitment!Next]_(Commitment!vars)
    OBVIOUS
  <2> USE DEF Fail, End, place, serving, call
  <2>1. ASSUME UNCHANGED <<at, hop, sent>>, pc # "ended"
        PROVE  [Commitment!Next]_(Commitment!vars)
    <3>1. UNCHANGED <<Turn(cur), turns>>
      BY <2>1 DEF Turn, cur
    <3>2. CASE pc' = "ended"
      BY <2>1, <3>1, <3>2 DEF Commitment!Next, Commitment!End
    <3>3. CASE pc' # "ended"
      BY <2>1, <3>1, <3>3 DEF Commitment!vars
    <3>4. QED
      BY <3>2, <3>3
  <2>2. ASSUME UNCHANGED <<at, hop>>, pc # "ended", sent' = sent \union {cur}
        PROVE  [Commitment!Next]_(Commitment!vars)
    <3>1. turns \subseteq {Turn(cur)} /\ turns' = {Turn(cur)} /\ UNCHANGED Turn(cur)
      BY <2>2 DEF Committed, Turn, cur
    <3>2. (pc' = "ended") \in BOOLEAN
      OBVIOUS
    <3>3. QED
      BY <2>2, <3>1, <3>2 DEF Commitment!Next, Commitment!Send
  <2>3. CASE Refuse \/ Reserve \/ Reserved \/ Missing \/ Blocked \/ Route \/ Check
    BY <2>1, <2>3 DEF Refuse, Reserve, Reserved, Missing, Blocked, Route, Check
  <2>4. CASE BreakerOpen \/ Retry \/ CallAgain \/ Fault \/ TimeOut
    BY <2>1, <2>4 DEF BreakerOpen, Retry, CallAgain, Fault, TimeOut
  <2>5. CASE ReportUsage \/ StreamEnds \/ Leave \/ LeaveFailing
    BY <2>1, <2>5 DEF ReportUsage, StreamEnds, Leave, LeaveFailing
  <2>6. CASE Answer \/ SendChunk \/ SendFinal
    BY <2>2, <2>6 DEF Answer, SendChunk, SendFinal
  <2>7. CASE EndUnmetered
    BY <2>1, <2>2, <2>7 DEF EndUnmetered
  <2>8. CASE Raise
    BY <2>1, <2>8 DEF Raise, Recorded
  <2>9. CASE HopToBackend \/ FallBack
    <3>1. sent = {} /\ pc = "failing" /\ sent' = sent /\ pc' = "gate"
      BY <2>9, NothingSent DEF HopToBackend, FallBack, Recorded, BeginAttempt
    <3>2. at \in Candidates /\ at' \in Candidates /\ hop \in BOOLEAN /\ hop' \in BOOLEAN
      BY DEF Typed, TypeOK
    <3>3. \/ at' = at /\ ~hop /\ hop'
          \/ at' = at + 1 /\ ~hop'
      BY <2>9 DEF HopToBackend, FallBack, MayHop
    <3>4. Turn(cur)' \in (Turn(cur) + 1)..(2 * (MaxFallbacks + 1))
      <4>1. /\ hop => Turn(cur) = 2 * at
            /\ ~hop => Turn(cur) = 2 * at - 1
            /\ hop' => Turn(cur)' = 2 * at'
            /\ ~hop' => Turn(cur)' = 2 * at' - 1
        BY <3>2, ChatAssumption DEF Turn, cur, Candidates
      <4>2. /\ at \in 1..(MaxFallbacks + 1)
            /\ at' \in 1..(MaxFallbacks + 1)
        BY <3>2 DEF Candidates
      <4>3. CASE at' = at /\ ~hop /\ hop'
        BY <4>1, <4>2, <4>3, ChatAssumption
      <4>4. CASE at' = at + 1 /\ ~hop'
        BY <3>2, <4>1, <4>2, <4>4, ChatAssumption
      <4>5. QED
        BY <3>3, <4>3, <4>4
    <3>5. turns = {} /\ turns' = turns
      BY <3>1
    <3>6. QED
      BY <3>1, <3>4, <3>5 DEF Commitment!Next, Commitment!MoveOn
  <2>10. CASE UNCHANGED vars
    BY <2>10 DEF vars, Commitment!vars, Turn, cur
  <2>11. QED
    BY <2>3, <2>4, <2>5, <2>6, <2>7, <2>8, <2>9, <2>10 DEF Next, Service
<1>3. QED
  BY <1>1, <1>2, TypedAlways, CommittedAlways, PTL DEF Spec, OneSource, Commitment!Spec

-----------------------------------------------------------------------------
(* Rows and slots.                                                          *)

\* b is made before a.
Before(b, a) == b[1] < a[1] \/ (b[1] = a[1] /\ b[2] = FALSE /\ a[2] = TRUE)

\* An attempt that has been left behind has its row and no slot, one that is
\* not reached yet has neither backend nor slot, and the current one holds none
\* once it is over.
Settled ==
    /\ \A a \in Attempts :
           Before(a, cur) /\ (backend[a] # 0 \/ ~a[2]) => meter[a].error > 0
    /\ \A a \in Attempts : a # cur /\ ~Before(a, cur) => backend[a] = 0
    /\ \A a \in Attempts : a # cur => slot[a] = "none"
    /\ slot[cur] = "held" => pc # "ended"
    /\ slot[cur] = "counted" => pc = "reserving" \/ left = "reserving"
    /\ pc = "gate" => slot[cur] = "none"
    /\ left # "no" => pc = "ended"
    /\ left \notin {"no", "failing"} => meter[cur].success + meter[cur].error > 0

\* The order of the attempts is that of their turns.
LEMMA TurnOrder ==
    ASSUME NEW a \in Attempts, NEW b \in Attempts
    PROVE  Turn(b) < Turn(a) <=> Before(b, a)
<1>1. /\ a[1] \in Nat /\ b[1] \in Nat /\ a[2] \in BOOLEAN /\ b[2] \in BOOLEAN
  BY ChatAssumption DEF Attempts, Candidates
<1>2. QED
  BY <1>1 DEF Turn, Before

\* What the two ways of adding a row do to the counts of every attempt.
LEMMA RowCounts ==
    ASSUME TypeOK
    PROVE  /\ cur \in Attempts
           /\ \A a \in Attempts : meter[a].success \in Nat /\ meter[a].error \in Nat
           /\ Bill => /\ \A a \in Attempts : meter'[a].error = meter[a].error
                      /\ meter'[cur].success = meter[cur].success + 1
           /\ meter' = [meter EXCEPT ![cur].error = @ + 1] =>
                  /\ \A a \in Attempts : a # cur => meter'[a] = meter[a]
                  /\ meter'[cur].success = meter[cur].success
                  /\ meter'[cur].error = meter[cur].error + 1
<1>1. cur \in Attempts /\ meter \in [Attempts -> [success : Nat, error : Nat]]
  BY DEF TypeOK, Attempts, cur
<1>2. \A a \in Attempts : meter[a].success \in Nat /\ meter[a].error \in Nat
  BY <1>1
<1>3. ASSUME Bill
      PROVE  /\ \A a \in Attempts : meter'[a].error = meter[a].error
             /\ meter'[cur].success = meter[cur].success + 1
  BY <1>1, <1>3 DEF Bill
<1>4. ASSUME meter' = [meter EXCEPT ![cur].error = @ + 1]
      PROVE  /\ \A a \in Attempts : a # cur => meter'[a] = meter[a]
             /\ meter'[cur].success = meter[cur].success
             /\ meter'[cur].error = meter[cur].error + 1
  BY <1>1, <1>4
<1>5. QED
  BY <1>1, <1>2, <1>3, <1>4

\* What giving the slot back does.
LEMMA SlotBack ==
    ASSUME TypeOK, GiveSlotBack
    PROVE  /\ \A a \in Attempts : a # cur => slot'[a] = slot[a]
           /\ slot'[cur] = IF slot[cur] = "held" THEN "none" ELSE slot[cur]
  BY UpdatesTyped DEF GiveSlotBack, TypeOK

\* Rows and slots are settled throughout.
LEMMA SettledAlways == Spec => []Settled
<1>1. Init => Settled
  <2> SUFFICES ASSUME Init PROVE Settled
    OBVIOUS
  <2>1. cur = <<1, FALSE>> /\ cur[1] = 1 /\ cur[2] = FALSE /\ cur \in Attempts
    <3>1. at = 1 /\ hop = FALSE
      BY DEF Init
    <3>2. cur = <<1, FALSE>>
      BY <3>1 DEF cur
    <3>3. 1 \in Candidates
      BY ChatAssumption DEF Candidates
    <3>4. QED
      BY <3>2, <3>3 DEF Attempts
  <2>2. \A a \in Attempts : a[1] >= 1
    BY ChatAssumption DEF Attempts, Candidates
  <2>3. \A a \in Attempts : ~Before(a, cur)
    BY <2>1, <2>2, ChatAssumption DEF Before, Attempts, Candidates
  <2>4. QED
    BY <2>1, <2>3 DEF Init, Settled, None
<1>2. Typed /\ Settled /\ [Next]_vars => Settled'
  <2> SUFFICES ASSUME Typed, Settled, [Next]_vars PROVE Settled'
    OBVIOUS
  <2> USE DEF Fail, End, place, serving, call
  <2>0. /\ TypeOK /\ cur \in Attempts
        /\ \A a \in Attempts : meter[a].success \in Nat /\ meter[a].error \in Nat
        /\ Bill => /\ \A a \in Attempts : meter'[a].error = meter[a].error
                   /\ meter'[cur].success = meter[cur].success + 1
        /\ meter' = [meter EXCEPT ![cur].error = @ + 1] =>
               /\ \A a \in Attempts : a # cur => meter'[a] = meter[a]
               /\ meter'[cur].success = meter[cur].success
               /\ meter'[cur].error = meter[cur].error + 1
        /\ GiveSlotBack =>
               /\ \A a \in Attempts : a # cur => slot'[a] = slot[a]
               /\ slot'[cur] = IF slot[cur] = "held" THEN "none" ELSE slot[cur]
    BY RowCounts, SlotBack DEF Typed
  <2>a. ~Before(cur, cur)
    BY <2>0, ChatAssumption DEF Before, cur, TypeOK, Candidates
  <2>1. CASE Refuse \/ Missing \/ Check \/ BreakerOpen \/ ReportUsage \/ SendChunk \/ Retry
             \/ CallAgain \/ Fault \/ TimeOut
    <3>1. /\ UNCHANGED <<cur, backend, slot, meter, left>>
          /\ pc \notin {"reserving", "ended"} /\ pc' \notin {"gate", "ended"}
      BY <2>1 DEF Refuse, Missing, Check, BreakerOpen, ReportUsage, SendChunk, Retry,
                  CallAgain, Fault, TimeOut, cur
    <3>2. QED
      BY <2>0, <3>1 DEF Settled
  <2>2. CASE Reserve \/ Reserved
    <3>1. /\ UNCHANGED <<cur, backend, meter, left>> /\ left = "no"
          /\ \A a \in Attempts : a # cur => slot'[a] = slot[a]
          /\ \/ pc' = "reserving" /\ slot'[cur] = "counted"
             \/ pc' = "routing" /\ slot'[cur] \in {"held", "none"}
      BY <2>0, <2>2 DEF Reserve, Reserved, Settled, TypeOK, cur
    <3>2. QED
      BY <2>0, <3>1 DEF Settled
  <2>3. CASE Blocked
    <3>1. /\ UNCHANGED <<cur, backend, slot, left>> /\ pc = "routing" /\ pc' = "failing"
          /\ \A a \in Attempts : a # cur => meter'[a] = meter[a]
      BY <2>0, <2>3 DEF Blocked, cur
    <3>2. QED
      BY <2>0, <2>a, <3>1 DEF Settled
  <2>4. CASE Route
    <3>1. /\ UNCHANGED <<cur, slot, meter, left>> /\ pc = "routing" /\ pc' = "checking"
          /\ \A a \in Attempts : a # cur => backend'[a] = backend[a]
      BY <2>0, <2>4 DEF Route, TypeOK, cur
    <3>2. QED
      BY <2>0, <2>a, <3>1 DEF Settled
  <2>5. CASE Answer \/ EndUnmetered \/ StreamEnds
    <3>1. /\ UNCHANGED <<cur, backend, left>> /\ GiveSlotBack
          /\ pc \notin {"reserving", "ended"} /\ pc' = "ended"
          /\ \A a \in Attempts : meter'[a].error = meter[a].error
      BY <2>0, <2>5 DEF Answer, EndUnmetered, StreamEnds, cur
    <3>2. QED
      BY <2>0, <3>1 DEF Settled
  <2>6. CASE SendFinal
    <3>1. /\ UNCHANGED <<cur, backend, slot, left>> /\ pc = "calling" /\ pc' = "tail"
          /\ \A a \in Attempts : meter'[a].error = meter[a].error
      BY <2>0, <2>6 DEF SendFinal, cur
    <3>2. QED
      BY <2>0, <3>1 DEF Settled
  <2>7. CASE HopToBackend \/ FallBack
    <3>1. /\ UNCHANGED <<backend, left>> /\ GiveSlotBack /\ left = "no"
          /\ pc = "failing" /\ pc' = "gate"
          /\ meter' = [meter EXCEPT ![cur].error = @ + 1]
      BY <2>7 DEF HopToBackend, FallBack, Recorded, BeginAttempt, Settled
    <3>2. /\ \A a \in Attempts : slot'[a] = "none"
          /\ \A a \in Attempts : meter[a].error > 0 => meter'[a].error > 0
          /\ meter'[cur].error > 0
      BY <2>0, <3>1 DEF Settled, TypeOK
    <3>3. /\ cur' \in Attempts /\ cur' # cur
          /\ \A a \in Attempts :
                 /\ Before(a, cur') =>
                        a = cur \/ Before(a, cur) \/ (a = <<at, TRUE>> /\ ~Before(a, cur))
                 /\ a # cur' /\ ~Before(a, cur') => a # cur /\ ~Before(a, cur)
      <4>1. \A a \in Attempts : a = <<a[1], a[2]>> /\ a[1] \in Nat /\ a[2] \in BOOLEAN
        BY ChatAssumption DEF Attempts, Candidates
      <4>2. at \in Nat /\ hop \in BOOLEAN
        BY <2>0, ChatAssumption DEF TypeOK, Candidates
      <4>3. cur' \in Attempts
        <5>1. Len(req.tags) \in Candidates /\ at \in 1..Len(req.tags)
          BY <2>0, CandidatesFit DEF Typed, TypeOK
        <5>2. at' = at \/ (at < Len(req.tags) /\ at' = at + 1)
          BY <2>7 DEF HopToBackend, FallBack, MayFallBack
        <5>3. hop' \in BOOLEAN
          BY <2>7 DEF HopToBackend, FallBack
        <5>4. QED
          BY <5>1, <5>2, <5>3, ChatAssumption DEF Candidates, Attempts, cur
      <4>4. \/ at' = at /\ hop = FALSE /\ hop' = TRUE
            \/ at' = at + 1 /\ hop' = FALSE
        BY <2>0, <2>7 DEF HopToBackend, FallBack, MayHop, TypeOK
      <4>5. /\ cur = <<at, hop>> /\ cur[1] = at /\ cur[2] = hop
            /\ cur' = <<at', hop'>> /\ cur'[1] = at' /\ cur'[2] = hop'
        BY DEF cur
      <4>6. cur' # cur
        BY <4>2, <4>4, <4>5
      <4>7. ASSUME NEW a \in Attempts, Before(a, cur')
            PROVE  a = cur \/ Before(a, cur) \/ (a = <<at, TRUE>> /\ ~Before(a, cur))
        <5>1. CASE a[1] # at
          <6>1. a[1] < at' \/ (a[1] = at' /\ hop' = TRUE)
            BY <4>5, <4>7 DEF Before
          <6>2. a[1] < at
            BY <4>1, <4>2, <4>4, <5>1, <6>1
          <6>3. QED
            BY <4>5, <6>2 DEF Before
        <5>2. CASE a[1] = at /\ a[2] = hop
          BY <4>1, <4>5, <5>2
        <5>3. CASE a[1] = at /\ a[2] # hop /\ hop
          BY <4>1, <4>2, <4>5, <5>3 DEF Before
        <5>4. CASE a[1] = at /\ a[2] # hop /\ ~hop
          BY <4>1, <4>2, <4>5, <5>4 DEF Before
        <5>5. QED
          BY <5>1, <5>2, <5>3, <5>4
      <4>8. ASSUME NEW a \in Attempts, a # cur', ~Before(a, cur')
            PROVE  a # cur /\ ~Before(a, cur)
        <5>1. Before(cur, cur')
          BY <4>2, <4>4, <4>5 DEF Before
        <5>2. Before(a, cur) => Before(a, cur')
          BY <4>1, <4>2, <4>4, <4>5 DEF Before
        <5>3. QED
          BY <4>8, <5>1, <5>2
      <4>9. QED
        BY <4>3, <4>6, <4>7, <4>8
    <3>4. ASSUME NEW a \in Attempts, Before(a, cur'), backend[a] # 0 \/ ~a[2]
          PROVE  meter'[a].error > 0
      <4>1. CASE a = cur
        BY <3>2, <4>1
      <4>2. CASE Before(a, cur)
        BY <3>2, <3>4, <4>2 DEF Settled
      <4>3. CASE a # cur /\ ~Before(a, cur) /\ a = <<at, TRUE>>
        <5>1. backend[a] = 0 /\ a[2] = TRUE
          BY <4>3 DEF Settled
        <5>2. QED
          BY <3>4, <5>1
      <4>4. QED
        BY <3>3, <3>4, <4>1, <4>2, <4>3
    <3>5. QED
      BY <3>1, <3>2, <3>3, <3>4 DEF Settled
  <2>8. CASE Raise
    <3>1. /\ UNCHANGED <<cur, backend, left>> /\ GiveSlotBack /\ left = "no"
          /\ pc = "failing" /\ pc' = "ended"
          /\ meter' = [meter EXCEPT ![cur].error = @ + 1]
      BY <2>8 DEF Raise, Recorded, Settled, cur
    <3>2. QED
      BY <2>0, <2>a, <3>1 DEF Settled
  <2>9. CASE Leave \/ LeaveFailing
    <3>1. /\ UNCHANGED <<cur, backend>> /\ GiveSlotBack
          /\ pc # "ended" /\ pc' = "ended" /\ left' = pc /\ left = "no"
      BY <2>9 DEF Leave, LeaveFailing, Settled, cur
    <3>2. \A a \in Attempts : a # cur => meter'[a].error = meter[a].error
      BY <2>0, <2>9 DEF Leave, LeaveFailing, MeterAbandoned
    <3>3. pc # "failing" => meter'[cur].success + meter'[cur].error > 0
      BY <2>0, <2>9 DEF Leave, LeaveFailing, MeterAbandoned
    <3>4. QED
      BY <2>0, <2>a, <3>1, <3>2, <3>3 DEF Settled
  <2>10. CASE UNCHANGED vars
    BY <2>10 DEF vars, Settled, cur
  <2>11. QED
    BY <2>1, <2>2, <2>3, <2>4, <2>5, <2>6, <2>7, <2>8, <2>9, <2>10 DEF Next, Service
<1>3. QED
  BY <1>1, <1>2, TypedAlways, PTL DEF Spec

\* Every attempt is accounted for: billed for one, a row for each that failed or
\* was left, and no slot kept.
THEOREM AttemptsAccounted == Spec => []Accounted
<1>1. Typed /\ Committed /\ Settled => Accounted
  <2> SUFFICES ASSUME Typed, Committed, Settled PROVE Accounted
    OBVIOUS
  <2>1. cur \in Attempts
    BY DEF Typed, TypeOK, Attempts, cur
  <2>2. BilledOnce
    BY DEF Committed, BilledOnce
  <2>3. NeverSilent
    BY <2>1, TurnOrder DEF Settled, NeverSilent
  <2>4. SlotsReturned
    BY DEF Settled, SlotsReturned
  <2>5. QED
    BY <2>2, <2>3, <2>4 DEF Accounted
<1>2. QED
  BY <1>1, TypedAlways, CommittedAlways, SettledAlways, PTL

-----------------------------------------------------------------------------
(* Hops.                                                                    *)

\* A hop is made from a backend of the deployment, and its own is another one.
HopsApart ==
    /\ hop => owner[<<at, FALSE>>] = "deployment" /\ backend[<<at, FALSE>>] # 0
    /\ HopElsewhere

\* A call is repeated neither after a timeout nor at the backend that failed.
THEOREM RepeatsAreSound == Spec => []RepeatsSound
<1>1. Init => HopsApart
  BY DEF Init, HopsApart, HopElsewhere, None, Attempts
<1>2. Typed /\ Settled /\ HopsApart /\ [Next]_vars => HopsApart'
  <2> SUFFICES ASSUME Typed, Settled, HopsApart, [Next]_vars PROVE HopsApart'
    OBVIOUS
  <2> USE DEF Fail, End, place, serving, call
  <2>0. /\ TypeOK /\ cur \in Attempts /\ at \in Candidates /\ hop \in BOOLEAN
        /\ <<at, FALSE>> \in Attempts /\ <<at, TRUE>> \in Attempts
    BY DEF Typed, TypeOK, Attempts, cur
  <2>1. ASSUME UNCHANGED <<backend, owner>>, UNCHANGED <<at, hop>> \/ ~hop'
        PROVE  HopsApart'
    <3>1. CASE UNCHANGED <<at, hop>>
      BY <2>1, <3>1 DEF HopsApart, HopElsewhere
    <3>2. CASE ~hop'
      BY <2>1, <3>2 DEF HopsApart, HopElsewhere
    <3>3. QED
      BY <2>1, <3>1, <3>2
  <2>2. CASE Refuse \/ Reserve \/ Reserved \/ Missing \/ Blocked \/ Check \/ BreakerOpen
             \/ Answer \/ Retry \/ CallAgain \/ ReportUsage \/ SendChunk
    BY <2>1, <2>2 DEF Refuse, Reserve, Reserved, Missing, Blocked, Check, BreakerOpen,
                      Answer, Retry, CallAgain, ReportUsage, SendChunk
  <2>3. CASE SendFinal \/ EndUnmetered \/ StreamEnds \/ Fault \/ TimeOut \/ FallBack
             \/ Raise \/ Leave \/ LeaveFailing
    BY <2>1, <2>3 DEF SendFinal, EndUnmetered, StreamEnds, Fault, TimeOut, FallBack,
                      Recorded, Raise, Leave, LeaveFailing
  <2>4. CASE HopToBackend
    <3>1. UNCHANGED <<at, backend, owner>> /\ ~hop
      BY <2>4 DEF HopToBackend, Recorded, MayHop
    <3>2. backend[<<at, FALSE>>] # 0 /\ owner[<<at, FALSE>>] = "deployment"
      BY <2>0, <2>4, <3>1 DEF HopToBackend, MayHop, CanHop, cur
    <3>3. QED
      BY <3>1, <3>2 DEF HopsApart, HopElsewhere
  <2>5. CASE Route
    <3>0. UNCHANGED <<at, hop>> /\ backend' \in [Attempts -> Backends \union {0}]
          /\ (\A a \in Attempts : a # cur => backend'[a] = backend[a])
          /\ (\A a \in Attempts : a # cur => owner'[a] = owner[a])
      <4>1. Tag \notin UserTags => Resolve(Excluded) \in Backends \union {0}
        BY ResolveServes
      <4>2. QED
        BY <2>0, <2>5, <4>1 DEF Route, TypeOK
    <3>1. CASE ~hop
      <4>1. cur = <<at, FALSE>> /\ <<at, TRUE>> # cur /\ ~Before(<<at, TRUE>>, cur)
        <5>1. hop = FALSE /\ at \in Nat
          BY <2>0, <3>1, ChatAssumption DEF Candidates
        <5>2. /\ cur = <<at, FALSE>> /\ cur[1] = at /\ cur[2] = FALSE
              /\ <<at, TRUE>>[1] = at /\ <<at, TRUE>>[2] = TRUE
          BY <5>1 DEF cur
        <5>3. QED
          BY <5>1, <5>2 DEF Before
      <4>2. backend[<<at, TRUE>>] = 0
        BY <2>0, <4>1 DEF Settled
      <4>3. backend'[<<at, TRUE>>] = 0
        BY <2>0, <3>0, <4>1, <4>2
      <4>4. ASSUME NEW c \in Candidates, c # at
            PROVE  /\ backend'[<<c, TRUE>>] = backend[<<c, TRUE>>]
                   /\ backend'[<<c, FALSE>>] = backend[<<c, FALSE>>]
                   /\ owner'[<<c, TRUE>>] = owner[<<c, TRUE>>]
                   /\ owner'[<<c, FALSE>>] = owner[<<c, FALSE>>]
        BY <3>0, <4>1, <4>4 DEF Attempts
      <4>5. QED
        BY <3>0, <3>1, <4>3, <4>4 DEF HopsApart, HopElsewhere
    <3>2. CASE hop
      <4>1. cur = <<at, TRUE>> /\ <<at, FALSE>> # cur /\ Excluded = {backend[<<at, FALSE>>]}
        BY <3>2, <2>0 DEF cur, Excluded
      <4>2. /\ backend'[<<at, FALSE>>] = backend[<<at, FALSE>>]
            /\ owner'[<<at, FALSE>>] = "deployment" /\ backend[<<at, FALSE>>] # 0
        BY <2>0, <3>0, <3>2, <4>1 DEF HopsApart
      <4>3. owner'[cur] = "deployment" => backend'[cur] # backend[<<at, FALSE>>]
        <5>1. CASE Tag \in UserTags \/ owner' = [owner EXCEPT ![cur] = "byok"]
          <6>1. owner'[cur] \in {"byok", "byom"}
            BY <2>0, <2>5, <5>1 DEF Route, TypeOK
          <6>2. QED
            BY <6>1
        <5>2. CASE /\ Tag \notin UserTags /\ Resolve(Excluded) # 0
                   /\ backend' = [backend EXCEPT ![cur] = Resolve(Excluded)]
          <6>1. Resolve(Excluded) \in req.serves[Tag] \ Excluded
            BY <5>2, ResolveServes
          <6>2. backend'[cur] = Resolve(Excluded)
            BY <2>0, <5>2 DEF TypeOK
          <6>3. QED
            BY <4>1, <6>1, <6>2
        <5>3. QED
          BY <2>5, <5>1, <5>2 DEF Route
      <4>4. ASSUME NEW c \in Candidates, c # at
            PROVE  /\ backend'[<<c, TRUE>>] = backend[<<c, TRUE>>]
                   /\ backend'[<<c, FALSE>>] = backend[<<c, FALSE>>]
                   /\ owner'[<<c, TRUE>>] = owner[<<c, TRUE>>]
                   /\ owner'[<<c, FALSE>>] = owner[<<c, FALSE>>]
        BY <3>0, <4>1, <4>4 DEF Attempts
      <4>5. QED
        BY <3>0, <4>1, <4>2, <4>3, <4>4 DEF HopsApart, HopElsewhere
    <3>3. QED
      BY <2>0, <3>1, <3>2
  <2>6. CASE UNCHANGED vars
    BY <2>1, <2>6 DEF vars
  <2>7. QED
    BY <2>2, <2>3, <2>4, <2>5, <2>6 DEF Next, Service
<1>3. TimeoutsTerminal /\ HopsApart => RepeatsSound
  BY DEF HopsApart, RepeatsSound
<1>4. QED
  BY <1>1, <1>2, <1>3, TypedAlways, SettledAlways, TimeoutIsLast, PTL DEF Spec
=============================================================================
