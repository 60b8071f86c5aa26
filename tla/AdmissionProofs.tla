--------------------------- MODULE AdmissionProofs ---------------------------
(***************************************************************************)
(* What decides whether a request may go to a provider: the limits of its   *)
(* caller, for every number of requests and every limit, however many       *)
(* commands fail, counters are lost and windows end; and the circuit breaker *)
(* of the provider, for every number of concurrent calls and every setting   *)
(* of its parameters.                                                       *)
(***************************************************************************)
EXTENDS Limits, CircuitBreaker, FiniteSetTheorems, TLAPS

-----------------------------------------------------------------------------
(* Types.                                                                   *)

\* The types are inductive with the one sum that is lessened again.
TypeInv ==
    /\ TypeOK
    /\ \A r \in Requests : At(r, "topup") => req[r].sum > 1

\* The limits are positive numbers.
LEMMA LimitsPositive ==
    /\ \A s \in Subjects : Limit[s] \in Nat /\ Limit[s] >= 1
    /\ MinuteLimit \in Nat /\ HourLimit \in Nat /\ Threshold \in Nat
    /\ MinuteLimit >= 1 /\ HourLimit >= 1 /\ Threshold >= 1
BY LimitsAssumption DEF Subjects, Limit

\* A request that moves to another state of its own leaves the others alone.
LEMMA RequestMoves ==
    ASSUME TypeOK, NEW r \in Requests, NEW x \in RequestStates, Becomes(r, x)
    PROVE  /\ req' \in [Requests -> RequestStates]
           /\ req'[r] = x
           /\ \A q \in Requests : q # r => req'[q] = req[q]
BY DEF TypeOK, Becomes

\* The states a request is put in are states of a request.
LEMMA StatesTyped ==
    ASSUME NEW x \in RequestStates, NEW r \in Requests
    PROVE  /\ Idle \in RequestStates
           /\ AfterRate(x) \in RequestStates /\ AfterRate(x).pc \in {"peek", "trust"}
           /\ AskTrust(r, x) \in RequestStates
           /\ AskTrust(r, x).pc \in {"trust", "accrue", "serving"}
           /\ \A pc \in {"hit", "get", "sum", "load", "charge", "commit", "insert", "month"} :
                [x EXCEPT !.pc = pc] \in RequestStates /\ [x EXCEPT !.pc = pc].pc = pc
<1>1. Idle \in RequestStates
  BY DEF Idle, RequestStates, Subjects
<1>2. AfterRate(x) \in RequestStates /\ AfterRate(x).pc \in {"peek", "trust"}
  BY DEF AfterRate, RequestStates, Subjects
<1>3. AskTrust(r, x) \in RequestStates /\ AskTrust(r, x).pc \in {"trust", "accrue", "serving"}
  BY DEF AskTrust, RequestStates, Subjects
<1>4. \A pc \in {"hit", "get", "sum", "load", "charge", "commit", "insert", "month"} :
                [x EXCEPT !.pc = pc] \in RequestStates /\ [x EXCEPT !.pc = pc].pc = pc
  BY DEF RequestStates
<1>5. QED
  BY <1>1, <1>2, <1>3, <1>4

\* Deciding on a sum puts a request into a state.
LEMMA DecideTyped ==
    ASSUME TypeOK, NEW r \in Requests, NEW n, Decide(r, n)
    PROVE  \E x \in RequestStates : Becomes(r, x) /\ x.pc # "topup"
<1>1. req[r] \in RequestStates
  BY DEF TypeOK
<1>2. [Idle EXCEPT !.pc = "serving"] \in RequestStates /\ Idle.pc = "idle"
  BY DEF Idle, RequestStates, Subjects
<1>3. [Idle EXCEPT !.pc = "serving"].pc = "serving"
  BY DEF Idle
<1>4. QED
  BY <1>1, <1>2, <1>3, StatesTyped DEF Decide

\* So does the verdict on the account's profile.
LEMMA EnforceTyped ==
    ASSUME TypeOK, NEW r \in Requests, NEW p, Enforce(r, p)
    PROVE  \E x \in RequestStates : Becomes(r, x) /\ x.pc # "topup"
<1>1. req[r] \in RequestStates
  BY DEF TypeOK
<1> DEFINE x == req[r]
           a == [x EXCEPT !.pc = "accrue", !.profile = "none"]
           b == [Idle EXCEPT !.pc = "peek", !.subject = "account"]
           c == [Idle EXCEPT !.pc = "serving"]
<1>2. a \in RequestStates /\ a.pc # "topup"
  BY <1>1 DEF RequestStates
<1>3. b \in RequestStates /\ b.pc # "topup" /\ c \in RequestStates /\ c.pc # "topup"
  BY DEF Idle, RequestStates, Subjects
<1>4. Becomes(r, a) \/ Becomes(r, b) \/ Becomes(r, c)
  BY DEF Enforce
<1>5. QED
  BY <1>2, <1>3, <1>4

\* Every step of a request keeps the types.
LEMMA ProceedTyped ==
    ASSUME TypeInv, NEW r \in Requests, Arrive(r) \/ Proceed(r)
    PROVE  TypeInv'
<1>1. TypeOK /\ req[r] \in RequestStates
  BY DEF TypeInv, TypeOK
<1> USE <1>1, LimitsAssumption
<1> DEFINE x == req[r]
           Moved == \E y \in RequestStates : Becomes(r, y) /\ (y.pc = "topup" => y.sum > 1)
           Kept == /\ req' \in [Requests -> RequestStates]
                   /\ \A q \in Requests : At(q, "topup")' => req[q].sum' > 1
           Same == /\ lane' = lane /\ rolls' = rolls /\ faults' \in 0 .. MaxFaults
<1>2. ASSUME Moved PROVE Kept
  <2>1. PICK y \in RequestStates : Becomes(r, y) /\ (y.pc = "topup" => y.sum > 1)
    BY <1>2
  <2>2. /\ req' \in [Requests -> RequestStates] /\ req'[r] = y
        /\ \A q \in Requests : q # r => req'[q] = req[q]
    BY <2>1, RequestMoves
  <2>3. QED
    BY <2>1, <2>2 DEF TypeInv, At
<1>3. ASSUME \/ \E y \in RequestStates : Becomes(r, y) /\ y.pc # "topup"
             \/ \E n : Decide(r, n)
             \/ \E p : Enforce(r, p)
             \/ \E pc \in {"hit", "get", "sum", "load", "charge", "commit", "insert", "month"} :
                   GoTo(r, pc)
      PROVE  Kept
  BY <1>2, <1>3, DecideTyped, EnforceTyped, StatesTyped DEF GoTo
<1>4. ASSUME Works \/ Fault PROVE faults' \in 0 .. MaxFaults /\ rolls' = rolls
  BY <1>4 DEF Works, Fault, bound, TypeOK
<1> HIDE DEF x, Moved, Kept
<1>5. ASSUME Kept, lane' = lane, faults' \in 0 .. MaxFaults, rolls' = rolls,
             hits' \in [Windows -> Nat], counter' \in [Subjects -> Nat \cup {Absent}],
             trust' \in {"none", "ramp", "paid"}, tokens' \in Nat \cup {Absent},
             spent' \in Nat, fee' \in BOOLEAN, UNCHANGED <<paid, dropping>>,
             stale' \in [Subjects -> Nat], leaked' \in [Subjects -> Nat]
      PROVE  TypeInv'
  BY <1>5 DEF TypeInv, TypeOK, Kept, At
<1>6. CASE Arrive(r)
  <2> DEFINE y == [Idle EXCEPT !.pc = "rate"]
  <2>1. y \in RequestStates /\ y.pc # "topup"
    BY DEF Idle, RequestStates, Subjects
  <2>2. AfterRate(Idle) \in RequestStates /\ AfterRate(Idle).pc # "topup"
    BY StatesTyped
  <2>3. Kept
    BY <1>3, <1>6, <2>1, <2>2 DEF Arrive
  <2>4. QED
    BY <1>5, <1>6, <2>3 DEF Arrive, TypeOK, redis, books, past, bound
<1>7. CASE CountHits(r)
  <2>1. Kept
    BY <1>3, <1>7, StatesTyped DEF CountHits, Idle
  <2>2. QED
    BY <1>4, <1>5, <1>7, <2>1 DEF CountHits, TypeOK, redis, books, past
<1>8. CASE AddHit(r)
  <2>1. Kept
    BY <1>3, <1>8, StatesTyped DEF AddHit
  <2>2. hits' \in [Windows -> Nat] /\ (Works \/ Fault)
    BY <1>8 DEF AddHit, TypeOK
  <2>3. QED
    BY <1>4, <1>5, <1>8, <2>1, <2>2 DEF AddHit, TypeOK, books, past
<1>9. CASE GetCounter(r)
  <2>1. Kept
    BY <1>3, <1>9 DEF GetCounter
  <2>2. QED
    BY <1>4, <1>5, <1>9, <2>1 DEF GetCounter, TypeOK, redis, books, past
<1>10. CASE SumLedger(r)
  <2>1. Kept
    <3>1. [req[r] EXCEPT !.pc = "seed", !.sum = spent] \in RequestStates
      BY DEF RequestStates, TypeOK
    <3>2. [req[r] EXCEPT !.pc = "seed", !.sum = spent].pc = "seed"
      BY DEF RequestStates
    <3>3. QED
      BY <1>3, <1>10, <3>1, <3>2 DEF SumLedger
  <2>2. leaked' \in [Subjects -> Nat]
    BY <1>10 DEF SumLedger, Leak, TypeOK
  <2>3. QED
    BY <1>4, <1>5, <1>10, <2>1, <2>2 DEF SumLedger, TypeOK, redis, books
<1>11. CASE Seed(r)
  <2>1. Kept
    BY <1>3, <1>11 DEF Seed
  <2>2. req[r].sum \in Nat
    BY DEF RequestStates
  <2>3. counter' \in [Subjects -> Nat \cup {Absent}] /\ stale' \in [Subjects -> Nat]
    BY <1>11, <2>2 DEF Seed, TypeOK
  <2>4. QED
    BY <1>4, <1>5, <1>11, <2>1, <2>3 DEF Seed, TypeOK, redis, books
<1>12. CASE GetTrust(r)
  <2>1. Kept
    <3>1. [req[r] EXCEPT !.pc = "serving"] \in RequestStates
      BY DEF RequestStates
    <3>2. [req[r] EXCEPT !.pc = "serving"].pc # "topup"
      BY DEF RequestStates
    <3>3. QED
      BY <1>3, <1>12, <3>1, <3>2 DEF GetTrust, GoTo
  <2>2. QED
    BY <1>4, <1>5, <1>12, <2>1 DEF GetTrust, TypeOK, redis, books, past
<1>13. CASE LoadTrust(r)
  <2>1. Kept
    <3> DEFINE y == [req[r] EXCEPT !.pc = "keep", !.profile = IF paid THEN "paid" ELSE "ramp"]
    <3>1. y \in RequestStates /\ y.pc # "topup"
      BY DEF RequestStates
    <3>2. QED
      BY <1>3, <1>13, <3>1 DEF LoadTrust
  <2>2. leaked' \in [Subjects -> Nat]
    BY <1>13 DEF LoadTrust, Leak, TypeOK
  <2>3. QED
    BY <1>4, <1>5, <1>13, <2>1, <2>2 DEF LoadTrust, TypeOK, redis, books
<1>14. CASE KeepTrust(r)
  <2>1. Kept
    BY <1>3, <1>14 DEF KeepTrust
  <2>2. trust' \in {"none", "ramp", "paid"}
    BY <1>14 DEF KeepTrust, TypeOK, RequestStates
  <2>3. QED
    BY <1>4, <1>5, <1>14, <2>1, <2>2 DEF KeepTrust, TypeOK, books, past
<1>15. CASE Answer(r)
  <2> DEFINE y == [Idle EXCEPT !.pc = "record", !.served = TRUE]
  <2>1. y \in RequestStates /\ y.pc # "topup" /\ Idle.pc # "topup" /\ Idle \in RequestStates
    BY DEF RequestStates, Idle, Subjects
  <2>2. Kept
    BY <1>3, <1>15, <2>1 DEF Answer
  <2>3. QED
    BY <1>5, <1>15, <2>2 DEF Answer, TypeOK, redis, books, past, bound
<1>16. CASE Record(r)
  <2> DEFINE y == [req[r] EXCEPT !.row = "flushed",
                                 !.pc = IF "fee" \in lane THEN "incr" ELSE "commit"]
  <2>1. y \in RequestStates /\ y.pc # "topup"
    BY DEF RequestStates
  <2>2. Kept
    BY <1>3, <1>16, <2>1 DEF Record
  <2>3. QED
    BY <1>5, <1>16, <2>2 DEF Record, TypeOK, redis, books, past, bound
<1>17. CASE IncrTokens(r)
  <2> DEFINE total == Counted(r, 1)
             y == [req[r] EXCEPT !.pc = IF total = 1 THEN "reseed" ELSE "charge",
                                 !.sum = IF req[r].old THEN 0 ELSE total]
  <2>1. total \in Nat \cup {Absent} /\ (~req[r].old => total \in Nat)
    BY DEF Counted, TypeOK
  <2>2. y \in RequestStates /\ y.pc # "topup"
    <3> HIDE DEF total
    <3>1. QED
      BY <2>1 DEF RequestStates
  <2>3. Kept
    BY <1>3, <1>17, <2>2 DEF IncrTokens
  <2>4. tokens' \in Nat \cup {Absent}
    BY <1>17, <2>1 DEF IncrTokens, TypeOK
  <2>5. QED
    BY <1>4, <1>5, <1>17, <2>3, <2>4 DEF IncrTokens, TypeOK, books, past
<1>18. CASE ReadMonth(r)
  <2> DEFINE total == MonthTokens(r)
             n == IF At(r, "reseed") /\ total <= 1 THEN 1 ELSE total
             pc == IF At(r, "reseed") /\ total > 1 THEN "topup" ELSE "charge"
             y == [req[r] EXCEPT !.sum = n, !.pc = pc]
  <2>1. total \in Nat
    BY DEF MonthTokens, TypeOK
  <2>2. y \in RequestStates /\ (y.pc = "topup" => y.sum > 1)
    <3> HIDE DEF total
    <3>1. n \in Nat /\ pc \in {"topup", "charge"} /\ (pc = "topup" => n > 1)
      BY <2>1
    <3> HIDE DEF n, pc
    <3>2. QED
      BY <3>1 DEF RequestStates
  <2>3. Kept
    BY <1>2, <1>18, <2>2 DEF ReadMonth, Moved
  <2>4. QED
    BY <1>5, <1>18, <2>3 DEF ReadMonth, TypeOK, redis, books, past, bound
<1>19. CASE TopUp(r)
  <2>1. Kept
    BY <1>3, <1>19 DEF TopUp
  <2>2. req[r].sum - 1 \in Nat
    <3>1. req[r].sum \in Nat
      BY DEF RequestStates
    <3>2. req[r].sum > 1
      BY <1>19 DEF TopUp, TypeInv
    <3>3. QED
      BY <3>1, <3>2
  <2>3. tokens' \in Nat \cup {Absent}
    <3> DEFINE n == req[r].sum - 1
    <3>1. Counted(r, n) \in Nat \cup {Absent}
      <4> HIDE DEF n
      <4>1. n \in Nat
        BY <2>2 DEF n
      <4>2. QED
        BY <4>1 DEF Counted, TypeOK
    <3>2. QED
      BY <1>19, <3>1 DEF TopUp, TypeOK
  <2>4. QED
    BY <1>4, <1>5, <1>19, <2>1, <2>3 DEF TopUp, TypeOK, books, past
<1>20. CASE MayCharge(r)
  <2>1. Kept
    BY <1>3, <1>20 DEF MayCharge
  <2>2. QED
    BY <1>5, <1>20, <2>1 DEF MayCharge, TypeOK, redis, books, past, bound
<1>21. CASE InsertFee(r)
  <2> DEFINE y == [req[r] EXCEPT !.pc = "commit", !.sum = 0,
                                 !.row = IF ~fee \/ req[r].old THEN "saved" ELSE "none"]
  <2>1. y \in RequestStates /\ y.pc # "topup"
    BY DEF RequestStates
  <2>2. Idle \in RequestStates /\ Idle.pc # "topup"
    BY StatesTyped DEF Idle
  <2>3. Kept
    <3>1. Becomes(r, y) \/ Becomes(r, Idle)
      BY <1>21 DEF InsertFee
    <3> HIDE DEF y
    <3>2. QED
      BY <1>3, <2>1, <2>2, <3>1
  <2>4. spent' \in Nat /\ fee' \in BOOLEAN
    <3>1. spent' \in {spent, spent + 1}
      BY <1>21 DEF InsertFee, Saved
    <3>2. fee' = fee \/ fee' = (fee \/ ~req[r].old)
      BY <1>21 DEF InsertFee
    <3>3. fee' \in BOOLEAN
      BY <3>2, Zenon DEF TypeOK
    <3>4. QED
      BY <3>1, <3>3 DEF TypeOK
  <2>5. QED
    BY <1>4, <1>5, <1>21, <2>3, <2>4 DEF InsertFee, TypeOK, redis, past
<1>22. CASE Commit(r)
  <2> DEFINE y == [req[r] EXCEPT !.row = "none", !.old = FALSE]
  <2>1. y \in RequestStates
    BY DEF RequestStates
  <2>2. AskTrust(r, y) \in RequestStates /\ AskTrust(r, y).pc # "topup"
    <3> HIDE DEF y
    <3>1. QED
      BY <2>1, StatesTyped
  <2>3. Idle \in RequestStates /\ Idle.pc # "topup"
    BY StatesTyped DEF Idle
  <2>4. Kept
    BY <1>3, <1>22, <2>2, <2>3 DEF Commit
  <2>5. spent' \in Nat /\ leaked' \in [Subjects -> Nat]
    BY <1>22 DEF Commit, Saved, TypeOK
  <2>6. QED
    BY <1>4, <1>5, <1>22, <2>4, <2>5 DEF Commit, TypeOK, redis
<1>23. CASE Accrue(r)
  <2>1. Idle \in RequestStates /\ Idle.pc # "topup"
    BY StatesTyped DEF Idle
  <2>2. Kept
    BY <1>3, <1>23, <2>1 DEF Accrue
  <2>3. /\ counter' \in [Subjects -> Nat \cup {Absent}] /\ leaked' \in [Subjects -> Nat]
        /\ Works \/ Fault
    BY <1>23 DEF Accrue, Incremented, TypeOK
  <2>4. QED
    BY <1>4, <1>5, <1>23, <2>2, <2>3 DEF Accrue, TypeOK, books
<1>24. QED
  BY <1>6, <1>7, <1>8, <1>9, <1>10, <1>11, <1>12, <1>13, <1>14, <1>15, <1>16, <1>17, <1>18,
     <1>19, <1>20, <1>21, <1>22, <1>23 DEF Proceed

\* Nor does anything around the requests break them.
LEMMA WorldTyped == TypeInv /\ World => TypeInv'
<1> SUFFICES ASSUME TypeInv, World PROVE TypeInv'
  OBVIOUS
<1> USE LimitsAssumption
<1> DEFINE Kept(f) == /\ f \in [Requests -> RequestStates]
                      /\ \A r \in Requests : f[r].pc = "topup" => f[r].sum > 1
<1>a. ASSUME Kept(req'), lane' = lane, faults' \in 0 .. MaxFaults, rolls' \in 0 .. MaxRolls,
             hits' \in [Windows -> Nat], counter' \in [Subjects -> Nat \cup {Absent}],
             trust' \in {"none", "ramp", "paid"}, tokens' \in Nat \cup {Absent},
             spent' \in Nat, fee' \in BOOLEAN, paid' \in BOOLEAN, dropping' \in BOOLEAN,
             stale' \in [Subjects -> Nat], leaked' \in [Subjects -> Nat]
      PROVE  TypeInv'
  BY <1>a DEF TypeInv, TypeOK, At
<1>b. TypeOK /\ Kept(req)
  BY DEF TypeInv, TypeOK, At
<1>c. ASSUME req' = req PROVE Kept(req')
  BY <1>b, <1>c
<1> HIDE DEF Kept
<1> USE <1>b
<1>1. ASSUME NEW w \in Windows, Slide(w) PROVE TypeInv'
  <2>1. hits' \in [Windows -> Nat]
    BY <1>1 DEF Slide, TypeOK
  <2>2. QED
    BY <1>1, <1>a, <1>c, <2>1 DEF Slide, TypeOK, books, past, bound
<1>2. ASSUME NEW s \in Subjects, Evict(s) PROVE TypeInv'
  <2>1. counter' \in [Subjects -> Nat \cup {Absent}]
    BY <1>2 DEF Evict, TypeOK
  <2>2. QED
    BY <1>2, <1>a, <1>c, <2>1 DEF Evict, Fault, TypeOK, books, past
<1>3. CASE EvictTokens
  BY <1>3, <1>a, <1>c DEF EvictTokens, Fault, TypeOK, books, past
<1>4. CASE Roll
  <2> DEFINE f == [r \in Requests |->
         IF req[r].pc \in {"get", "sum", "seed"}
         THEN [req[r] EXCEPT !.pc = "seed", !.old = TRUE,
                             !.sum = IF At(r, "seed") THEN @ ELSE spent]
         ELSE IF req[r].row # "none" THEN [req[r] EXCEPT !.old = TRUE]
         ELSE req[r]]
  <2>1. ASSUME NEW r \in Requests
        PROVE  f[r] \in RequestStates /\ (f[r].pc = "topup" => f[r].sum > 1)
    <3>1. req[r] \in RequestStates /\ spent \in Nat /\ (req[r].pc = "topup" => req[r].sum > 1)
      BY DEF TypeOK, Kept
    <3>2. CASE req[r].pc \in {"get", "sum", "seed"}
      <4> DEFINE n == IF At(r, "seed") THEN req[r].sum ELSE spent
      <4>1. n \in Nat
        BY <3>1 DEF RequestStates
      <4>2. f[r] = [req[r] EXCEPT !.pc = "seed", !.old = TRUE, !.sum = n]
        BY <3>2, SMTT(20)
      <4> HIDE DEF n, f
      <4>3. QED
        BY <3>1, <4>1, <4>2 DEF RequestStates
    <3>3. CASE req[r].pc \notin {"get", "sum", "seed"}
      <4>1. f[r] \in {[req[r] EXCEPT !.old = TRUE], req[r]}
        BY <3>3
      <4> HIDE DEF f
      <4>2. CASE f[r] = req[r]
        BY <3>1, <4>2
      <4>3. CASE f[r] = [req[r] EXCEPT !.old = TRUE]
        BY <3>1, <4>3 DEF RequestStates
      <4>4. QED
        BY <4>1, <4>2, <4>3
    <3>4. QED
      BY <3>2, <3>3
  <2>2. req' = f
    BY <1>4 DEF Roll
  <2>3. Kept(req')
    <3> HIDE DEF f
    <3>1. f = [r \in Requests |-> f[r]]
      BY DEF f
    <3>2. QED
      BY <2>1, <2>2, <3>1 DEF Kept
  <2>4. /\ counter' \in [Subjects -> Nat \cup {Absent}] /\ tokens' \in Nat \cup {Absent}
        /\ stale' \in [Subjects -> Nat] /\ leaked' \in [Subjects -> Nat]
    BY <1>4 DEF Roll
  <2>5. spent' \in Nat /\ fee' \in BOOLEAN /\ rolls' \in 0 .. MaxRolls
    <3>1. spent' = 0 /\ fee' = FALSE /\ rolls < MaxRolls /\ rolls' = rolls + 1
      BY <1>4 DEF Roll
    <3>2. fee' \in BOOLEAN /\ spent' \in Nat
      BY <3>1
    <3>3. rolls \in Nat /\ MaxRolls \in Nat
      BY DEF TypeOK
    <3>4. rolls' \in 0 .. MaxRolls
      BY <3>1, <3>3
    <3>5. QED
      BY <3>2, <3>4
  <2>6. QED
    BY <1>4, <1>a, <2>3, <2>4, <2>5 DEF Roll, TypeOK
<1>5. CASE Pay
  BY <1>5, <1>a, <1>c DEF Pay, TypeOK, redis, past, bound
<1>6. CASE DropTrust
  <2>1. trust' \in {"none", "ramp", "paid"} /\ dropping' \in BOOLEAN
    BY <1>6 DEF DropTrust, TypeOK
  <2>2. faults' \in 0 .. MaxFaults /\ rolls' \in 0 .. MaxRolls
    BY <1>6 DEF DropTrust, Works, Fault, TypeOK, bound
  <2>3. QED
    BY <1>6, <1>a, <1>c, <2>1, <2>2 DEF DropTrust, TypeOK, past
<1>7. CASE ExpireTrust
  BY <1>7, <1>a, <1>c DEF ExpireTrust, TypeOK, books, past, bound
<1>8. QED
  BY <1>1, <1>2, <1>3, <1>4, <1>5, <1>6, <1>7 DEF World

\* The types hold always.
LEMMA TypesHold == Spec => []TypeInv
<1>1. Init => TypeInv
  <2> SUFFICES ASSUME Init PROVE TypeInv
    OBVIOUS
  <2>1. Idle \in RequestStates /\ Idle.pc # "topup"
    BY DEF Idle, RequestStates, Subjects
  <2>2. req = [r \in Requests |-> Idle] /\ req \in [Requests -> RequestStates]
    BY <2>1 DEF Init
  <2>3. \A r \in Requests : req[r].pc # "topup"
    BY <2>1, <2>2
  <2>4. QED
    <3>1. /\ hits \in [Windows -> Nat] /\ counter \in [Subjects -> Nat \cup {Absent}]
          /\ stale \in [Subjects -> Nat] /\ leaked \in [Subjects -> Nat]
      BY DEF Init
    <3>2. faults \in 0 .. MaxFaults /\ rolls \in 0 .. MaxRolls
      BY LimitsAssumption DEF Init
    <3>3. TypeOK
      BY <2>2, <3>1, <3>2 DEF Init, TypeOK
    <3>4. QED
      BY <2>3, <3>3 DEF TypeInv, At
<1>2. TypeInv /\ UNCHANGED vars => TypeInv'
  BY DEF TypeInv, TypeOK, At, vars
<1>3. TypeInv /\ [Next]_vars => TypeInv'
  BY <1>2, ProceedTyped, WorldTyped DEF Next
<1>4. QED
  BY <1>1, <1>3, PTL DEF Spec

\* Every variable keeps its type.
THEOREM LimitsTyped == Spec => []TypeOK
<1>1. TypeInv => TypeOK
  BY DEF TypeInv
<1>2. QED
  BY <1>1, TypesHold, PTL

-----------------------------------------------------------------------------
(* Counting requests.                                                       *)

One(b) == IF b THEN 1 ELSE 0

\* Sets of requests are finite.
LEMMA Counts ==
    ASSUME NEW S \in SUBSET Requests
    PROVE  IsFiniteSet(S) /\ Cardinality(S) \in Nat /\ Cardinality(S) <= Cardinality(Requests)
BY LimitsAssumption, FS_Subset, FS_CardinalityType

\* Two sets of requests that tell only one request apart.
LEMMA Differ ==
    ASSUME NEW S \in SUBSET Requests, NEW T \in SUBSET Requests, NEW r \in Requests,
           \A q \in Requests : q # r => (q \in S <=> q \in T)
    PROVE  Cardinality(T) = Cardinality(S) + One(r \in T) - One(r \in S)
<1>1. /\ IsFiniteSet(S) /\ Cardinality(S) \in Nat /\ IsFiniteSet(T) /\ Cardinality(T) \in Nat
  BY Counts
<1>2. CASE (r \in S) = (r \in T)
  <2>1. S = T
    BY <1>2
  <2>2. QED
    BY <1>1, <1>2, <2>1 DEF One
<1>3. CASE r \in S /\ r \notin T
  <2>1. S = T \cup {r}
    BY <1>3
  <2>2. Cardinality(S) = Cardinality(T) + 1
    BY <1>1, <1>3, <2>1, FS_AddElement
  <2>3. QED
    BY <1>1, <1>3, <2>2 DEF One
<1>4. CASE r \notin S /\ r \in T
  <2>1. T = S \cup {r}
    BY <1>4
  <2>2. Cardinality(T) = Cardinality(S) + 1
    BY <1>1, <1>4, <2>1, FS_AddElement
  <2>3. QED
    BY <1>1, <1>4, <2>2 DEF One
<1>5. QED
  BY <1>2, <1>3, <1>4

\* A request moves only itself.
LEMMA OthersStay ==
    ASSUME TypeOK, NEW r \in Requests, Arrive(r) \/ Proceed(r)
    PROVE  /\ \A q \in Requests : q # r => req'[q] = req[q]
           /\ lane' = lane /\ paid' = paid /\ dropping' = dropping /\ rolls' = rolls
           /\ faults' \in {faults, faults + 1}
<1>1. \E x : Becomes(r, x)
  BY DEF Arrive, Proceed, CountHits, AddHit, GetCounter, SumLedger, Seed, GetTrust, LoadTrust,
         KeepTrust, Answer, Record, IncrTokens, ReadMonth, TopUp, MayCharge, InsertFee, Commit,
         Accrue, Decide, Enforce, GoTo
<1>2. \A q \in Requests : q # r => req'[q] = req[q]
  BY <1>1 DEF Becomes, TypeOK
<1>3. Works \/ Fault
  BY DEF Arrive, Proceed, CountHits, AddHit, GetCounter, SumLedger, Seed, GetTrust, LoadTrust,
         KeepTrust, Answer, Record, IncrTokens, ReadMonth, TopUp, MayCharge, InsertFee, Commit,
         Accrue, Works, bound
<1>4. lane' = lane /\ paid' = paid /\ dropping' = dropping
  BY DEF Arrive, Proceed, CountHits, AddHit, GetCounter, SumLedger, Seed, GetTrust, LoadTrust,
         KeepTrust, Answer, Record, IncrTokens, ReadMonth, TopUp, MayCharge, InsertFee, Commit,
         Accrue, books
<1>5. QED
  BY <1>2, <1>3, <1>4 DEF Works, Fault, bound

-----------------------------------------------------------------------------
(* What becomes of the fields of a request.                                 *)

\* All but the place of a request is kept.
SameRest(x, y) ==
    /\ y.subject = x.subject /\ y.sum = x.sum /\ y.profile = x.profile
    /\ y.served = x.served /\ y.row = x.row /\ y.old = x.old

\* A request that is over, or is let through to the provider.
Cleared(y) ==
    /\ y.subject = "key" /\ y.sum = 0 /\ y.profile = "none"
    /\ ~y.served /\ y.row = "none" /\ ~y.old

\* A request that is over, or that starts anew somewhere, holds nothing.
LEMMA IdleFields ==
    /\ Idle.pc = "idle" /\ Cleared(Idle)
    /\ \A pc : [Idle EXCEPT !.pc = pc].pc = pc /\ Cleared([Idle EXCEPT !.pc = pc])
BY DEF Idle, Cleared

\* A request becomes what it is said to become.
LEMMA BecomesFields ==
    ASSUME TypeOK, NEW r \in Requests, NEW x, Becomes(r, x)
    PROVE  req'[r] = x
BY DEF TypeOK, Becomes

\* A request that only moves keeps all the rest.
LEMMA GoToFields ==
    ASSUME TypeOK, NEW r \in Requests, NEW pc, GoTo(r, pc)
    PROVE  req'[r].pc = pc /\ SameRest(req[r], req'[r])
<1>1. req[r] \in RequestStates
  BY DEF TypeOK
<1>2. req'[r] = [req[r] EXCEPT !.pc = pc]
  BY BecomesFields DEF GoTo
<1>3. QED
  BY <1>1, <1>2 DEF RequestStates, SameRest

\* Past the rate limiter the key is asked first, if it has a budget.
LEMMA AfterRateFields ==
    ASSUME NEW x \in RequestStates
    PROVE  /\ AfterRate(x).pc \in {"peek", "trust"}
           /\ "key" \in lane => AfterRate(x).pc = "peek"
           /\ AfterRate(x).subject = "key" /\ AfterRate(x).sum = x.sum
           /\ AfterRate(x).profile = x.profile /\ AfterRate(x).served = x.served
           /\ AfterRate(x).row = x.row /\ AfterRate(x).old = x.old
BY DEF AfterRate, RequestStates

\* Past the key's budget, or past the commit, the account is asked unless none is to be.
LEMMA AskTrustFields ==
    ASSUME NEW r, NEW x \in RequestStates
    PROVE  /\ AskTrust(r, x).pc = (IF "account" \in lane /\ r \notin Embeddings THEN "trust"
                                   ELSE IF x.served THEN "accrue" ELSE "serving")
           /\ AskTrust(r, x).subject = x.subject /\ AskTrust(r, x).sum = 0
           /\ AskTrust(r, x).profile = x.profile /\ AskTrust(r, x).served = x.served
           /\ AskTrust(r, x).row = x.row /\ AskTrust(r, x).old = x.old
BY DEF AskTrust, RequestStates

\* A decision refuses, lets a key go on, or lets the account through.
LEMMA DecideFields ==
    ASSUME TypeOK, NEW r \in Requests, NEW n, Decide(r, n)
    PROVE  \/ /\ n >= Limit[req[r].subject] /\ req'[r].pc = "idle" /\ Cleared(req'[r])
           \/ /\ ~(n >= Limit[req[r].subject]) /\ req[r].subject = "key"
              /\ req'[r] = AskTrust(r, req[r])
           \/ /\ ~(n >= Limit[req[r].subject]) /\ req[r].subject # "key"
              /\ req'[r].pc = "serving" /\ Cleared(req'[r])
<1>1. \E x : Becomes(r, x)
  BY DEF Decide
<1>2. req'[r] = IF n >= Limit[req[r].subject] THEN Idle
                ELSE IF req[r].subject = "key" THEN AskTrust(r, req[r])
                ELSE [Idle EXCEPT !.pc = "serving"]
  BY BecomesFields DEF Decide
<1> DEFINE full == n >= Limit[req[r].subject]
<1> HIDE DEF full
<1>3. CASE full
  BY <1>2, <1>3, IdleFields DEF full
<1>4. CASE ~full /\ req[r].subject = "key"
  BY <1>2, <1>4 DEF full
<1>5. CASE ~full /\ req[r].subject # "key"
  <2>1. req'[r] = [Idle EXCEPT !.pc = "serving"]
    BY <1>2, <1>5 DEF full
  <2>2. req'[r].pc = "serving" /\ Cleared(req'[r])
    BY <2>1, IdleFields
  <2>3. QED
    BY <1>5, <2>2 DEF full
<1>6. QED
  BY <1>3, <1>4, <1>5

\* The verdict on the profile goes on to the counters, to the ceiling or to the
\* provider.
LEMMA EnforceFields ==
    ASSUME TypeOK, NEW r \in Requests, NEW p, Enforce(r, p)
    PROVE  LET x == req[r]
               y == req'[r]
           IN
           \/ /\ x.served /\ y.pc = "accrue" /\ y.served /\ y.subject = x.subject
              /\ y.row = x.row /\ y.old = x.old /\ y.profile = "none" /\ y.sum = x.sum
           \/ /\ ~x.served /\ p = "ramp" /\ y.pc = "peek" /\ y.subject = "account"
              /\ ~y.served /\ y.row = "none" /\ ~y.old /\ y.profile = "none" /\ y.sum = 0
           \/ ~x.served /\ p # "ramp" /\ y.pc = "serving" /\ Cleared(y)
<1> DEFINE x == req[r]
<1>1. x \in RequestStates
  BY DEF TypeOK
<1>2. req'[r] = IF x.served THEN [x EXCEPT !.pc = "accrue", !.profile = "none"]
                ELSE IF p = "ramp" THEN [Idle EXCEPT !.pc = "peek", !.subject = "account"]
                ELSE [Idle EXCEPT !.pc = "serving"]
  BY BecomesFields DEF Enforce
<1>3. CASE x.served
  <2>1. req'[r] = [x EXCEPT !.pc = "accrue", !.profile = "none"]
    BY <1>2, <1>3
  <2>2. QED
    BY <1>1, <1>3, <2>1 DEF RequestStates
<1>4. CASE ~x.served /\ p = "ramp"
  <2>1. req'[r] = [Idle EXCEPT !.pc = "peek", !.subject = "account"]
    BY <1>2, <1>4
  <2>2. QED
    BY <1>4, <2>1 DEF Idle
<1>5. CASE ~x.served /\ p # "ramp"
  <2>1. req'[r] = [Idle EXCEPT !.pc = "serving"]
    BY <1>2, <1>5
  <2>2. QED
    BY <1>5, <2>1, IdleFields
<1>6. QED
  BY <1>3, <1>4, <1>5

\* Where each step begins and where it leads.
LEMMA Leads ==
    ASSUME TypeOK, NEW r \in Requests
    PROVE  LET p == req[r].pc
               q == req'[r].pc
           IN
           /\ Arrive(r) => p = "idle" /\ q \in {"rate", "peek", "trust"}
           /\ CountHits(r) => p = "rate" /\ q \in {"idle", "hit", "peek", "trust"}
           /\ AddHit(r) => p = "hit" /\ q \in {"peek", "trust"}
           /\ GetCounter(r) => /\ p \in {"peek", "get"}
                               /\ q \in {"get", "sum", "idle", "trust", "accrue", "serving"}
           /\ SumLedger(r) => p = "sum" /\ q \in {"seed", "idle", "trust", "accrue", "serving"}
           /\ Seed(r) => p = "seed" /\ q \in {"idle", "trust", "accrue", "serving"}
           /\ GetTrust(r) => p = "trust" /\ q \in {"serving", "load", "accrue", "peek"}
           /\ LoadTrust(r) => p = "load" /\ q \in {"keep", "serving", "accrue", "peek"}
           /\ KeepTrust(r) => p = "keep" /\ q \in {"serving", "accrue", "peek"}
           /\ Answer(r) => p = "serving" /\ q \in {"record", "idle"}
           /\ Record(r) => p = "record" /\ q \in {"incr", "commit"}
           /\ IncrTokens(r) => p = "incr" /\ q \in {"reseed", "charge", "month"}
           /\ ReadMonth(r) => p \in {"reseed", "month"} /\ q \in {"topup", "charge"}
           /\ TopUp(r) => p = "topup" /\ q \in {"charge", "month"}
           /\ MayCharge(r) => p = "charge" /\ q \in {"commit", "insert"}
           /\ InsertFee(r) => p = "insert" /\ q \in {"commit", "idle"}
           /\ Commit(r) => p = "commit" /\ q \in {"idle", "trust", "accrue", "serving"}
           /\ Accrue(r) => p = "accrue" /\ q = "idle"
<1> USE DEF At
<1>1. req[r] \in RequestStates
  BY DEF TypeOK
<1>2. \A x : Becomes(r, x) => req'[r] = x
  BY BecomesFields
<1>3. \A pc : GoTo(r, pc) => req'[r].pc = pc
  BY GoToFields
<1>4. \A x \in RequestStates : AskTrust(r, x).pc \in {"trust", "accrue", "serving"}
  BY AskTrustFields
<1>5. \A n : Decide(r, n) => req'[r].pc \in {"idle", "trust", "accrue", "serving"}
  BY <1>1, <1>4, DecideFields
<1>6. \A p : Enforce(r, p) => req'[r].pc \in {"accrue", "peek", "serving"}
  BY EnforceFields
<1>7. \A x \in RequestStates : AfterRate(x).pc \in {"peek", "trust"}
  BY AfterRateFields
<1>8. Idle \in RequestStates /\ Idle.pc = "idle" /\ \A pc : [Idle EXCEPT !.pc = pc].pc = pc
  BY StatesTyped, IdleFields, <1>1
<1>9. Arrive(r) => req[r].pc = "idle" /\ req'[r].pc \in {"rate", "peek", "trust"}
  BY <1>2, <1>7, <1>8 DEF Arrive
<1>10. CountHits(r) => req[r].pc = "rate" /\ req'[r].pc \in {"idle", "hit", "peek", "trust"}
  BY <1>1, <1>2, <1>3, <1>7, <1>8 DEF CountHits
<1>11. AddHit(r) => req[r].pc = "hit" /\ req'[r].pc \in {"peek", "trust"}
  BY <1>1, <1>2, <1>7 DEF AddHit
<1>12. GetCounter(r) => /\ req[r].pc \in {"peek", "get"}
                        /\ req'[r].pc \in {"get", "sum", "idle", "trust", "accrue", "serving"}
  BY <1>3, <1>5 DEF GetCounter
<1>13. SumLedger(r) => /\ req[r].pc = "sum"
                       /\ req'[r].pc \in {"seed", "idle", "trust", "accrue", "serving"}
  <2>1. [req[r] EXCEPT !.pc = "seed", !.sum = spent].pc = "seed"
    BY <1>1 DEF RequestStates
  <2>2. QED
    BY <1>2, <1>5, <2>1 DEF SumLedger
<1>14. Seed(r) => req[r].pc = "seed" /\ req'[r].pc \in {"idle", "trust", "accrue", "serving"}
  BY <1>5 DEF Seed
<1>15. GetTrust(r) => req[r].pc = "trust" /\ req'[r].pc \in {"serving", "load", "accrue", "peek"}
  BY <1>3, <1>6 DEF GetTrust
<1>16. LoadTrust(r) => req[r].pc = "load" /\ req'[r].pc \in {"keep", "serving", "accrue", "peek"}
  <2>1. [req[r] EXCEPT !.pc = "keep", !.profile = IF paid THEN "paid" ELSE "ramp"].pc = "keep"
    BY <1>1 DEF RequestStates
  <2>2. QED
    BY <1>2, <1>6, <2>1 DEF LoadTrust
<1>17. KeepTrust(r) => req[r].pc = "keep" /\ req'[r].pc \in {"serving", "accrue", "peek"}
  BY <1>6 DEF KeepTrust
<1>18. Answer(r) => req[r].pc = "serving" /\ req'[r].pc \in {"record", "idle"}
  <2>1. [Idle EXCEPT !.pc = "record", !.served = TRUE].pc = "record"
    BY DEF Idle
  <2>2. QED
    BY <1>2, <1>8, <2>1 DEF Answer
<1>19. Record(r) => req[r].pc = "record" /\ req'[r].pc \in {"incr", "commit"}
  <2> SUFFICES ASSUME Record(r) PROVE req[r].pc = "record" /\ req'[r].pc \in {"incr", "commit"}
    OBVIOUS
  <2>1. req'[r] = [req[r] EXCEPT !.row = "flushed",
                                 !.pc = IF "fee" \in lane THEN "incr" ELSE "commit"]
    BY <1>2 DEF Record
  <2>2. req'[r].pc \in {"incr", "commit"}
    BY <1>1, <2>1 DEF RequestStates
  <2>3. QED
    BY <2>2 DEF Record
<1>20. IncrTokens(r) => req[r].pc = "incr" /\ req'[r].pc \in {"reseed", "charge", "month"}
  <2> SUFFICES ASSUME IncrTokens(r)
               PROVE  req[r].pc = "incr" /\ req'[r].pc \in {"reseed", "charge", "month"}
    OBVIOUS
  <2> DEFINE n == IF Counted(r, 1) = 1 THEN "reseed" ELSE "charge"
             m == IF req[r].old THEN 0 ELSE Counted(r, 1)
  <2>1. req[r].pc = "incr" /\ (Becomes(r, [req[r] EXCEPT !.pc = n, !.sum = m]) \/ GoTo(r, "month"))
    BY DEF IncrTokens
  <2>2. n \in {"reseed", "charge"}
    OBVIOUS
  <2> HIDE DEF n, m
  <2>3. [req[r] EXCEPT !.pc = n, !.sum = m].pc = n
    BY <1>1 DEF RequestStates
  <2>4. QED
    BY <1>2, <1>3, <2>1, <2>2, <2>3
<1>21. ReadMonth(r) => req[r].pc \in {"reseed", "month"} /\ req'[r].pc \in {"topup", "charge"}
  <2> SUFFICES ASSUME ReadMonth(r)
               PROVE  req[r].pc \in {"reseed", "month"} /\ req'[r].pc \in {"topup", "charge"}
    OBVIOUS
  <2> DEFINE n == IF At(r, "reseed") /\ MonthTokens(r) > 1 THEN "topup" ELSE "charge"
             m == IF At(r, "reseed") /\ MonthTokens(r) <= 1 THEN 1 ELSE MonthTokens(r)
  <2>1. req[r].pc \in {"reseed", "month"} /\ Becomes(r, [req[r] EXCEPT !.sum = m, !.pc = n])
    BY DEF ReadMonth
  <2>2. n \in {"topup", "charge"}
    OBVIOUS
  <2> HIDE DEF n, m
  <2>3. [req[r] EXCEPT !.sum = m, !.pc = n].pc = n
    BY <1>1 DEF RequestStates
  <2>4. QED
    BY <1>2, <2>1, <2>2, <2>3
<1>22. TopUp(r) => req[r].pc = "topup" /\ req'[r].pc \in {"charge", "month"}
  BY <1>3 DEF TopUp
<1>23. MayCharge(r) => req[r].pc = "charge" /\ req'[r].pc \in {"commit", "insert"}
  BY <1>3 DEF MayCharge
<1>24. InsertFee(r) => req[r].pc = "insert" /\ req'[r].pc \in {"commit", "idle"}
  <2> DEFINE k == IF ~fee \/ req[r].old THEN "saved" ELSE "none"
  <2>1. InsertFee(r) => \/ Becomes(r, [req[r] EXCEPT !.pc = "commit", !.sum = 0, !.row = k])
                        \/ Becomes(r, Idle)
    BY DEF InsertFee
  <2>2. InsertFee(r) => req[r].pc = "insert"
    BY DEF InsertFee
  <2> HIDE DEF k
  <2>3. [req[r] EXCEPT !.pc = "commit", !.sum = 0, !.row = k].pc = "commit"
    BY <1>1 DEF RequestStates
  <2>4. QED
    BY <1>2, <1>8, <2>1, <2>2, <2>3
<1>25. Commit(r) => /\ req[r].pc = "commit"
                    /\ req'[r].pc \in {"idle", "trust", "accrue", "serving"}
  <2>1. [req[r] EXCEPT !.row = "none", !.old = FALSE] \in RequestStates
    BY <1>1 DEF RequestStates
  <2>2. QED
    BY <1>2, <1>4, <1>8, <2>1 DEF Commit
<1>26. Accrue(r) => req[r].pc = "accrue" /\ req'[r].pc = "idle"
  BY <1>2, <1>8 DEF Accrue
<1>27. QED
  BY <1>9, <1>10, <1>11, <1>12, <1>13, <1>14, <1>15, <1>16, <1>17, <1>18, <1>19, <1>20, <1>21,
     <1>22, <1>23, <1>24, <1>25, <1>26

-----------------------------------------------------------------------------
(* The rate limiter.                                                        *)

InHit == {r \in Requests : req[r].pc = "hit"}

\* Who counted a window and is not in it yet is counted with it.
RateInv ==
    /\ hits["minute"] + Cardinality(InHit) < MinuteLimit + Cardinality(Requests)
    /\ hits["hour"] + Cardinality(InHit) < HourLimit + Cardinality(Requests)

\* Only the count of the windows leads to the second pipeline.
LEMMA NoHit ==
    ASSUME TypeOK, NEW r \in Requests, Arrive(r) \/ Proceed(r), ~CountHits(r), ~AddHit(r)
    PROVE  req[r].pc # "hit" /\ req'[r].pc # "hit" /\ hits' = hits
<1>1. hits' = hits
  BY DEF Arrive, Proceed, GetCounter, SumLedger, Seed, GetTrust, LoadTrust,
         KeepTrust, Answer, Record, IncrTokens, ReadMonth, TopUp, MayCharge, InsertFee, Commit,
         Accrue, redis
<1>2. req[r].pc # "hit" /\ req'[r].pc # "hit"
  BY Leads DEF Proceed
<1>3. QED
  BY <1>1, <1>2

\* Whoever adds itself to a window was counted as about to.
LEMMA RateStep ==
    ASSUME TypeOK, RateInv, NEW r \in Requests, Arrive(r) \/ Proceed(r)
    PROVE  RateInv'
<1> DEFINE n == Cardinality(InHit)
           N == Cardinality(Requests)
<1>1. /\ hits["minute"] \in Nat /\ hits["hour"] \in Nat
      /\ InHit \in SUBSET Requests /\ InHit' \in SUBSET Requests
  BY DEF TypeOK, Windows, InHit
<1>2. n \in Nat /\ n' \in Nat /\ n' <= N /\ N \in Nat
  BY <1>1, Counts
<1>3. \A q \in Requests : q # r => (q \in InHit <=> q \in InHit')
  BY OthersStay DEF InHit
<1>4. n' = n + One(r \in InHit') - One(r \in InHit)
  BY <1>1, <1>3, Differ
<1>5. CASE CountHits(r)
  <2>1. hits' = hits
    BY <1>5 DEF CountHits, redis
  <2>2. CASE r \in InHit' /\ Works
    <3>1. hits["minute"] < MinuteLimit /\ hits["hour"] < HourLimit
      BY <1>1, <1>5, <2>2, LimitsAssumption, LimitsPositive
         DEF CountHits, Full, InHit, Idle, Becomes, TypeOK, Fault, Works, bound, AfterRate
    <3> HIDE DEF n, N
    <3>2. QED
      BY <1>1, <1>2, <2>1, <3>1, LimitsPositive DEF RateInv, n, N
  <2>3. CASE ~(r \in InHit' /\ Works)
    <3>1. r \notin InHit'
      <4>1. CASE Works
        BY <2>3, <4>1
      <4>2. CASE Becomes(r, AfterRate(req[r]))
        <5>1. req'[r] = AfterRate(req[r]) /\ req[r] \in RequestStates
          BY <4>2, BecomesFields DEF TypeOK
        <5>2. req'[r].pc # "hit"
          BY <5>1, AfterRateFields
        <5>3. QED
          BY <5>2 DEF InHit
      <4>3. QED
        BY <1>5, <4>1, <4>2 DEF CountHits
    <3>2. n' <= n
      BY <1>2, <1>4, <3>1 DEF One
    <3> HIDE DEF n, N
    <3>3. QED
      BY <1>1, <1>2, <2>1, <3>2, LimitsPositive DEF RateInv, n, N
  <2>4. QED
    BY <2>2, <2>3
<1>6. CASE AddHit(r)
  <2>1. r \in InHit /\ r \notin InHit'
    BY <1>6, StatesTyped DEF AddHit, InHit, At, Becomes, TypeOK
  <2>2. n' = n - 1
    BY <1>2, <1>4, <2>1 DEF One
  <2>3. /\ hits'["minute"] \in {hits["minute"], hits["minute"] + 1}
        /\ hits'["hour"] \in {hits["hour"], hits["hour"] + 1}
    BY <1>6 DEF AddHit, Windows
  <2> HIDE DEF n, N
  <2>4. QED
    BY <1>1, <1>2, <2>2, <2>3, LimitsPositive DEF RateInv, n, N
<1>7. CASE ~CountHits(r) /\ ~AddHit(r)
  <2>1. r \notin InHit /\ r \notin InHit' /\ hits' = hits
    BY <1>7, NoHit DEF InHit
  <2>2. n' = n
    BY <1>2, <1>4, <2>1 DEF One
  <2> HIDE DEF n, N
  <2>3. QED
    BY <2>1, <2>2 DEF RateInv, n, N
<1>8. QED
  BY <1>5, <1>6, <1>7

\* Nothing else fills a window.
LEMMA RateWorld == TypeOK /\ RateInv /\ World => RateInv'
<1> SUFFICES ASSUME TypeOK, RateInv, World PROVE RateInv'
  OBVIOUS
<1>1. /\ hits["minute"] \in Nat /\ hits["hour"] \in Nat
      /\ InHit \in SUBSET Requests
  BY DEF TypeOK, Windows, InHit
<1>2. Cardinality(InHit) \in Nat /\ Cardinality(Requests) \in Nat
  BY <1>1, Counts
<1>3. InHit' = InHit
  <2>1. CASE req' = req
    BY <2>1 DEF InHit
  <2>2. CASE Roll
    <3>1. \A r \in Requests : req[r] \in RequestStates
      BY DEF TypeOK
    <3>2. \A r \in Requests : req[r].pc \in {"get", "sum", "seed"} => req'[r].pc = "seed"
      BY <2>2, <3>1 DEF Roll, RequestStates
    <3>3. \A r \in Requests : req[r].pc \notin {"get", "sum", "seed"} => req'[r].pc = req[r].pc
      BY <2>2, <3>1 DEF Roll, RequestStates
    <3>4. QED
      BY <3>2, <3>3 DEF InHit
  <2>3. QED
    BY <2>1, <2>2 DEF World, Slide, Evict, EvictTokens, Pay, DropTrust, ExpireTrust
<1>4. /\ hits'["minute"] \in {hits["minute"], hits["minute"] - 1}
      /\ hits'["hour"] \in {hits["hour"], hits["hour"] - 1}
  BY <1>1 DEF World, Slide, Evict, EvictTokens, Roll, Pay, DropTrust, ExpireTrust, TypeOK,
              redis, Windows
<1>5. QED
  BY <1>1, <1>2, <1>3, <1>4, LimitsPositive DEF RateInv

\* A window of the rate limiter is overfilled by callers that counted it together,
\* never by as many as there are callers (services/rate_limiter.py:101, :127).
THEOREM WindowsBounded == Spec => []RateBounded
<1>1. Init => RateInv
  <2> SUFFICES ASSUME Init PROVE RateInv
    OBVIOUS
  <2>1. InHit = {} /\ hits["minute"] = 0 /\ hits["hour"] = 0
    BY DEF Init, InHit, Windows, Idle
  <2>2. Cardinality(InHit) = 0
    BY <2>1, FS_EmptySet
  <2>3. Cardinality(Requests) \in Nat
    BY Counts
  <2>4. QED
    BY <2>1, <2>2, <2>3, LimitsPositive DEF RateInv
<1>2. TypeOK /\ RateInv /\ [Next]_vars => RateInv'
  <2>1. RateInv /\ UNCHANGED vars => RateInv'
    BY DEF RateInv, InHit, vars
  <2>2. QED
    BY <2>1, RateStep, RateWorld DEF Next
<1>3. TypeOK /\ RateInv => RateBounded
  <2> SUFFICES ASSUME TypeOK, RateInv PROVE RateBounded
    OBVIOUS
  <2>1. hits["minute"] \in Nat /\ hits["hour"] \in Nat
    BY DEF TypeOK, Windows
  <2>2. Cardinality(InHit) \in Nat /\ Cardinality(Requests) \in Nat
    BY Counts DEF InHit
  <2>3. QED
    BY <2>1, <2>2, LimitsPositive DEF RateInv, RateBounded
<1>4. QED
  BY <1>1, <1>2, <1>3, LimitsTyped, PTL DEF Spec

-----------------------------------------------------------------------------
(* What the place of a request says about it.                               *)

Asking    == {"peek", "get", "sum", "seed"}
Looking   == {"trust", "load", "keep"}
Metering  == {"incr", "reseed", "topup", "month", "charge", "insert"}
Recording == Metering \cup {"record", "commit"}

Sound(r, x) ==
    /\ x.pc \in Asking \cup {"idle", "rate", "hit", "serving"} => ~x.served
    /\ x.pc \in Recording \cup {"accrue"} => x.served
    /\ x.row # "none" => x.pc \in Metering \cup {"commit"}
    /\ x.pc \in Metering => x.row = "flushed"
    /\ \/ x.pc \in {"load", "keep"}
       \/ x.pc = "trust" /\ x.served
       \/ x.pc \in Asking /\ x.subject = "account"
       => "account" \in lane /\ r \notin Embeddings
    /\ x.pc = "keep" => x.profile # "none"
    /\ x.profile = "paid" => paid

\* Nobody is told of a payment that was not made.
SoundInv ==
    /\ \A r \in Requests : Sound(r, req[r])
    /\ trust = "paid" => paid

\* What a request is known by at each place.
LEMMA SoundSays ==
    ASSUME NEW r, NEW x, Sound(r, x)
    PROVE  /\ x.pc \in Asking \cup {"idle", "rate", "hit", "serving"} => ~x.served /\ x.row = "none"
           /\ x.pc \in Looking \cup {"record", "accrue"} => x.row = "none"
           /\ x.pc \in Metering => x.served /\ x.row = "flushed"
           /\ x.pc \in {"record", "commit", "accrue"} => x.served
           /\ x.pc \in {"load", "keep"} => "account" \in lane /\ r \notin Embeddings
           /\ x.pc = "trust" /\ x.served => "account" \in lane /\ r \notin Embeddings
           /\ x.pc \in Asking /\ x.subject = "account" => "account" \in lane /\ r \notin Embeddings
           /\ x.pc = "keep" => x.profile # "none"
           /\ x.profile = "paid" => paid
BY DEF Sound, Asking, Looking, Metering, Recording

\* What has to be known of it.
LEMMA SoundWhen ==
    ASSUME NEW r, NEW y, y.profile = "paid" => paid,
           \/ y.pc \in {"idle", "rate", "hit", "trust", "serving"} /\ ~y.served /\ y.row = "none"
           \/ /\ y.pc \in Asking /\ ~y.served /\ y.row = "none"
              /\ y.subject # "account" \/ ("account" \in lane /\ r \notin Embeddings)
           \/ /\ y.pc \in {"load", "keep"} /\ y.row = "none" /\ "account" \in lane /\ r \notin Embeddings
              /\ y.pc = "keep" => y.profile # "none"
           \/ y.pc = "trust" /\ y.row = "none" /\ "account" \in lane /\ r \notin Embeddings
           \/ y.pc \in {"record", "accrue"} /\ y.served /\ y.row = "none"
           \/ y.pc \in Metering /\ y.served /\ y.row = "flushed"
           \/ y.pc = "commit" /\ y.served
    PROVE  Sound(r, y)
<1>1. CASE y.pc \in {"idle", "rate", "hit", "trust", "serving"} /\ ~y.served /\ y.row = "none"
  BY <1>1 DEF Sound, Asking, Metering, Recording
<1>2. CASE /\ y.pc \in Asking /\ ~y.served /\ y.row = "none"
           /\ y.subject # "account" \/ ("account" \in lane /\ r \notin Embeddings)
  BY <1>2 DEF Sound, Asking, Metering, Recording
<1>3. CASE /\ y.pc \in {"load", "keep"} /\ y.row = "none" /\ "account" \in lane /\ r \notin Embeddings
           /\ y.pc = "keep" => y.profile # "none"
  BY <1>3 DEF Sound, Asking, Metering, Recording
<1>4. CASE y.pc = "trust" /\ y.row = "none" /\ "account" \in lane /\ r \notin Embeddings
  BY <1>4 DEF Sound, Asking, Metering, Recording
<1>5. CASE y.pc \in {"record", "accrue"} /\ y.served /\ y.row = "none"
  BY <1>5 DEF Sound, Asking, Metering, Recording
<1>6. CASE y.pc \in Metering /\ y.served /\ y.row = "flushed"
  BY <1>6 DEF Sound, Asking, Metering, Recording
<1>7. CASE y.pc = "commit" /\ y.served
  BY <1>7 DEF Sound, Asking, Metering, Recording
<1>8. QED
  BY <1>1, <1>2, <1>3, <1>4, <1>5, <1>6, <1>7
\* Every step of a request leads to a place that says what it should.
LEMMA SoundStep ==
    ASSUME TypeOK, SoundInv, NEW r \in Requests, Arrive(r) \/ Proceed(r)
    PROVE  SoundInv'
<1> DEFINE x == req[r]
           y == req'[r]
<1>1. x \in RequestStates /\ Sound(r, x)
  BY DEF TypeOK, SoundInv
<1>2. lane' = lane /\ paid' = paid
  BY OthersStay
<1>3. ASSUME Sound(r, y), trust' = trust PROVE SoundInv'
  BY <1>2, <1>3, OthersStay DEF SoundInv, Sound
<1>4. \A z : Becomes(r, z) => y = z
  BY BecomesFields
<1>5. ASSUME Cleared(y), y.pc \in {"idle", "serving"} PROVE Sound(r, y)
  BY <1>5, SoundWhen DEF Cleared
<1>6. \A n : Decide(r, n) /\ x.pc \in Asking => Sound(r, y)
  <2> SUFFICES ASSUME NEW n, Decide(r, n), x.pc \in Asking PROVE Sound(r, y)
    OBVIOUS
  <2>1. CASE y = AskTrust(r, x)
    <3>1. ~x.served /\ x.row = "none" /\ (x.profile = "paid" => paid)
      BY <1>1, SoundSays
    <3>2. /\ y.pc \in {"trust", "serving"} /\ y.profile = x.profile /\ y.row = x.row
          /\ y.served = x.served
      BY <1>1, <2>1, <3>1, AskTrustFields
    <3>3. QED
      BY <3>1, <3>2, SoundWhen
  <2>2. QED
    BY <1>5, <2>1, DecideFields
<1>7. ASSUME NEW p, Enforce(r, p), x.pc \in Looking,
             p = "ramp" \/ p = "none" \/ p = "paid",
             p = "ramp" => "account" \in lane /\ r \notin Embeddings
      PROVE  Sound(r, y)
  <2>1. CASE x.served
    <3>1. x.row = "none"
      BY <1>1, <1>7, SoundSays
    <3>2. y.pc = "accrue" /\ y.served /\ y.row = x.row /\ y.profile = "none"
      BY <1>7, <2>1, EnforceFields
    <3>3. QED
      BY <3>1, <3>2, SoundWhen
  <2>2. CASE ~x.served
    <3>1. \/ /\ p = "ramp" /\ y.pc = "peek" /\ y.subject = "account" /\ ~y.served
             /\ y.row = "none" /\ y.profile = "none"
          \/ y.pc = "serving" /\ Cleared(y)
      BY <1>7, <2>2, EnforceFields
    <3>2. QED
      BY <1>5, <1>7, <3>1, SoundWhen DEF Asking
  <2>3. QED
    BY <2>1, <2>2
<1>8. Cleared(Idle) /\ Idle.pc = "idle" /\ Idle \in RequestStates
  BY <1>1, IdleFields, StatesTyped
<1>9. CASE Arrive(r)
  <2>1. trust' = trust
    BY <1>9 DEF Arrive, redis
  <2> DEFINE z == [Idle EXCEPT !.pc = "rate"]
  <2>2. y = z \/ y = AfterRate(Idle)
    BY <1>4, <1>9 DEF Arrive
  <2>3. z.pc = "rate" /\ Cleared(z)
    BY IdleFields
  <2>4. CASE y = z
    <3>1. y.pc = "rate" /\ Cleared(y)
      BY <2>3, <2>4
    <3>2. QED
      BY <1>3, <2>1, <3>1, SoundWhen DEF Cleared
  <2>5. CASE y = AfterRate(Idle)
    <3>1. /\ y.pc \in {"peek", "trust"} /\ y.subject = "key" /\ ~y.served /\ y.row = "none"
          /\ y.profile = "none"
      BY <1>8, <2>5, AfterRateFields DEF Cleared
    <3>2. QED
      BY <1>3, <2>1, <3>1, SoundWhen DEF Asking
  <2>6. QED
    BY <1>3, <2>1, <2>2, <2>4, <2>5
<1>10. CASE CountHits(r) \/ AddHit(r)
  <2>1. trust' = trust /\ x.pc \in {"rate", "hit"}
    BY <1>10 DEF CountHits, AddHit, redis, At
  <2>2. \/ y = Idle \/ y = AfterRate(x) \/ GoTo(r, "hit")
    BY <1>4, <1>10 DEF CountHits, AddHit
  <2>3. CASE y = Idle
    BY <1>3, <2>1, <1>5, <1>8, <2>3
  <2>4. CASE y = AfterRate(x)
    <3>1. ~x.served /\ x.row = "none" /\ (x.profile = "paid" => paid)
      BY <1>1, <2>1, SoundSays
    <3>2. /\ y.pc \in {"peek", "trust"} /\ y.subject = "key" /\ y.served = x.served
          /\ y.row = x.row /\ y.profile = x.profile
      BY <1>1, <2>4, AfterRateFields
    <3>3. QED
      BY <1>3, <2>1, <3>1, <3>2, SoundWhen DEF Asking
  <2>5. CASE GoTo(r, "hit")
    <3>1. ~x.served /\ x.row = "none" /\ (x.profile = "paid" => paid)
      BY <1>1, <2>1, SoundSays
    <3>2. QED
      BY <1>3, <2>1, <2>5, <3>1, GoToFields, SoundWhen DEF SameRest
  <2>6. QED
    BY <1>3, <2>1, <2>2, <2>3, <2>4, <2>5
<1>11. CASE GetCounter(r)
  <2>1. trust' = trust /\ x.pc \in {"peek", "get"}
    BY <1>11 DEF GetCounter, redis
  <2>2. \/ \E n : Decide(r, n)
        \/ \E pc \in {"get", "sum"} : GoTo(r, pc)
    BY <1>11 DEF GetCounter
  <2>3. ASSUME NEW pc \in {"get", "sum"}, GoTo(r, pc) PROVE Sound(r, y)
    <3>1. ~x.served /\ x.row = "none" /\ (x.profile = "paid" => paid)
      BY <1>1, <2>1, SoundSays DEF Asking
    <3>2. x.subject = "account" => "account" \in lane /\ r \notin Embeddings
      BY <1>1, <2>1, SoundSays DEF Asking
    <3>3. y.pc \in Asking /\ SameRest(x, y)
      BY <2>3, GoToFields DEF Asking
    <3>4. QED
      BY <3>1, <3>2, <3>3, SoundWhen DEF SameRest
  <2>4. QED
    BY <1>3, <1>6, <2>1, <2>2, <2>3 DEF Asking
<1>12. CASE SumLedger(r)
  <2>1. trust' = trust /\ x.pc = "sum"
    BY <1>12 DEF SumLedger, redis, At
  <2>2. \/ Decide(r, 0)
        \/ y = [x EXCEPT !.pc = "seed", !.sum = spent]
    BY <1>4, <1>12 DEF SumLedger
  <2>3. CASE y = [x EXCEPT !.pc = "seed", !.sum = spent]
    <3>1. /\ y.pc = "seed" /\ y.subject = x.subject /\ y.profile = x.profile
          /\ y.served = x.served /\ y.row = x.row
      BY <1>1, <2>3 DEF RequestStates
    <3>2. ~x.served /\ x.row = "none" /\ (x.profile = "paid" => paid)
      BY <1>1, <2>1, SoundSays DEF Asking
    <3>3. x.subject = "account" => "account" \in lane /\ r \notin Embeddings
      BY <1>1, <2>1, SoundSays DEF Asking
    <3>4. QED
      BY <1>3, <2>1, <3>1, <3>2, <3>3, SoundWhen DEF Asking
  <2>4. QED
    BY <1>3, <1>6, <2>1, <2>2, <2>3 DEF Asking
<1>13. CASE Seed(r)
  <2>1. trust' = trust /\ x.pc = "seed"
    BY <1>13 DEF Seed, At
  <2>2. QED
    BY <1>3, <1>6, <1>13, <2>1 DEF Asking, Seed
<1>14. CASE GetTrust(r)
  <2>1. trust' = trust /\ x.pc = "trust"
    BY <1>14 DEF GetTrust, redis, At
  <2>2. \/ GoTo(r, "serving") /\ ("account" \notin lane \/ r \in Embeddings)
        \/ /\ "account" \in lane /\ r \notin Embeddings
           /\ GoTo(r, "load") \/ Enforce(r, trust)
    BY <1>14 DEF GetTrust
  <2>3. CASE GoTo(r, "serving") /\ ("account" \notin lane \/ r \in Embeddings)
    <3>1. ~x.served /\ x.row = "none" /\ (x.profile = "paid" => paid)
      BY <1>1, <2>1, <2>3, SoundSays DEF Looking
    <3>2. QED
      BY <1>3, <2>1, <2>3, <3>1, GoToFields, SoundWhen DEF SameRest
  <2>4. CASE "account" \in lane /\ r \notin Embeddings /\ GoTo(r, "load")
    <3>1. x.row = "none" /\ (x.profile = "paid" => paid)
      BY <1>1, <2>1, SoundSays DEF Looking
    <3>2. QED
      BY <1>3, <2>1, <2>4, <3>1, GoToFields, SoundWhen DEF SameRest
  <2>5. CASE "account" \in lane /\ r \notin Embeddings /\ Enforce(r, trust)
    BY <1>3, <2>1, <1>7, <2>1, <2>5 DEF TypeOK, Looking
  <2>6. QED
    BY <1>3, <2>1, <2>2, <2>3, <2>4, <2>5
<1>15. CASE LoadTrust(r)
  <2>1. trust' = trust /\ x.pc = "load" /\ "account" \in lane /\ r \notin Embeddings
    BY <1>1, <1>15, SoundSays DEF LoadTrust, redis, At
  <2> DEFINE p == IF paid THEN "paid" ELSE "ramp"
  <2>2. y = [x EXCEPT !.pc = "keep", !.profile = p] \/ Enforce(r, "none")
    BY <1>4, <1>15 DEF LoadTrust
  <2>3. CASE Enforce(r, "none")
    BY <1>3, <2>1, <1>7, <2>1, <2>3 DEF Looking
  <2>4. CASE y = [x EXCEPT !.pc = "keep", !.profile = p]
    <3>1. p # "none" /\ (p = "paid" => paid)
      OBVIOUS
    <3> HIDE DEF p
    <3>2. /\ y.pc = "keep" /\ y.subject = x.subject /\ y.profile = p
          /\ y.served = x.served /\ y.row = x.row
      BY <1>1, <2>4 DEF RequestStates
    <3>3. x.row = "none"
      BY <1>1, <2>1, SoundSays DEF Looking
    <3>4. QED
      BY <1>3, <2>1, <2>1, <3>1, <3>2, <3>3, SoundWhen
  <2>5. QED
    BY <1>3, <2>1, <2>2, <2>3, <2>4
<1>16. CASE KeepTrust(r)
  <2>1. x.pc = "keep" /\ "account" \in lane /\ r \notin Embeddings /\ Enforce(r, x.profile)
    BY <1>1, <1>16, SoundSays DEF KeepTrust, At
  <2>2. x.profile \in {"none", "ramp", "paid"} /\ (x.profile = "paid" => paid)
    BY <1>1, SoundSays DEF RequestStates
  <2>3. Sound(r, y)
    BY <1>7, <2>1, <2>2 DEF Looking
  <2>4. trust' = "paid" => paid
    BY <1>16, <2>2 DEF KeepTrust, SoundInv
  <2>5. QED
    BY <1>2, <2>3, <2>4, OthersStay DEF SoundInv, Sound
<1>17. CASE Answer(r)
  <2>1. trust' = trust
    BY <1>17 DEF Answer, redis
  <2>2. y = Idle \/ y = [Idle EXCEPT !.pc = "record", !.served = TRUE]
    BY <1>4, <1>17 DEF Answer
  <2>3. CASE y = [Idle EXCEPT !.pc = "record", !.served = TRUE]
    <3>1. y.pc = "record" /\ y.served /\ y.row = "none" /\ y.profile = "none"
      BY <2>3 DEF Idle
    <3>2. QED
      BY <1>3, <2>1, <3>1, SoundWhen
  <2>4. QED
    BY <1>3, <1>5, <1>8, <2>1, <2>2, <2>3
<1>18. CASE Record(r)
  <2>1. trust' = trust /\ x.pc = "record"
    BY <1>18 DEF Record, redis, At
  <2>2. y = [x EXCEPT !.row = "flushed", !.pc = IF "fee" \in lane THEN "incr" ELSE "commit"]
    BY <1>4, <1>18 DEF Record
  <2>3. /\ y.pc \in {"incr", "commit"} /\ y.row = "flushed" /\ y.served = x.served
        /\ y.profile = x.profile
    BY <1>1, <2>2 DEF RequestStates
  <2>4. Sound(r, y)
    BY <1>1, <2>1, <2>3, SoundSays, SoundWhen DEF Metering
  <2>5. QED
    BY <1>3, <2>1, <2>4
<1>19. ASSUME trust' = trust, x.pc \in Metering, y.pc \in Metering \cup {"commit"},
              y.served = x.served, y.profile = x.profile, y.row = x.row
       PROVE  SoundInv'
  <2>1. Sound(r, y)
    BY <1>1, <1>19, SoundSays, SoundWhen
  <2>2. QED
    BY <1>3, <1>19, <2>1
<1>20. CASE IncrTokens(r) \/ ReadMonth(r) \/ TopUp(r) \/ MayCharge(r)
  <2>1. trust' = trust
    BY <1>20 DEF IncrTokens, ReadMonth, TopUp, MayCharge, redis
  <2>2. x.pc \in Metering /\ y.pc \in Metering \cup {"commit"}
    BY <1>20, Leads DEF Metering
  <2>3. y.served = x.served /\ y.profile = x.profile /\ y.row = x.row
    <3>1. \/ \E pc : GoTo(r, pc)
          \/ \E pc, m : y = [x EXCEPT !.pc = pc, !.sum = m]
          \/ \E pc, m : y = [x EXCEPT !.sum = m, !.pc = pc]
      BY <1>4, <1>20 DEF IncrTokens, ReadMonth, TopUp, MayCharge
    <3>2. QED
      BY <1>1, <3>1, GoToFields DEF SameRest, RequestStates
  <2>4. QED
    BY <1>19, <2>1, <2>2, <2>3
<1>21. CASE InsertFee(r)
  <2>1. trust' = trust /\ x.pc = "insert"
    BY <1>21 DEF InsertFee, redis, At
  <2> DEFINE k == IF ~fee \/ x.old THEN "saved" ELSE "none"
  <2>2. y = [x EXCEPT !.pc = "commit", !.sum = 0, !.row = k] \/ y = Idle
    BY <1>4, <1>21 DEF InsertFee
  <2> HIDE DEF k
  <2>3. CASE y = [x EXCEPT !.pc = "commit", !.sum = 0, !.row = k]
    <3>1. y.pc = "commit" /\ y.served = x.served /\ y.profile = x.profile
      BY <1>1, <2>3 DEF RequestStates
    <3>2. QED
      BY <1>1, <1>3, <2>1, <3>1, SoundSays, SoundWhen DEF Metering
  <2>4. QED
    BY <1>3, <1>5, <1>8, <2>1, <2>2, <2>3
<1>22. CASE Commit(r)
  <2>1. trust' = trust /\ x.pc = "commit"
    BY <1>22 DEF Commit, redis, At
  <2> DEFINE z == [x EXCEPT !.row = "none", !.old = FALSE]
  <2>2. y = AskTrust(r, z) \/ y = Idle
    BY <1>4, <1>22 DEF Commit
  <2>3. z \in RequestStates /\ z.served = x.served /\ z.row = "none" /\ z.profile = x.profile
    BY <1>1 DEF RequestStates
  <2> HIDE DEF z
  <2>4. CASE y = AskTrust(r, z)
    <3>1. x.served /\ (x.profile = "paid" => paid)
      BY <1>1, <2>1, SoundSays
    <3>2. /\ y.pc = (IF "account" \in lane /\ r \notin Embeddings THEN "trust"
                     ELSE IF z.served THEN "accrue" ELSE "serving")
          /\ y.row = z.row /\ y.served = z.served /\ y.profile = z.profile
      BY <2>3, <2>4, AskTrustFields
    <3>3. /\ y.pc = "accrue" \/ (y.pc = "trust" /\ "account" \in lane /\ r \notin Embeddings)
          /\ y.row = "none" /\ y.served /\ (y.profile = "paid" => paid)
      BY <2>3, <3>1, <3>2
    <3>4. Sound(r, y)
      BY <3>3, SoundWhen
    <3>5. QED
      BY <1>3, <2>1, <3>4
  <2>5. QED
    BY <1>3, <1>5, <1>8, <2>1, <2>2, <2>4
<1>23. CASE Accrue(r)
  BY <1>3, <1>4, <1>5, <1>8, <1>23 DEF Accrue
<1>24. QED
  BY <1>9, <1>10, <1>11, <1>12, <1>13, <1>14, <1>15, <1>16, <1>17, <1>18, <1>20, <1>21, <1>22,
     <1>23 DEF Proceed

\* The end of a window sends a check that began to its decision, and makes a row
\* that was written one of the old window.
LEMMA RollFields ==
    ASSUME TypeOK, Roll, NEW r \in Requests
    PROVE  LET x == req[r]
               y == req'[r]
           IN
           /\ y.subject = x.subject /\ y.profile = x.profile /\ y.served = x.served
           /\ y.row = x.row
           /\ x.pc \notin {"get", "sum", "seed"} => y.pc = x.pc /\ y.sum = x.sum
           /\ x.pc \in {"get", "sum", "seed"} => y.pc = "seed"
           /\ x.pc = "seed" => y.sum = x.sum
           /\ x.pc \in {"get", "sum"} => y.sum = spent
           /\ x.row # "none" => y.old
<1> DEFINE x == req[r]
           n == IF At(r, "seed") THEN x.sum ELSE spent
<1>1. x \in RequestStates
  BY DEF TypeOK
<1>2. req'[r] = IF x.pc \in {"get", "sum", "seed"}
                THEN [x EXCEPT !.pc = "seed", !.old = TRUE, !.sum = n]
                ELSE IF x.row # "none" THEN [x EXCEPT !.old = TRUE] ELSE x
  BY DEF Roll
<1>3. (x.pc = "seed" => n = x.sum) /\ (x.pc \in {"get", "sum"} => n = spent)
  BY DEF At
<1> HIDE DEF n
<1>4. CASE x.pc \in {"get", "sum", "seed"}
  <2>1. req'[r] = [x EXCEPT !.pc = "seed", !.old = TRUE, !.sum = n]
    BY <1>2, <1>4
  <2>2. QED
    BY <1>1, <1>3, <1>4, <2>1 DEF RequestStates
<1>5. CASE x.pc \notin {"get", "sum", "seed"} /\ x.row # "none"
  <2>1. req'[r] = [x EXCEPT !.old = TRUE]
    BY <1>2, <1>5
  <2>2. QED
    BY <1>1, <1>5, <2>1 DEF RequestStates
<1>6. CASE x.pc \notin {"get", "sum", "seed"} /\ x.row = "none"
  BY <1>2, <1>6
<1>7. QED
  BY <1>4, <1>5, <1>6

\* The rest of the world moves requests only to the end of an old check.
LEMMA SoundWorld == TypeOK /\ SoundInv /\ World => SoundInv'
<1> SUFFICES ASSUME TypeOK, SoundInv, World PROVE SoundInv'
  OBVIOUS
<1>1. lane' = lane /\ (paid' = paid \/ paid' = TRUE)
  BY DEF World, Slide, Evict, EvictTokens, Roll, Pay, DropTrust, ExpireTrust, books
<1>2. trust' = trust \/ trust' = "none"
  BY DEF World, Slide, Evict, EvictTokens, Roll, Pay, DropTrust, ExpireTrust, redis
<1>3. CASE req' = req
  BY <1>1, <1>2, <1>3 DEF SoundInv, Sound
<1>4. CASE Roll
  <2>1. ASSUME NEW r \in Requests PROVE Sound(r, req[r])'
    <3> DEFINE x == req[r]
               y == req'[r]
    <3>1. Sound(r, x)
      BY DEF SoundInv
    <3>2. /\ y.subject = x.subject /\ y.profile = x.profile /\ y.served = x.served
          /\ y.row = x.row
          /\ x.pc \notin {"get", "sum", "seed"} => y.pc = x.pc
          /\ x.pc \in {"get", "sum", "seed"} => y.pc = "seed"
      BY <1>4, RollFields
    <3>3. lane' = lane /\ paid' = paid
      BY <1>4 DEF Roll
    <3> HIDE DEF x, y
    <3>4. Sound(r, y)
      <4>1. CASE x.pc \in {"get", "sum", "seed"}
        <5>1. /\ ~x.served /\ x.row = "none" /\ (x.profile = "paid" => paid)
              /\ x.subject = "account" => "account" \in lane /\ r \notin Embeddings
          BY <3>1, <4>1, SoundSays DEF Asking
        <5>2. y.pc = "seed" /\ y.subject = x.subject /\ y.profile = x.profile
              /\ y.served = x.served /\ y.row = x.row
          BY <3>2, <4>1
        <5>3. QED
          BY <5>1, <5>2, SoundWhen DEF Asking
      <4>2. CASE x.pc \notin {"get", "sum", "seed"}
        <5>1. /\ y.subject = x.subject /\ y.profile = x.profile /\ y.served = x.served
              /\ y.row = x.row /\ y.pc = x.pc
          BY <3>2, <4>2
        <5>2. QED
          BY <3>1, <5>1 DEF Sound
      <4>3. QED
        BY <4>1, <4>2
    <3>5. QED
      BY <3>3, <3>4 DEF Sound, y
  <2>2. QED
    BY <1>1, <1>2, <2>1 DEF SoundInv
<1>5. QED
  BY <1>3, <1>4 DEF World, Slide, Evict, EvictTokens, Pay, DropTrust, ExpireTrust

\* What a request is known by holds always.
THEOREM RequestsSound == Spec => []SoundInv
<1>1. Init => SoundInv
  BY SoundWhen, IdleFields DEF Init, SoundInv, Cleared
<1>2. TypeOK /\ SoundInv /\ [Next]_vars => SoundInv'
  <2>1. SoundInv /\ UNCHANGED vars => SoundInv'
    BY DEF SoundInv, Sound, vars
  <2>2. QED
    BY <2>1, SoundStep, SoundWorld DEF Next
<1>3. QED
  BY <1>1, <1>2, LimitsTyped, PTL DEF Spec

-----------------------------------------------------------------------------
(* The platform fee.                                                        *)

\* The requests that are counted for the month and not in the ledger yet.
Counting == {r \in Requests : req[r].row = "flushed" /\ ~req[r].old /\ req[r].pc # "incr"}
Month == spent + Cardinality(Counting)

\* A request that finds the threshold reached.
Sees(r) ==
    \/ req[r].pc = "insert"
    \/ req[r].pc \in {"reseed", "topup", "charge"} /\ req[r].sum >= Threshold

\* The counter holds what the month holds, and of a month that reached the
\* threshold somebody knows it.
FeeInv ==
    "fee" \in lane /\ faults = 0 =>
       /\ tokens = Absent => Month = 0
       /\ tokens # Absent => Month <= tokens
       /\ \A r \in Requests : /\ req[r].pc # "month"
                              /\ req[r].pc = "reseed" => req[r].sum = 1 \/ req[r].old
       /\ Month >= Threshold => fee \/ \E r \in Counting : Sees(r)

\* While nothing fails, a request keeps the counter of the month at what was counted,
\* and whoever may take it over the threshold goes on to charge the fee.
LEMMA FeeStep ==
    ASSUME TypeInv, SoundInv, FeeInv, NEW r \in Requests, Arrive(r) \/ Proceed(r)
    PROVE  FeeInv'
<1> SUFFICES ASSUME ("fee" \in lane)', (faults = 0)' PROVE FeeInv'
  BY DEF FeeInv
<1> DEFINE x == req[r]
           y == req'[r]
           n == Cardinality(Counting)
           f == "fee"
<1>1. TypeOK /\ x \in RequestStates /\ Sound(r, x)
  BY DEF TypeInv, TypeOK, SoundInv
<1>2. spent \in Nat /\ tokens \in Nat \cup {Absent} /\ Absent \notin Nat /\ x.sum \in Nat
  BY <1>1, LimitsAssumption DEF TypeOK, RequestStates
<1>3. lane' = lane /\ faults = 0 /\ f \in lane /\ ~Fault
  BY <1>1, OthersStay DEF TypeOK, Fault
<1>4. /\ tokens = Absent => Month = 0
      /\ tokens # Absent => Month <= tokens
      /\ \A q \in Requests : /\ req[q].pc # "month"
                             /\ req[q].pc = "reseed" => req[q].sum = 1 \/ req[q].old
      /\ Month >= Threshold => fee \/ \E q \in Counting : Sees(q)
  BY <1>3 DEF FeeInv
<1>5. \A q \in Requests : q # r => /\ req'[q] = req[q]
                                   /\ q \in Counting <=> q \in Counting'
                                   /\ Sees(q) <=> Sees(q)'
  BY <1>1, OthersStay DEF Counting, Sees
<1>6. n \in Nat /\ n' \in Nat /\ n' = n + One(r \in Counting') - One(r \in Counting)
  <2>1. Counting \in SUBSET Requests /\ Counting' \in SUBSET Requests
    BY DEF Counting
  <2>2. QED
    BY <1>5, <2>1, Counts, Differ
<1>7. ASSUME y.pc # "month", y.pc = "reseed" => y.sum = 1 \/ y.old
      PROVE  \A q \in Requests : /\ req'[q].pc # "month"
                                 /\ req'[q].pc = "reseed" => req'[q].sum = 1 \/ req'[q].old
  BY <1>4, <1>5, <1>7
<1>8. ASSUME Month' = Month, (fee = fee'),
             r \in Counting /\ Sees(r) => r \in Counting' /\ Sees(r)'
      PROVE  (Month >= Threshold => fee \/ \E q \in Counting : Sees(q))'
  <2>1. CASE fee \/ ~(Month >= Threshold)
    BY <1>8, <2>1
  <2>2. CASE \E q \in Counting : Sees(q)
    <3>1. PICK q \in Counting : Sees(q)
      BY <2>2
    <3>2. q \in Requests
      BY DEF Counting
    <3>3. q \in Counting' /\ Sees(q)'
      BY <1>5, <1>8, <3>1, <3>2
    <3>4. QED
      BY <3>3
  <2>3. QED
    BY <1>4, <2>1, <2>2
<1>9. ASSUME UNCHANGED <<spent, tokens, fee>>, (r \in Counting) = (r \in Counting'),
             y.pc # "month", y.pc = "reseed" => y.sum = 1 \/ y.old,
             r \in Counting /\ Sees(r) => Sees(r)'
      PROVE  FeeInv'
  <2>1. n' = n
    BY <1>6, <1>9 DEF One
  <2>2. Month' = Month
    BY <1>9, <2>1 DEF Month
  <2>3. (Month >= Threshold => fee \/ \E q \in Counting : Sees(q))'
    BY <1>8, <1>9, <2>2
  <2>4. QED
    BY <1>4, <1>7, <1>9, <2>2, <2>3 DEF FeeInv
\* Requests that are not being metered count for nothing.
<1>10. ASSUME UNCHANGED <<spent, tokens, fee>>,
              x.pc \notin Metering \cup {"commit"}, y.pc \notin Metering \cup {"commit"}
       PROVE  FeeInv'
  <2>1. x.row = "none"
    BY <1>1, <1>10, Zenon DEF Sound
  <2>2. Sound(r, req[r])'
    BY <1>1, SoundStep DEF SoundInv
  <2>3. y.row = "none"
    BY <1>10, <2>2, Zenon DEF Sound
  <2>4. r \notin Counting /\ r \notin Counting'
    BY <2>1, <2>3 DEF Counting
  <2>5. QED
    BY <1>9, <1>10, <2>4 DEF Metering
<1>11. CASE ~(\/ Record(r) \/ IncrTokens(r) \/ ReadMonth(r) \/ TopUp(r)
              \/ MayCharge(r) \/ InsertFee(r) \/ Commit(r))
  <2>1. UNCHANGED <<spent, tokens, fee>>
    BY <1>11 DEF Proceed, Arrive, CountHits, AddHit, GetCounter, SumLedger, Seed, GetTrust,
                 LoadTrust, KeepTrust, Answer, Accrue, redis, books
  <2>2. x.pc \notin Metering \cup {"commit"} /\ y.pc \notin Metering \cup {"commit"}
    BY <1>1, <1>11, Leads DEF Proceed, Metering
  <2>3. QED
    BY <1>10, <2>1, <2>2
<1>12. CASE Record(r)
  <2>1. UNCHANGED <<spent, tokens, fee>> /\ x.pc = "record"
    BY <1>12 DEF Record, redis, books, At
  <2>2. y = [x EXCEPT !.row = "flushed", !.pc = "incr"]
    BY <1>1, <1>3, <1>12, BecomesFields DEF Record
  <2>3. y.pc = "incr" /\ x.row = "none"
    BY <1>1, <2>1, <2>2, SoundSays DEF RequestStates
  <2>4. r \notin Counting /\ r \notin Counting'
    BY <2>3 DEF Counting
  <2>5. QED
    BY <1>9, <2>1, <2>3, <2>4
<1>13. CASE IncrTokens(r)
  <2> DEFINE total == Counted(r, 1)
             p == IF total = 1 THEN "reseed" ELSE "charge"
             m == IF x.old THEN 0 ELSE total
  <2>1. UNCHANGED <<spent, fee>> /\ tokens' = total /\ Becomes(r, [x EXCEPT !.pc = p, !.sum = m])
        /\ x.pc = "incr"
    BY <1>3, <1>13 DEF IncrTokens, books, At
  <2>2. p \in {"reseed", "charge"} /\ (p = "reseed" => total = 1)
        /\ (~x.old => m = total) /\ (x.old => m = 0 /\ total = tokens)
        /\ (~x.old /\ tokens = Absent => total = 1)
        /\ (~x.old /\ tokens # Absent => total = tokens + 1)
    BY DEF Counted
  <2> HIDE DEF total, p, m
  <2>3. y = [x EXCEPT !.pc = p, !.sum = m]
    BY <1>1, <2>1, BecomesFields
  <2>4. y.pc = p /\ y.sum = m /\ y.old = x.old /\ y.row = x.row /\ x.row = "flushed"
    BY <1>1, <2>1, <2>3, SoundSays DEF RequestStates, Metering
  <2>5. r \notin Counting
    BY <2>1 DEF Counting
  <2>6. CASE x.old
    <3>1. r \notin Counting'
      BY <2>4, <2>6 DEF Counting
    <3>2. QED
      BY <1>9, <2>1, <2>2, <2>4, <2>5, <2>6, <3>1
  <2>7. CASE ~x.old
    <3>1. r \in Counting'
      BY <2>2, <2>4, <2>7 DEF Counting
    <3>2. Month' = Month + 1
      <4>1. n' = n + 1
        BY <1>6, <2>5, <3>1 DEF One
      <4>2. spent' = spent
        BY <2>1
      <4>3. QED
        BY <1>2, <1>6, <4>1, <4>2 DEF One, Month
    <3>3. total \in Nat /\ Month' <= total
      <4>1. Month \in Nat
        BY <1>2, <1>6 DEF Month
      <4>2. tokens = Absent => Month = 0
        BY <1>4
      <4>3. tokens # Absent => Month <= tokens
        BY <1>4
      <4>4. QED
        BY <1>2, <2>2, <2>7, <3>2, <4>1, <4>2, <4>3
    <3>4. y.pc # "month" /\ (y.pc = "reseed" => y.sum = 1)
      BY <2>2, <2>4, <2>7
    <3>5. Month' >= Threshold => y.sum >= Threshold
      BY <1>2, <1>6, <2>1, <2>2, <2>4, <2>7, <3>3, LimitsPositive DEF Month
    <3>6. (Month >= Threshold => fee \/ \E q \in Counting : Sees(q))'
      BY <2>2, <2>4, <3>1, <3>5 DEF Sees
    <3>7. QED
      BY <1>2, <1>7, <2>1, <3>3, <3>4, <3>6 DEF FeeInv
  <2>8. QED
    BY <2>6, <2>7
<1>14. CASE ReadMonth(r)
  <2> DEFINE total == MonthTokens(r)
             m == IF total <= 1 THEN 1 ELSE total
             p == IF total > 1 THEN "topup" ELSE "charge"
  <2>1. UNCHANGED <<spent, tokens, fee>> /\ x.pc = "reseed"
        /\ Becomes(r, [x EXCEPT !.sum = m, !.pc = p])
    <3>1. x.pc # "month"
      BY <1>4
    <3>2. x.pc = "reseed"
      BY <1>14, <3>1 DEF ReadMonth
    <3>3. QED
      BY <1>14, <3>2 DEF ReadMonth, redis, books, At
  <2>2. m \in Nat /\ m >= 1 /\ p \in {"topup", "charge"}
    BY <1>2 DEF MonthTokens
  <2> HIDE DEF total, m, p
  <2>3. y.sum = m /\ y.pc = p /\ y.row = x.row /\ y.old = x.old
    <3>1. Becomes(r, [x EXCEPT !.sum = m, !.pc = p])
      BY <2>1
    <3>2. y = [x EXCEPT !.sum = m, !.pc = p]
      BY <1>1, <3>1, BecomesFields
    <3>3. x \in RequestStates
      BY <1>1
    <3> HIDE DEF x, y
    <3>4. QED
      BY <3>2, <3>3 DEF RequestStates
  <2>4. (r \in Counting) = (r \in Counting')
    BY <2>1, <2>2, <2>3 DEF Counting
  <2>5. r \in Counting /\ Sees(r) => Sees(r)'
    <3> SUFFICES ASSUME r \in Counting, Sees(r) PROVE Sees(r)'
      OBVIOUS
    <3>1. x.sum = 1 /\ x.sum >= Threshold
      BY <1>4, <2>1 DEF Sees, Counting
    <3>2. m >= Threshold
      BY <2>2, <3>1, LimitsPositive
    <3>3. QED
      BY <2>2, <2>3, <3>2 DEF Sees
  <2>6. QED
    BY <1>9, <2>1, <2>2, <2>3, <2>4, <2>5
<1>15. CASE TopUp(r)
  <2>1. UNCHANGED <<spent, fee>> /\ tokens' = Counted(r, x.sum - 1) /\ GoTo(r, "charge")
        /\ x.pc = "topup"
    BY <1>3, <1>15 DEF TopUp, books, At
  <2>2. y.pc = "charge" /\ SameRest(x, y)
    BY <1>1, <2>1, GoToFields
  <2>3. (r \in Counting) = (r \in Counting') /\ (Sees(r) => Sees(r)')
    BY <2>1, <2>2 DEF Counting, SameRest, Sees
  <2>4. n' = n /\ Month' = Month
    BY <1>6, <2>1, <2>3 DEF One, Month
  <2>5. x.sum - 1 \in Nat
    BY <1>1, <1>2, <2>1 DEF TypeInv, At
  <2>6. CASE x.old
    <3>1. tokens' = tokens
      BY <2>1, <2>6 DEF Counted
    <3>2. QED
      BY <1>9, <2>1, <2>2, <2>3, <3>1
  <2>7. CASE ~x.old
    <3>1. x.row = "flushed"
      BY <1>1, <2>1, SoundSays DEF Metering
    <3>2. r \in Counting
      BY <2>1, <2>7, <3>1 DEF Counting
    <3>3. n >= 1
      <4>1. Counting \in SUBSET Requests /\ Counting # {}
        BY <3>2 DEF Counting
      <4>2. IsFiniteSet(Counting) /\ n # 0
        BY <4>1, Counts, FS_EmptySet
      <4>3. QED
        BY <1>6, <4>2
    <3>4. tokens # Absent
      BY <1>2, <1>4, <1>6, <3>3 DEF Month
    <3>5. tokens' = tokens + (x.sum - 1)
      BY <2>1, <2>7, <3>4 DEF Counted
    <3>6. tokens' \in Nat /\ Month' <= tokens'
      BY <1>2, <1>4, <1>6, <2>4, <2>5, <3>4, <3>5 DEF Month
    <3>7. (Month >= Threshold => fee \/ \E q \in Counting : Sees(q))'
      BY <1>8, <2>1, <2>3, <2>4
    <3>8. QED
      BY <1>2, <1>7, <2>2, <3>6, <3>7 DEF FeeInv
  <2>8. QED
    BY <2>6, <2>7
<1>16. CASE MayCharge(r)
  <2> DEFINE p == IF x.sum < Threshold \/ fee \/ x.old THEN "commit" ELSE "insert"
  <2>1. UNCHANGED <<spent, tokens, fee>> /\ GoTo(r, p) /\ x.pc = "charge"
    BY <1>16 DEF MayCharge, redis, books, At
  <2>2. p \in {"commit", "insert"} /\ (p = "commit" => x.sum < Threshold \/ fee \/ x.old)
    OBVIOUS
  <2> HIDE DEF p
  <2>3. y.pc = p /\ SameRest(x, y)
    BY <1>1, <2>1, GoToFields
  <2>4. (r \in Counting) = (r \in Counting')
    BY <2>1, <2>2, <2>3 DEF Counting, SameRest
  <2>5. CASE p = "insert"
    <3>1. Sees(r)'
      BY <2>3, <2>5 DEF Sees
    <3>2. QED
      BY <1>9, <2>1, <2>2, <2>3, <2>4, <3>1
  <2>6. CASE p = "commit" /\ fee
    <3>1. Month' = Month
      BY <1>6, <2>1, <2>4 DEF One, Month
    <3>2. (Month >= Threshold => fee \/ \E q \in Counting : Sees(q))'
      BY <2>1, <2>6
    <3>3. QED
      BY <1>4, <1>7, <2>1, <2>3, <2>6, <3>1, <3>2 DEF FeeInv
  <2>7. CASE p = "commit" /\ ~fee
    <3>1. ~(r \in Counting /\ Sees(r))
      BY <1>2, <2>1, <2>2, <2>7, LimitsPositive DEF Counting, Sees
    <3>2. QED
      BY <1>9, <2>1, <2>3, <2>4, <2>7, <3>1
  <2>8. QED
    BY <2>2, <2>5, <2>6, <2>7
<1>17. CASE InsertFee(r)
  <2> DEFINE wins == ~fee \/ x.old
             k == IF wins THEN "saved" ELSE "none"
  <2>1. /\ tokens' = tokens /\ x.pc = "insert"
        /\ Becomes(r, [x EXCEPT !.pc = "commit", !.sum = 0, !.row = k])
        /\ spent' = (IF wins THEN Saved(r) ELSE spent)
        /\ fee' = (fee \/ ~x.old)
    BY <1>3, <1>17 DEF InsertFee, redis, At
  <2>2. k # "flushed" /\ x.row = "flushed"
    BY <1>1, <2>1, SoundSays DEF Metering
  <2>3. spent' = (IF wins /\ ~x.old THEN spent + 1 ELSE spent)
    BY <2>1, <2>2 DEF Saved
  <2> HIDE DEF k
  <2>4. y.pc = "commit" /\ y.row = k
    BY <1>1, <2>1, BecomesFields DEF RequestStates
  <2>5. r \notin Counting'
    BY <2>2, <2>4 DEF Counting
  <2>6. CASE x.old
    <3>1. r \notin Counting
      BY <2>6 DEF Counting
    <3>2. fee' = fee
      <4>1. fee \in BOOLEAN
        BY <1>1 DEF TypeOK
      <4>2. QED
        BY <2>1, <2>6, <4>1, Zenon
    <3>3. spent' = spent
      BY <2>3, <2>6
    <3>4. QED
      BY <1>9, <2>1, <2>4, <2>5, <3>1, <3>2, <3>3
  <2>7. CASE ~x.old
    <3>1. r \in Counting
      BY <2>1, <2>2, <2>7 DEF Counting
    <3>2. n' = n - 1 /\ n >= 1
      BY <1>6, <2>5, <3>1 DEF One
    <3>3. fee'
      BY <2>1, <2>7, Zenon
    <3>4. Month' <= Month /\ Month' \in Nat /\ Month \in Nat /\ Month >= 1
      BY <1>2, <1>6, <2>3, <3>2 DEF Month
    <3>5. tokens # Absent /\ Month <= tokens
      BY <1>4, <3>4
    <3>6. Month' <= tokens'
      BY <1>2, <2>1, <3>4, <3>5
    <3>7. QED
      BY <1>7, <2>1, <2>4, <3>3, <3>5, <3>6 DEF FeeInv
  <2>8. QED
    BY <2>6, <2>7
<1>18. CASE Commit(r)
  <2> DEFINE z == [x EXCEPT !.row = "none", !.old = FALSE]
  <2>1. UNCHANGED <<tokens, fee>> /\ x.pc = "commit" /\ spent' = Saved(r) /\ y = AskTrust(r, z)
    BY <1>1, <1>3, <1>18, BecomesFields DEF Commit, redis, At
  <2>2. z \in RequestStates /\ z.row = "none"
    BY <1>1 DEF RequestStates
  <2> HIDE DEF z
  <2>3. y.row = "none" /\ y.pc # "month" /\ y.pc # "reseed"
    BY <1>1, <1>18, <2>1, <2>2, AskTrustFields, Leads
  <2>4. r \notin Counting' /\ ~Sees(r)
    BY <2>1, <2>3 DEF Counting, Sees
  <2>5. Month' = Month
    BY <1>2, <1>6, <2>1, <2>4 DEF One, Month, Saved, Counting
  <2>6. (Month >= Threshold => fee \/ \E q \in Counting : Sees(q))'
    BY <1>8, <2>1, <2>4, <2>5
  <2>7. QED
    BY <1>4, <1>7, <2>1, <2>3, <2>5, <2>6 DEF FeeInv
<1>19. QED
  BY <1>11, <1>12, <1>13, <1>14, <1>15, <1>16, <1>17, <1>18

\* The world keeps the counter too: a month that ends begins with none.
LEMMA FeeWorld == TypeOK /\ SoundInv /\ FeeInv /\ World => FeeInv'
<1> SUFFICES ASSUME TypeOK, SoundInv, FeeInv, World, ("fee" \in lane)', (faults = 0)'
             PROVE  FeeInv'
  BY DEF FeeInv
<1>1. lane' = lane /\ faults \in Nat
  <2>1. lane' = lane
    BY DEF World, Slide, Evict, EvictTokens, Roll, Pay, DropTrust, ExpireTrust
  <2>2. QED
    BY <2>1 DEF TypeOK
<1>2. ~Fault
  BY <1>1 DEF Fault
<1>3. faults = 0
  BY <1>1, <1>2 DEF World, Slide, Evict, EvictTokens, Roll, Pay, DropTrust, ExpireTrust,
                    Works, bound
<1>4. CASE UNCHANGED <<tokens, spent, fee, req>>
  BY <1>1, <1>3, <1>4 DEF FeeInv, Month, Counting, Sees
<1>5. CASE Roll
  <2>1. tokens' = Absent /\ spent' = 0 /\ ~fee'
    BY <1>5 DEF Roll
  <2>2. Counting' = {}
    BY <1>5, RollFields DEF Counting
  <2>3. Month' = 0
    BY <2>1, <2>2, FS_EmptySet DEF Month
  <2>4. ASSUME NEW q \in Requests
        PROVE  req'[q].pc # "month" /\ (req'[q].pc = "reseed" => req'[q].sum = 1 \/ req'[q].old)
    <3>1. req[q].pc # "month" /\ (req[q].pc = "reseed" => req[q].row = "flushed")
      BY <1>1, <1>3, SoundSays DEF FeeInv, SoundInv, Metering
    <3>2. CASE req[q].pc \in {"get", "sum", "seed"}
      BY <1>5, <3>2, RollFields
    <3>3. CASE req[q].pc \notin {"get", "sum", "seed"}
      BY <1>5, <3>1, <3>3, RollFields
    <3>4. QED
      BY <3>2, <3>3
  <2>5. QED
    BY <2>1, <2>3, <2>4, LimitsPositive DEF FeeInv
<1>6. QED
  BY <1>2, <1>4, <1>5
     DEF World, Slide, Evict, EvictTokens, Pay, DropTrust, ExpireTrust, redis, books

\* While no command fails, a month whose recorded tokens reach the threshold has
\* its fee once nothing is being recorded.
THEOREM FeeCharged == Spec => []FeeOwed
<1>1. Init => FeeInv
  <2> SUFFICES ASSUME Init PROVE FeeInv
    OBVIOUS
  <2>1. Counting = {}
    BY IdleFields DEF Init, Counting, Cleared
  <2>2. Month = 0 /\ tokens = Absent
    BY <2>1, FS_EmptySet DEF Init, Month
  <2>3. QED
    BY <2>2, IdleFields, LimitsPositive DEF Init, FeeInv
<1>2. TypeInv /\ SoundInv /\ FeeInv /\ [Next]_vars => FeeInv'
  <2>1. FeeInv /\ UNCHANGED vars => FeeInv'
    BY DEF FeeInv, Month, Counting, Sees, vars
  <2>2. QED
    BY <2>1, FeeStep, FeeWorld DEF Next, TypeInv
<1>3. TypeInv /\ FeeInv => FeeOwed
  <2> SUFFICES ASSUME TypeInv, FeeInv, "fee" \in lane, faults = 0, spent >= Threshold,
                      \A r \in Requests : req[r].row # "flushed"
               PROVE  fee
    BY DEF FeeOwed
  <2>1. Counting = {}
    BY DEF Counting
  <2>2. Month = spent
    BY <2>1, FS_EmptySet DEF Month, TypeOK, TypeInv
  <2>3. Month >= Threshold
    BY <2>2
  <2>4. fee \/ \E r \in Counting : Sees(r)
    BY <2>3, Zenon DEF FeeInv
  <2>5. QED
    BY <2>1, <2>4, Zenon
<1>4. QED
  BY <1>1, <1>2, <1>3, TypesHold, RequestsSound, PTL DEF Spec

-----------------------------------------------------------------------------
(* Budgets.                                                                 *)

\* The requests that are checked against a budget.
Checked(s) == IF s = "account" THEN Requests \ Embeddings ELSE Requests

\* A request whose spend is in the ledger and not on the counters yet.
Unaccrued(x) ==
    \/ x.row = "saved" /\ ~x.old
    \/ x.served /\ x.pc \in Looking \cup {"accrue"}

\* A request that is past the check of a budget, or will be by what it read of the
\* ledger, and has not been recorded.
Passed(s, x) ==
    \/ x.pc \in Recording \cup {"serving"} /\ x.row # "saved"
    \/ s = "key" /\ ~x.served /\ x.pc \in Looking
    \/ s = "key" /\ x.subject = "account" /\ x.pc \in Asking
    \/ x.pc = "seed" /\ x.subject = s /\ x.sum < Limit[s]

Ahead(s)  == {r \in Checked(s) : Passed(s, req[r])}
Behind(s) == {r \in Checked(s) : Unaccrued(req[r])}
Beside(s) == {r \in Requests \ Checked(s) : Unaccrued(req[r])}

Room(s)  == Limit[s] + Cardinality(Checked(s)) - 1
Slack(s) == Room(s) * stale[s] + leaked[s]

\* What is recorded and what is let through keep to the room there is; and a
\* counter lags behind the ledger by the requests that have not been added to it.
Bounded(s) ==
    /\ spent + Cardinality(Ahead(s)) <= Room(s) + Slack(s) + Cardinality(Beside(s))
    /\ counter[s] # Absent =>
         spent <= counter[s] + Cardinality(Behind(s)) + Cardinality(Beside(s)) + Slack(s)

BudgetInv == \A s \in Subjects \cap lane : (s = "account" => ~paid) => Bounded(s)

\* The room and the slack are natural numbers.
LEMMA RoomTyped ==
    ASSUME TypeOK, NEW s \in Subjects
    PROVE  /\ Checked(s) \in SUBSET Requests /\ Cardinality(Checked(s)) \in Nat
           /\ Room(s) \in Nat /\ Room(s) >= Cardinality(Checked(s))
           /\ Room(s) * stale[s] \in Nat /\ Slack(s) \in Nat
           /\ stale[s] \in Nat /\ leaked[s] \in Nat /\ spent \in Nat
           /\ counter[s] \in Nat \cup {Absent} /\ Absent \notin Nat
<1>1. Checked(s) \in SUBSET Requests
  BY DEF Checked
<1>2. Cardinality(Checked(s)) \in Nat
  BY <1>1, Counts
<1>3. Limit[s] \in Nat /\ Limit[s] >= 1
  BY LimitsPositive
<1>4. Room(s) \in Nat /\ Room(s) >= Cardinality(Checked(s))
  BY <1>2, <1>3 DEF Room
<1>5. /\ stale[s] \in Nat /\ leaked[s] \in Nat /\ spent \in Nat
      /\ counter[s] \in Nat \cup {Absent} /\ Absent \notin Nat
  BY LimitsAssumption DEF TypeOK
<1>6. \A m, k \in Nat : m * k \in Nat
  OBVIOUS
<1>7. Room(s) * stale[s] \in Nat
  BY <1>4, <1>5, <1>6
<1>8. QED
  BY <1>1, <1>2, <1>4, <1>5, <1>7 DEF Slack

\* The requests of a budget are finitely many.
LEMMA SidesTyped ==
    ASSUME NEW s \in Subjects
    PROVE  /\ Ahead(s) \in SUBSET Requests /\ Behind(s) \in SUBSET Requests
           /\ Beside(s) \in SUBSET Requests
           /\ Cardinality(Ahead(s)) \in Nat /\ Cardinality(Behind(s)) \in Nat
           /\ Cardinality(Beside(s)) \in Nat
<1>1. /\ Ahead(s) \in SUBSET Requests /\ Behind(s) \in SUBSET Requests
      /\ Beside(s) \in SUBSET Requests
  BY DEF Ahead, Behind, Beside, Checked
<1>2. QED
  BY <1>1, Counts

\* What a step of one request does to the three counts.
LEMMA Tally ==
    ASSUME NEW s \in Subjects, NEW r \in Requests,
           \A q \in Requests : q # r => req'[q] = req[q]
    PROVE  /\ Cardinality(Ahead(s))' \in Nat /\ Cardinality(Behind(s))' \in Nat
           /\ Cardinality(Beside(s))' \in Nat
           /\ Cardinality(Ahead(s))' = Cardinality(Ahead(s))
                + One(r \in Checked(s) /\ Passed(s, req'[r])) - One(r \in Checked(s) /\ Passed(s, req[r]))
           /\ Cardinality(Behind(s))' = Cardinality(Behind(s))
                + One(r \in Checked(s) /\ Unaccrued(req'[r])) - One(r \in Checked(s) /\ Unaccrued(req[r]))
           /\ Cardinality(Beside(s))' = Cardinality(Beside(s))
                + One(r \notin Checked(s) /\ Unaccrued(req'[r])) - One(r \notin Checked(s) /\ Unaccrued(req[r]))
<1>1. /\ Ahead(s) \in SUBSET Requests /\ Behind(s) \in SUBSET Requests
      /\ Beside(s) \in SUBSET Requests /\ Ahead(s)' \in SUBSET Requests
      /\ Behind(s)' \in SUBSET Requests /\ Beside(s)' \in SUBSET Requests
  BY DEF Ahead, Behind, Beside, Checked
<1>2. \A q \in Requests : q # r => (Passed(s, req[q]) <=> Passed(s, req'[q])) /\ (Unaccrued(req[q]) <=> Unaccrued(req'[q]))
  BY DEF Passed, Unaccrued
<1>3. \A q \in Requests : /\ q \in Ahead(s) <=> q \in Checked(s) /\ Passed(s, req[q])
                          /\ q \in Behind(s) <=> q \in Checked(s) /\ Unaccrued(req[q])
                          /\ q \in Beside(s) <=> q \notin Checked(s) /\ Unaccrued(req[q])
  BY DEF Ahead, Behind, Beside
<1>4. \A q \in Requests : /\ q \in Ahead(s)' <=> q \in Checked(s) /\ Passed(s, req'[q])
                          /\ q \in Behind(s)' <=> q \in Checked(s) /\ Unaccrued(req'[q])
                          /\ q \in Beside(s)' <=> q \notin Checked(s) /\ Unaccrued(req'[q])
  BY DEF Ahead, Behind, Beside, Checked
<1>5. \A q \in Requests : q # r => /\ q \in Ahead(s) <=> q \in Ahead(s)'
                                   /\ q \in Behind(s) <=> q \in Behind(s)'
                                   /\ q \in Beside(s) <=> q \in Beside(s)'
  BY <1>2, <1>3, <1>4
<1>6. Cardinality(Ahead(s))' = Cardinality(Ahead(s)) + One(r \in Ahead(s)') - One(r \in Ahead(s))
  BY <1>1, <1>5, Differ
<1>7. Cardinality(Behind(s))' = Cardinality(Behind(s)) + One(r \in Behind(s)') - One(r \in Behind(s))
  BY <1>1, <1>5, Differ
<1>8. Cardinality(Beside(s))' = Cardinality(Beside(s)) + One(r \in Beside(s)') - One(r \in Beside(s))
  BY <1>1, <1>5, Differ
<1>9. /\ Cardinality(Ahead(s))' \in Nat /\ Cardinality(Behind(s))' \in Nat
      /\ Cardinality(Beside(s))' \in Nat
  BY <1>1, Counts
<1>10. QED
  BY <1>3, <1>4, <1>6, <1>7, <1>8, <1>9 DEF One
\* Nobody is ahead of a budget and behind its counter.
LEMMA AheadNotBehind ==
    ASSUME SoundInv, NEW s \in Subjects, NEW r \in Requests, Passed(s, req[r])
    PROVE  ~Unaccrued(req[r])
<1>1. Sound(r, req[r])
  BY DEF SoundInv
<1>2. CASE req[r].row = "saved"
  <2>1. req[r].pc = "commit" \/ req[r].pc \in Metering
    BY <1>1, <1>2, Zenon DEF Sound
  <2>2. req[r].pc = "commit"
    BY <1>1, <1>2, <2>1, SoundSays
  <2>3. QED
    BY <1>2, <2>2 DEF Passed, Recording, Metering, Looking, Asking
<1>3. CASE req[r].row # "saved" /\ req[r].served /\ req[r].pc \in Looking \cup {"accrue"}
  BY <1>3 DEF Passed, Recording, Metering, Looking, Asking
<1>4. QED
  BY <1>2, <1>3 DEF Unaccrued

\* Who is neither ahead nor behind leaves room for itself.
LEMMA RoomFor ==
    ASSUME TypeOK, SoundInv, NEW s \in Subjects, NEW r \in Checked(s),
           ~Passed(s, req[r]), ~Unaccrued(req[r])
    PROVE  Cardinality(Ahead(s)) + Cardinality(Behind(s)) + 1 <= Cardinality(Checked(s))
<1>1. /\ IsFiniteSet(Ahead(s)) /\ IsFiniteSet(Behind(s)) /\ IsFiniteSet(Checked(s))
      /\ Cardinality(Ahead(s)) \in Nat /\ Cardinality(Behind(s)) \in Nat
      /\ Cardinality(Checked(s)) \in Nat
  BY SidesTyped, RoomTyped, Counts
<1>2. Ahead(s) \cap Behind(s) = {}
  <2> SUFFICES ASSUME NEW q \in Ahead(s), q \in Behind(s) PROVE FALSE
    OBVIOUS
  <2>1. q \in Requests /\ Passed(s, req[q]) /\ Unaccrued(req[q])
    BY DEF Ahead, Behind, Checked
  <2>2. QED
    BY <2>1, AheadNotBehind, Zenon
<1>3. Cardinality(Ahead(s) \cup Behind(s)) = Cardinality(Ahead(s)) + Cardinality(Behind(s))
  <2>1. Cardinality(Ahead(s) \cap Behind(s)) = 0
    BY <1>2, FS_EmptySet
  <2>2. Cardinality(Ahead(s) \cup Behind(s))
          = Cardinality(Ahead(s)) + Cardinality(Behind(s)) - Cardinality(Ahead(s) \cap Behind(s))
    BY <1>1, FS_Union
  <2>3. QED
    BY <1>1, <2>1, <2>2
<1>4. Ahead(s) \cup Behind(s) \subseteq Checked(s) \ {r}
  BY DEF Ahead, Behind
<1>5. IsFiniteSet(Checked(s) \ {r}) /\ Cardinality(Checked(s) \ {r}) = Cardinality(Checked(s)) - 1
  BY <1>1, FS_RemoveElement
<1>6. Cardinality(Ahead(s) \cup Behind(s)) <= Cardinality(Checked(s) \ {r})
  BY <1>4, <1>5, FS_Subset
<1>7. QED
  BY <1>1, <1>3, <1>5, <1>6

\* A step that lets nobody through and adds nothing keeps the bounds.
LEMMA QuietStep ==
    ASSUME TypeOK, NEW s \in Subjects, NEW r \in Requests,
           \A q \in Requests : q # r => req'[q] = req[q],
           Bounded(s), spent' = spent, counter'[s] = counter[s],
           stale'[s] = stale[s], leaked'[s] = leaked[s],
           r \in Checked(s) /\ Passed(s, req'[r]) => Passed(s, req[r]),
           Unaccrued(req[r]) => Unaccrued(req'[r])
    PROVE  Bounded(s)'
<1> DEFINE a == Cardinality(Ahead(s))
           b == Cardinality(Behind(s))
           d == Cardinality(Beside(s))
           R == Room(s)
           K == Slack(s)
<1>1. /\ a \in Nat /\ b \in Nat /\ d \in Nat /\ a' \in Nat /\ b' \in Nat /\ d' \in Nat
      /\ R \in Nat /\ K \in Nat /\ spent \in Nat /\ counter[s] \in Nat \cup {Absent}
  BY SidesTyped, Tally, RoomTyped
<1>2. a' <= a /\ b' >= b /\ d' >= d
  BY <1>1, Tally DEF One
<1>3. R' = R /\ K' = K
  BY DEF Room, Slack, Checked
<1>4. /\ spent + a <= R + K + d
      /\ counter[s] # Absent => spent <= counter[s] + b + d + K
  BY DEF Bounded
<1> HIDE DEF a, b, d, R, K
<1>5. /\ spent + a' <= R + K + d'
      /\ counter[s] # Absent => spent <= counter[s] + b' + d' + K
  BY <1>1, <1>2, <1>4
<1>6. QED
  BY <1>3, <1>5 DEF Bounded, a, b, d, R, K

\* Whatever a step does to its request, one more leak pays for it.
LEMMA LeakStep ==
    ASSUME TypeOK, NEW s \in Subjects, NEW r \in Requests,
           \A q \in Requests : q # r => req'[q] = req[q],
           Bounded(s), spent' = spent, counter'[s] = counter[s],
           stale'[s] = stale[s], leaked'[s] = leaked[s] + 1
    PROVE  Bounded(s)'
<1> DEFINE a == Cardinality(Ahead(s))
           b == Cardinality(Behind(s))
           d == Cardinality(Beside(s))
           R == Room(s)
           K == Slack(s)
<1>1. /\ a \in Nat /\ b \in Nat /\ d \in Nat /\ a' \in Nat /\ b' \in Nat /\ d' \in Nat
      /\ R \in Nat /\ K \in Nat /\ spent \in Nat /\ counter[s] \in Nat \cup {Absent}
      /\ R * stale[s] \in Nat /\ leaked[s] \in Nat
  BY SidesTyped, Tally, RoomTyped
<1>2. a' + d <= a + d' + 1 /\ b' + d' + 1 >= b + d
  BY <1>1, Tally DEF One
<1>3. R' = R /\ K' = R * stale[s] + (leaked[s] + 1) /\ K = R * stale[s] + leaked[s]
  BY DEF Room, Slack, Checked
<1>4. /\ spent + a <= R + K + d
      /\ counter[s] # Absent => spent <= counter[s] + b + d + K
  BY DEF Bounded
<1>5. K' = K + 1
  <2> DEFINE P == R * stale[s]
  <2>1. P \in Nat /\ K' = P + (leaked[s] + 1) /\ K = P + leaked[s]
    BY <1>1, <1>3
  <2> HIDE DEF P, K
  <2>2. QED
    BY <1>1, <2>1
<1> HIDE DEF a, b, d, R, K
<1>6. /\ spent + a' <= R + (K + 1) + d'
      /\ counter[s] # Absent => spent <= counter[s] + b' + d' + (K + 1)
  BY <1>1, <1>2, <1>4
<1>7. QED
  BY <1>3, <1>5, <1>6 DEF Bounded, a, b, d, R, K

\* The sums of the next two steps.
LEMMA SaveSums ==
    ASSUME NEW p \in Nat, NEW R \in Nat, NEW K \in Nat
    PROVE  /\ \A a, a1, d, d1 \in Nat :
                a1 + d + 1 <= a + d1 /\ p + a <= R + K + d => (p + 1) + a1 <= R + K + d1
           /\ \A n, b, b1, d, d1 \in Nat :
                p <= n + b + d + K /\ b1 + d1 >= b + d + 1 => p + 1 <= n + b1 + d1 + K
OBVIOUS

\* The same for a step that adds.
LEMMA AddSums ==
    ASSUME NEW p \in Nat, NEW R \in Nat, NEW K \in Nat
    PROVE  /\ \A a, a1, d, d1 \in Nat :
                a1 <= a /\ d1 = d /\ p + a <= R + K + d => p + a1 <= R + K + d1
           /\ \A n, b, b1, d, d1 \in Nat : \A m :
                m = n + 1 /\ p <= n + b + d + K /\ b1 + 1 >= b /\ d1 = d => p <= m + b1 + d1 + K
OBVIOUS

\* What was ahead is in the ledger now, and its spend on its way.
LEMMA SaveStep ==
    ASSUME TypeOK, SoundInv, NEW s \in Subjects, NEW r \in Requests,
           \A q \in Requests : q # r => req'[q] = req[q],
           Bounded(s), spent' = spent + 1, counter'[s] = counter[s],
           stale'[s] = stale[s], leaked'[s] = leaked[s],
           Passed(s, req[r]), ~Passed(s, req'[r]), Unaccrued(req'[r])
    PROVE  Bounded(s)'
<1> DEFINE a == Cardinality(Ahead(s))
           b == Cardinality(Behind(s))
           d == Cardinality(Beside(s))
           R == Room(s)
           K == Slack(s)
<1>1. /\ a \in Nat /\ b \in Nat /\ d \in Nat /\ a' \in Nat /\ b' \in Nat /\ d' \in Nat
      /\ R \in Nat /\ K \in Nat /\ spent \in Nat /\ counter[s] \in Nat \cup {Absent}
  BY SidesTyped, Tally, RoomTyped
<1>2. ~Unaccrued(req[r])
  BY AheadNotBehind
<1>3. a' + d + 1 <= a + d' /\ b' + d' >= b + d + 1
  BY <1>1, <1>2, Tally DEF One
<1>4. R' = R /\ K' = K
  BY DEF Room, Slack, Checked
<1>5. /\ spent + a <= R + K + d
      /\ counter[s] # Absent => spent <= counter[s] + b + d + K
  BY DEF Bounded
<1> HIDE DEF a, b, d, R, K
<1>6. /\ (spent + 1) + a' <= R + K + d'
      /\ counter[s] # Absent => spent + 1 <= counter[s] + b' + d' + K
  <2>0. /\ a \in Nat /\ b \in Nat /\ d \in Nat /\ a' \in Nat /\ b' \in Nat /\ d' \in Nat
        /\ R \in Nat /\ K \in Nat /\ spent \in Nat
    BY <1>1
  <2>1. (spent + 1) + a' <= R + K + d'
    <3>1. a' + d + 1 <= a + d' /\ spent + a <= R + K + d
      BY <1>3, <1>5
    <3>2. QED
      BY <2>0, <3>1, SaveSums, Zenon
  <2>2. ASSUME counter[s] # Absent PROVE spent + 1 <= counter[s] + b' + d' + K
    <3> DEFINE n == counter[s]
    <3>1. n \in Nat /\ spent <= n + b + d + K /\ b' + d' >= b + d + 1
      BY <1>1, <1>3, <1>5, <2>2
    <3> HIDE DEF n
    <3>2. spent + 1 <= n + b' + d' + K
      BY <2>0, <3>1, SaveSums, Zenon
    <3>3. QED
      BY <3>2 DEF n
  <2>3. QED
    BY <2>1, <2>2
<1>7. QED
  BY <1>4, <1>6 DEF Bounded, a, b, d, R, K

\* A request that read less than the limit is let through.
LEMMA EnterStep ==
    ASSUME TypeOK, SoundInv, NEW s \in Subjects, NEW r \in Checked(s),
           \A q \in Requests : q # r => req'[q] = req[q],
           Bounded(s), spent' = spent, counter'[s] = counter[s],
           stale'[s] = stale[s], leaked'[s] = leaked[s],
           NEW n \in Nat, n < Limit[s], n = counter[s] \/ n = spent,
           ~Passed(s, req[r]), ~Unaccrued(req[r])
    PROVE  Bounded(s)'
<1> DEFINE a == Cardinality(Ahead(s))
           b == Cardinality(Behind(s))
           d == Cardinality(Beside(s))
           c == Cardinality(Checked(s))
           R == Room(s)
           K == Slack(s)
<1>0. r \in Requests
  BY DEF Checked
<1>1. /\ a \in Nat /\ b \in Nat /\ d \in Nat /\ a' \in Nat /\ b' \in Nat /\ d' \in Nat
      /\ R \in Nat /\ K \in Nat /\ spent \in Nat /\ counter[s] \in Nat \cup {Absent}
      /\ c \in Nat /\ Absent \notin Nat
  BY <1>0, SidesTyped, Tally, RoomTyped
<1>2. a' <= a + 1 /\ b' >= b /\ d' >= d
  BY <1>0, <1>1, Tally DEF One
<1>3. R' = R /\ K' = K /\ R = Limit[s] + c - 1 /\ Limit[s] \in Nat
  BY LimitsPositive DEF Room, Slack, Checked
<1>4. /\ spent + a <= R + K + d
      /\ counter[s] # Absent => spent <= counter[s] + b + d + K
  BY DEF Bounded
<1>5. a + b + 1 <= c
  BY RoomFor
<1> HIDE DEF a, b, d, c, R, K
<1>6. spent <= n + b + d + K
  BY <1>1, <1>4
<1>7. /\ spent + a' <= R + K + d'
      /\ counter[s] # Absent => spent <= counter[s] + b' + d' + K
  BY <1>1, <1>2, <1>3, <1>4, <1>5, <1>6
<1>8. QED
  BY <1>3, <1>7 DEF Bounded, a, b, d, R, K

\* Spend that is added to a counter that exists was missing from it.
LEMMA AddStep ==
    ASSUME TypeOK, NEW s \in Subjects, NEW r \in Checked(s),
           \A q \in Requests : q # r => req'[q] = req[q],
           Bounded(s), spent' = spent, counter'[s] = Incremented(counter[s]),
           stale'[s] = stale[s], leaked'[s] = leaked[s], ~Passed(s, req'[r])
    PROVE  Bounded(s)'
<1> DEFINE a == Cardinality(Ahead(s))
           b == Cardinality(Behind(s))
           d == Cardinality(Beside(s))
           R == Room(s)
           K == Slack(s)
<1>0. r \in Requests
  BY DEF Checked
<1>1. /\ a \in Nat /\ b \in Nat /\ d \in Nat /\ a' \in Nat /\ b' \in Nat /\ d' \in Nat
      /\ R \in Nat /\ K \in Nat /\ spent \in Nat /\ counter[s] \in Nat \cup {Absent}
      /\ Absent \notin Nat
  BY <1>0, SidesTyped, Tally, RoomTyped
<1>2. a' <= a /\ b' + 1 >= b /\ d' = d
  BY <1>0, <1>1, Tally DEF One
<1>3. R' = R /\ K' = K
  BY DEF Room, Slack, Checked
<1>4. /\ spent + a <= R + K + d
      /\ counter[s] # Absent => spent <= counter[s] + b + d + K
  BY DEF Bounded
<1>5. counter'[s] # Absent => counter[s] \in Nat /\ counter'[s] = counter[s] + 1
  BY <1>1 DEF Incremented
<1> HIDE DEF a, b, d, R, K
<1>6. /\ spent + a' <= R + K + d'
      /\ counter'[s] # Absent => spent <= counter'[s] + b' + d' + K
  <2>0. /\ a \in Nat /\ b \in Nat /\ d \in Nat /\ a' \in Nat /\ b' \in Nat /\ d' \in Nat
        /\ R \in Nat /\ K \in Nat /\ spent \in Nat
    BY <1>1
  <2>1. spent + a' <= R + K + d'
    <3>1. a' <= a /\ d' = d /\ spent + a <= R + K + d
      BY <1>2, <1>4
    <3>2. QED
      BY <2>0, <3>1, AddSums, Zenon
  <2>2. ASSUME counter'[s] # Absent PROVE spent <= counter'[s] + b' + d' + K
    <3> DEFINE n == counter[s]
               m == counter'[s]
    <3>1. n \in Nat /\ m = n + 1 /\ spent <= n + b + d + K /\ b' + 1 >= b /\ d' = d
      BY <1>1, <1>2, <1>4, <1>5, <2>2
    <3> HIDE DEF n, m
    <3>2. spent <= m + b' + d' + K
      BY <2>0, <3>1, AddSums, Zenon
    <3>3. QED
      BY <3>2 DEF m
  <2>3. QED
    BY <2>1, <2>2
<1>7. QED
  BY <1>3, <1>6 DEF Bounded, a, b, d, R, K

\* The sums of the step that seeds a counter.
LEMMA SeedSums ==
    ASSUME NEW p \in Nat, NEW R \in Nat, NEW K \in Nat
    PROVE  /\ \A a, a1, d, d1 \in Nat :
                p + a <= R + K + d /\ a1 <= a /\ d <= d1 => p + a1 <= R + K + d1
           /\ \A n, b, d \in Nat : p <= n => p <= n + b + d + K
           /\ \A a, a1, d, d1 \in Nat :
                p + a <= R + K + d /\ a1 <= a /\ d <= d1 => p + a1 <= R + (K + R) + d1
           /\ \A n, a, b1, d, d1 \in Nat :
                p + a <= R + K + d /\ d <= d1 => p <= n + b1 + d1 + (K + R)
OBVIOUS

\* A counter that is set to a sum lags by what was recorded since, which is no more
\* than the room there was.
LEMMA SeedStep ==
    ASSUME TypeOK, NEW s \in Subjects, NEW r \in Requests,
           \A q \in Requests : q # r => req'[q] = req[q],
           Bounded(s), spent' = spent, NEW n \in Nat, counter'[s] = n,
           stale'[s] = (IF n < spent THEN stale[s] + 1 ELSE stale[s]), leaked'[s] = leaked[s],
           r \in Checked(s) /\ Passed(s, req'[r]) => Passed(s, req[r]),
           Unaccrued(req[r]) => Unaccrued(req'[r])
    PROVE  Bounded(s)'
<1> DEFINE a == Cardinality(Ahead(s))
           b == Cardinality(Behind(s))
           d == Cardinality(Beside(s))
           R == Room(s)
           K == Slack(s)
           P == R * stale[s]
<1>1. /\ a \in Nat /\ b \in Nat /\ d \in Nat /\ a' \in Nat /\ b' \in Nat /\ d' \in Nat
      /\ R \in Nat /\ K \in Nat /\ spent \in Nat /\ P \in Nat
      /\ stale[s] \in Nat /\ leaked[s] \in Nat
  BY SidesTyped, Tally, RoomTyped
<1>2. a' <= a /\ b' >= b /\ d' >= d
  BY <1>1, Tally DEF One
<1>3. R' = R /\ K' = R * stale'[s] + leaked[s] /\ K = P + leaked[s]
  BY DEF Room, Slack, Checked
<1>4. spent + a <= R + K + d
  BY DEF Bounded
<1>5. CASE n < spent
  <2>1. R * (stale[s] + 1) = P + R
    <3> HIDE DEF R
    <3>1. QED
      BY <1>1
  <2>2. K' = K + R
    <3>1. K' = (P + R) + leaked[s]
      BY <1>3, <1>5, <2>1
    <3> HIDE DEF K, P, R
    <3>2. QED
      BY <1>1, <1>3, <3>1
  <2> HIDE DEF a, b, d, R, K, P
  <2>3. /\ spent + a' <= R + (K + R) + d'
        /\ spent <= n + b' + d' + (K + R)
    <3>1. /\ a \in Nat /\ d \in Nat /\ a' \in Nat /\ b' \in Nat /\ d' \in Nat
          /\ R \in Nat /\ K \in Nat /\ spent \in Nat
      BY <1>1
    <3>2. a' <= a /\ d <= d' /\ spent + a <= R + K + d
      BY <1>1, <1>2, <1>4
    <3>3. QED
      BY <3>1, <3>2, SeedSums, Zenon
  <2>4. QED
    BY <1>3, <2>2, <2>3 DEF Bounded, a, b, d, R, K
<1>6. CASE ~(n < spent)
  <2>1. K' = K
    BY <1>3, <1>6
  <2> HIDE DEF a, b, d, R, K, P
  <2>2. /\ spent + a' <= R + K + d'
        /\ spent <= n + b' + d' + K
    <3>1. /\ a \in Nat /\ d \in Nat /\ a' \in Nat /\ b' \in Nat /\ d' \in Nat
          /\ R \in Nat /\ K \in Nat /\ spent \in Nat
      BY <1>1
    <3>2. spent <= n /\ spent + a <= R + K + d /\ a' <= a /\ d <= d'
      BY <1>1, <1>2, <1>4, <1>6
    <3>3. QED
      BY <3>1, <3>2, SeedSums, Zenon
  <2>3. QED
    BY <1>3, <2>1, <2>2 DEF Bounded, a, b, d, R, K
<1>7. QED
  BY <1>5, <1>6

\* A decision lets a request through only the budget it was on, and below its limit.
LEMMA DecideLets ==
    ASSUME TypeOK, SoundInv, NEW s \in Subjects \cap lane, NEW r \in Requests, NEW n,
           Decide(r, n), req[r].pc \in Asking
    PROVE  /\ ~Unaccrued(req[r])
           /\ \/ r \in Checked(s) /\ Passed(s, req'[r]) => Passed(s, req[r])
              \/ req[r].subject = s /\ r \in Checked(s) /\ ~(n >= Limit[s])
<1> DEFINE x == req[r]
           y == req'[r]
<1>1. /\ x \in RequestStates /\ ~x.served /\ x.row = "none"
      /\ x.subject = "account" => "account" \in lane /\ r \notin Embeddings
  BY SoundSays DEF TypeOK, SoundInv
<1>2. ~Unaccrued(x)
  BY <1>1 DEF Unaccrued
<1>3. CASE y.pc = "idle" /\ Cleared(y)
  <2>1. ~Passed(s, y)
    BY <1>3 DEF Passed, Cleared, Looking, Asking, Recording, Metering
  <2>2. QED
    BY <1>2, <2>1, Zenon
<1>4. CASE ~(n >= Limit[x.subject]) /\ x.subject = "key" /\ y = AskTrust(r, x)
  <2>1. /\ y.pc = (IF "account" \in lane /\ r \notin Embeddings THEN "trust" ELSE "serving")
        /\ y.subject = "key"
    BY <1>1, <1>4, AskTrustFields
  <2>2. CASE s = "key"
    BY <1>2, <1>4, <2>2 DEF Checked
  <2>3. CASE s = "account"
    <3>1. r \in Checked(s) => y.pc = "trust"
      BY <2>1, <2>3 DEF Checked
    <3>2. r \in Checked(s) => ~Passed(s, y)
      BY <2>3, <3>1 DEF Passed, Looking, Asking, Recording, Metering
    <3>3. QED
      BY <1>2, <3>2, Zenon
  <2>4. QED
    BY <2>2, <2>3 DEF Subjects
<1>5. CASE ~(n >= Limit[x.subject]) /\ x.subject # "key" /\ y.pc = "serving" /\ Cleared(y)
  <2>1. x.subject = "account"
    BY <1>1, <1>5 DEF RequestStates, Subjects
  <2>2. CASE s = "key"
    <3>1. Passed(s, x)
      BY <2>1, <2>2 DEF Passed
    <3>2. QED
      BY <1>2, <3>1, Zenon
  <2>3. CASE s = "account"
    BY <1>1, <1>2, <1>5, <2>1, <2>3 DEF Checked
  <2>4. QED
    BY <2>2, <2>3 DEF Subjects
<1>6. QED
  BY <1>3, <1>4, <1>5, DecideFields

\* The verdict on the profile lets nobody past the key's budget, and past the ceiling
\* only without a ramping profile.
LEMMA EnforceLets ==
    ASSUME TypeOK, SoundInv, NEW s \in Subjects \cap lane, NEW r \in Requests, NEW p,
           Enforce(r, p), req[r].pc \in Looking
    PROVE  /\ Unaccrued(req[r]) => Unaccrued(req'[r])
           /\ s = "key" \/ req[r].served \/ p = "ramp" =>
                (Passed(s, req'[r]) => Passed(s, req[r]))
<1> DEFINE x == req[r]
           y == req'[r]
<1>1. x \in RequestStates /\ x.row = "none"
  BY SoundSays DEF TypeOK, SoundInv
<1>2. CASE x.served
  <2>1. y.pc = "accrue" /\ y.served
    BY <1>2, EnforceFields
  <2>2. Unaccrued(y)
    BY <2>1 DEF Unaccrued
  <2>3. ~Passed(s, y)
    BY <2>1 DEF Passed, Looking, Asking, Recording, Metering
  <2>4. QED
    BY <2>2, <2>3, Zenon
<1>3. CASE ~x.served
  <2>1. ~Unaccrued(x)
    BY <1>1, <1>3 DEF Unaccrued
  <2>2. CASE s = "key"
    <3>1. Passed(s, x)
      BY <1>3, <2>2 DEF Passed
    <3>2. QED
      BY <2>1, <3>1, Zenon
  <2>3. CASE s = "account" /\ p = "ramp"
    <3>1. y.pc = "peek"
      BY <1>3, <2>3, EnforceFields
    <3>2. ~Passed(s, y)
      BY <2>3, <3>1 DEF Passed, Looking, Asking, Recording, Metering
    <3>3. QED
      BY <2>1, <3>2, Zenon
  <2>4. QED
    BY <1>3, <2>1, <2>2, <2>3 DEF Subjects
<1>4. QED
  BY <1>2, <1>3

\* Every step of a request keeps the bounds of every budget in force.
LEMMA BudgetStep ==
    ASSUME TypeOK, SoundInv, BudgetInv, NEW r \in Requests, Arrive(r) \/ Proceed(r)
    PROVE  BudgetInv'
<1>0. lane' = lane /\ paid' = paid /\ \A q \in Requests : q # r => req'[q] = req[q]
  BY OthersStay
<1> SUFFICES ASSUME NEW s \in Subjects \cap lane, s = "account" => ~paid
             PROVE  Bounded(s)'
  BY <1>0 DEF BudgetInv
<1> DEFINE x == req[r]
           y == req'[r]
           Same == spent' = spent /\ counter'[s] = counter[s] /\ stale'[s] = stale[s]
           Quiet == /\ r \in Checked(s) /\ Passed(s, y) => Passed(s, x)
                    /\ Unaccrued(x) => Unaccrued(y)
<1>1. x \in RequestStates /\ Sound(r, x) /\ Bounded(s)
  BY DEF TypeOK, SoundInv, BudgetInv
<1>2. /\ s \in Subjects /\ s \in lane /\ (s = "key" \/ s = "account")
      /\ spent \in Nat /\ counter[s] \in Nat \cup {Absent} /\ Absent \notin Nat
  BY RoomTyped DEF Subjects
<1>3. ASSUME Same, leaked'[s] = leaked[s], Quiet PROVE Bounded(s)'
  BY <1>0, <1>1, <1>2, <1>3, QuietStep
<1>4. ASSUME Same, leaked'[s] = leaked[s] + 1 PROVE Bounded(s)'
  BY <1>0, <1>1, <1>2, <1>4, LeakStep
<1>5. ASSUME spent' = spent + 1, counter'[s] = counter[s], stale'[s] = stale[s],
             leaked'[s] = leaked[s], Passed(s, x), ~Passed(s, y), Unaccrued(y)
      PROVE  Bounded(s)'
  BY <1>0, <1>1, <1>2, <1>5, SaveStep
<1>6. ASSUME ~Passed(s, y), ~Unaccrued(x) \/ Unaccrued(y) PROVE Quiet
  BY <1>6, Zenon
<1>7. ASSUME y.pc = "idle" PROVE ~Passed(s, y)
  BY <1>7 DEF Passed, Looking, Asking, Recording, Metering
<1>8. ASSUME x.pc \in Recording \cup {"serving"}, x.row # "saved"
      PROVE  Passed(s, x) /\ ~Unaccrued(x)
  BY <1>8 DEF Passed, Unaccrued, Looking, Recording, Metering
<1> HIDE DEF Quiet
<1>9. CASE Arrive(r) \/ CountHits(r) \/ AddHit(r)
  <2>1. Same /\ leaked'[s] = leaked[s]
    BY <1>9 DEF Arrive, CountHits, AddHit, redis, books, past
  <2>2. x.pc \in {"idle", "rate", "hit"}
    BY <1>9, Leads
  <2>3. ~Unaccrued(x)
    BY <1>1, <2>2, SoundSays DEF Unaccrued
  <2>4. \/ y.pc \in {"idle", "rate", "hit"}
        \/ \E z \in RequestStates : y = AfterRate(z)
    <3>1. \A z : Becomes(r, z) => y = z
      BY BecomesFields
    <3>2. CASE Arrive(r)
      <4> DEFINE z == [Idle EXCEPT !.pc = "rate"]
      <4>1. y = z \/ y = AfterRate(Idle)
        <5>1. Becomes(r, z) \/ Becomes(r, AfterRate(Idle))
          BY <3>2 DEF Arrive
        <5>2. QED
          BY <3>1, <5>1
      <4>2. z.pc = "rate"
        BY IdleFields
      <4>3. Idle \in RequestStates
        BY DEF Idle, RequestStates, Subjects
      <4> HIDE DEF y, z
      <4>4. QED
        BY <4>1, <4>2, <4>3
    <3>3. CASE CountHits(r)
      BY <3>1, <3>3, <1>1, GoToFields, IdleFields DEF CountHits
    <3>4. CASE AddHit(r)
      BY <3>1, <3>4, <1>1 DEF AddHit
    <3>5. QED
      BY <1>9, <3>2, <3>3, <3>4
  <2>5. CASE y.pc \in {"idle", "rate", "hit"}
    <3>1. ~Passed(s, y)
      BY <2>5 DEF Passed, Looking, Asking, Recording, Metering
    <3>2. QED
      BY <1>3, <1>6, <2>1, <2>3, <3>1
  <2>6. CASE \E z \in RequestStates : y = AfterRate(z)
    <3>1. y.pc \in {"peek", "trust"} /\ y.subject = "key" /\ ("key" \in lane => y.pc = "peek")
      BY <2>6, AfterRateFields
    <3>2. ~Passed(s, y)
      BY <1>2, <3>1 DEF Passed, Looking, Asking, Recording, Metering
    <3>3. QED
      BY <1>3, <1>6, <2>1, <2>3, <3>2
  <2>7. QED
    BY <2>4, <2>5, <2>6
<1>10. CASE GetCounter(r)
  <2>1. Same /\ leaked'[s] = leaked[s] /\ x.pc \in {"peek", "get"}
    BY <1>10 DEF GetCounter, redis, books, past
  <2>2. ~Unaccrued(x)
    BY <1>1, <2>1, SoundSays DEF Unaccrued, Asking, Looking
  <2>3. \/ \E pc \in {"get", "sum"} : GoTo(r, pc)
        \/ counter[x.subject] # Absent /\ Decide(r, counter[x.subject])
    BY <1>10 DEF GetCounter
  <2>4. ASSUME NEW pc \in {"get", "sum"}, GoTo(r, pc) PROVE Bounded(s)'
    <3>1. y.pc \in {"get", "sum"} /\ SameRest(x, y)
      BY <2>4, GoToFields
    <3>2. Passed(s, y) => Passed(s, x)
      BY <2>1, <3>1 DEF Passed, SameRest, Looking, Asking, Recording, Metering
    <3>3. Quiet
      BY <2>2, <3>2, Zenon DEF Quiet
    <3>4. QED
      BY <1>3, <2>1, <3>3
  <2>5. CASE counter[x.subject] # Absent /\ Decide(r, counter[x.subject])
    <3>1. \/ r \in Checked(s) /\ Passed(s, y) => Passed(s, x)
          \/ x.subject = s /\ r \in Checked(s) /\ ~(counter[x.subject] >= Limit[s])
      BY <2>1, <2>5, DecideLets DEF Asking
    <3>2. CASE r \in Checked(s) /\ Passed(s, y) => Passed(s, x)
      <4>1. Quiet
        BY <2>2, <3>2, Zenon DEF Quiet
      <4>2. QED
        BY <1>3, <2>1, <4>1
    <3>3. CASE x.subject = s /\ r \in Checked(s) /\ ~(counter[x.subject] >= Limit[s])
      <4>1. ~Passed(s, x)
        BY <1>2, <2>1, <3>3 DEF Passed, Looking, Asking, Recording, Metering
      <4>2. counter[s] \in Nat /\ counter[s] < Limit[s]
        BY <1>2, <2>5, <3>3, LimitsPositive
      <4>3. QED
        BY <1>0, <1>1, <2>1, <2>2, <3>3, <4>1, <4>2, EnterStep
    <3>4. QED
      BY <3>1, <3>2, <3>3
  <2>6. QED
    BY <2>3, <2>4, <2>5
<1>11. CASE SumLedger(r)
  <2>1. Same /\ x.pc = "sum"
    BY <1>11 DEF SumLedger, redis, books, At
  <2>2. ~Unaccrued(x)
    BY <1>1, <2>1, SoundSays DEF Unaccrued, Asking, Looking
  <2>3. \/ Becomes(r, [x EXCEPT !.pc = "seed", !.sum = spent]) /\ leaked' = leaked
        \/ Decide(r, 0) /\ leaked' = [leaked EXCEPT ![x.subject] = @ + 1]
    BY <1>11 DEF SumLedger, Leak
  <2>4. CASE Becomes(r, [x EXCEPT !.pc = "seed", !.sum = spent]) /\ leaked' = leaked
    <3>1. y = [x EXCEPT !.pc = "seed", !.sum = spent]
      BY <2>4, BecomesFields
    <3>2. /\ y.pc = "seed" /\ y.sum = spent /\ y.subject = x.subject
          /\ y.row = x.row /\ y.served = x.served
      BY <1>1, <3>1 DEF RequestStates
    <3>3. CASE x.subject = s /\ r \in Checked(s) /\ spent < Limit[s]
      <4>1. ~Passed(s, x)
        BY <1>2, <2>1, <3>3 DEF Passed, Looking, Asking, Recording, Metering
      <4>2. QED
        BY <1>0, <1>1, <1>2, <2>1, <2>2, <2>4, <3>3, <4>1, EnterStep
    <3>4. CASE ~(x.subject = s /\ r \in Checked(s) /\ spent < Limit[s])
      <4>1. r \in Checked(s) /\ Passed(s, y) => Passed(s, x)
        BY <2>1, <3>2, <3>4 DEF Passed, Looking, Asking, Recording, Metering
      <4>2. Quiet
        BY <2>2, <4>1, Zenon DEF Quiet
      <4>3. QED
        BY <1>3, <2>1, <2>4, <4>2
    <3>5. QED
      BY <3>3, <3>4
  <2>5. CASE Decide(r, 0) /\ leaked' = [leaked EXCEPT ![x.subject] = @ + 1]
    <3>1. CASE x.subject = s
      <4>1. leaked'[s] = leaked[s] + 1
        BY <1>2, <2>5, <3>1 DEF TypeOK
      <4>2. QED
        BY <1>4, <2>1, <4>1
    <3>2. CASE x.subject # s
      <4>1. leaked'[s] = leaked[s]
        BY <1>2, <2>5, <3>2 DEF TypeOK
      <4>2. r \in Checked(s) /\ Passed(s, y) => Passed(s, x)
        BY <2>1, <2>5, <3>2, DecideLets DEF Asking
      <4>3. Quiet
        BY <2>2, <4>2, Zenon DEF Quiet
      <4>4. QED
        BY <1>3, <2>1, <4>1, <4>3
    <3>3. QED
      BY <3>1, <3>2
  <2>6. QED
    BY <2>3, <2>4, <2>5
<1>12. CASE Seed(r)
  <2>1. spent' = spent /\ leaked' = leaked /\ x.pc = "seed" /\ Decide(r, x.sum)
    BY <1>12 DEF Seed, books, At
  <2>2. ~Unaccrued(x)
    BY <1>1, <2>1, SoundSays DEF Unaccrued, Asking, Looking
  <2>3. r \in Checked(s) /\ Passed(s, y) => Passed(s, x)
    <3>1. \/ r \in Checked(s) /\ Passed(s, y) => Passed(s, x)
          \/ x.subject = s /\ r \in Checked(s) /\ ~(x.sum >= Limit[s])
      BY <2>1, DecideLets DEF Asking
    <3>2. x.subject = s /\ ~(x.sum >= Limit[s]) => Passed(s, x)
      <4>1. ~(x.sum >= Limit[s]) => x.sum < Limit[s]
        BY <1>1, <1>2, LimitsPositive DEF RequestStates
      <4>2. QED
        BY <2>1, <4>1 DEF Passed
    <3>3. QED
      BY <3>1, <3>2, Zenon
  <2>4. \/ counter'[s] = counter[s] /\ stale'[s] = stale[s]
        \/ /\ counter'[s] = x.sum
           /\ stale'[s] = (IF x.sum < spent THEN stale[s] + 1 ELSE stale[s])
    <3>1. \/ counter' = counter /\ stale' = stale
          \/ /\ counter' = [counter EXCEPT ![x.subject] = x.sum]
             /\ stale' = (IF x.sum < spent THEN [stale EXCEPT ![x.subject] = @ + 1] ELSE stale)
          \/ x.old /\ counter' = counter /\ stale' = stale
      BY <1>12 DEF Seed
    <3>2. CASE x.subject = s
      BY <1>2, <3>1, <3>2 DEF TypeOK
    <3>3. CASE x.subject # s
      BY <1>2, <3>1, <3>3 DEF TypeOK
    <3>4. QED
      BY <3>2, <3>3
  <2>5. CASE counter'[s] = counter[s] /\ stale'[s] = stale[s]
    <3>1. Quiet
      BY <2>2, <2>3, Zenon DEF Quiet
    <3>2. QED
      BY <1>3, <2>1, <2>5, <3>1
  <2>6. CASE /\ counter'[s] = x.sum
             /\ stale'[s] = (IF x.sum < spent THEN stale[s] + 1 ELSE stale[s])
    <3>1. x.sum \in Nat
      BY <1>1 DEF RequestStates
    <3>2. QED
      BY <1>0, <1>1, <1>2, <2>1, <2>2, <2>3, <2>6, <3>1, SeedStep
  <2>7. QED
    BY <2>4, <2>5, <2>6
<1>13. CASE GetTrust(r)
  <2>1. Same /\ leaked'[s] = leaked[s] /\ x.pc = "trust"
    BY <1>13 DEF GetTrust, redis, books, past, At
  <2>2. \/ ("account" \notin lane \/ r \in Embeddings) /\ GoTo(r, "serving")
        \/ GoTo(r, "load")
        \/ trust # "none" /\ Enforce(r, trust)
    BY <1>13 DEF GetTrust
  <2>3. CASE ("account" \notin lane \/ r \in Embeddings) /\ GoTo(r, "serving")
    <3>1. ~x.served /\ x.row = "none"
      BY <1>1, <2>1, <2>3, SoundSays DEF Looking
    <3>2. ~Unaccrued(x)
      BY <3>1 DEF Unaccrued
    <3>3. s = "account" => r \notin Checked(s)
      BY <1>2, <2>3 DEF Checked
    <3>4. s = "key" => Passed(s, x)
      BY <2>1, <3>1 DEF Passed, Looking
    <3>5. Quiet
      BY <1>2, <3>2, <3>3, <3>4, Zenon DEF Quiet
    <3>6. QED
      BY <1>3, <2>1, <3>5
  <2>4. CASE GoTo(r, "load")
    <3>1. y.pc = "load" /\ SameRest(x, y)
      BY <2>4, GoToFields
    <3>2. /\ Passed(s, y) => Passed(s, x)
          /\ Unaccrued(x) => Unaccrued(y)
      BY <2>1, <3>1 DEF Passed, Unaccrued, SameRest, Looking, Asking, Recording, Metering
    <3>3. Quiet
      BY <3>2, Zenon DEF Quiet
    <3>4. QED
      BY <1>3, <2>1, <3>3
  <2>5. CASE trust # "none" /\ Enforce(r, trust)
    <3>1. s = "key" \/ trust = "ramp"
      BY <1>2, <2>5 DEF TypeOK, SoundInv
    <3>2. /\ Passed(s, y) => Passed(s, x)
          /\ Unaccrued(x) => Unaccrued(y)
      BY <2>1, <2>5, <3>1, EnforceLets DEF Looking
    <3>3. Quiet
      BY <3>2, Zenon DEF Quiet
    <3>4. QED
      BY <1>3, <2>1, <3>3
  <2>6. QED
    BY <2>2, <2>3, <2>4, <2>5
<1>14. CASE LoadTrust(r)
  <2>1. Same /\ x.pc = "load"
    BY <1>14 DEF LoadTrust, redis, books, At
  <2>2. \/ /\ Becomes(r, [x EXCEPT !.pc = "keep", !.profile = IF paid THEN "paid" ELSE "ramp"])
           /\ leaked' = leaked
        \/ Enforce(r, "none") /\ x.served /\ leaked' = leaked
        \/ Enforce(r, "none") /\ ~x.served /\ leaked' = [leaked EXCEPT !["account"] = @ + 1]
    BY <1>14 DEF LoadTrust, Leak
  <2>3. CASE /\ Becomes(r, [x EXCEPT !.pc = "keep", !.profile = IF paid THEN "paid" ELSE "ramp"])
             /\ leaked' = leaked
    <3>1. y = [x EXCEPT !.pc = "keep", !.profile = IF paid THEN "paid" ELSE "ramp"]
      BY <2>3, BecomesFields
    <3>2. /\ y.pc = "keep" /\ y.sum = x.sum /\ y.subject = x.subject
          /\ y.row = x.row /\ y.served = x.served /\ y.old = x.old
      BY <1>1, <3>1 DEF RequestStates
    <3>3. /\ Passed(s, y) => Passed(s, x)
          /\ Unaccrued(x) => Unaccrued(y)
      BY <2>1, <3>2 DEF Passed, Unaccrued, Looking, Asking, Recording, Metering
    <3>4. Quiet
      BY <3>3, Zenon DEF Quiet
    <3>5. QED
      BY <1>3, <2>1, <2>3, <3>4
  <2>4. ASSUME Enforce(r, "none"), leaked'[s] = leaked[s], s = "key" \/ x.served
        PROVE  Bounded(s)'
    <3>1. /\ Passed(s, y) => Passed(s, x)
          /\ Unaccrued(x) => Unaccrued(y)
      BY <2>1, <2>4, EnforceLets DEF Looking
    <3>2. Quiet
      BY <3>1, Zenon DEF Quiet
    <3>3. QED
      BY <1>3, <2>1, <2>4, <3>2
  <2>5. CASE Enforce(r, "none") /\ ~x.served /\ leaked' = [leaked EXCEPT !["account"] = @ + 1]
    <3>1. CASE s = "account"
      <4>1. leaked'[s] = leaked[s] + 1
        BY <1>2, <2>5, <3>1 DEF TypeOK
      <4>2. QED
        BY <1>4, <2>1, <4>1
    <3>2. CASE s = "key"
      <4>1. leaked'[s] = leaked[s]
        BY <1>2, <2>5, <3>2 DEF TypeOK
      <4>2. QED
        BY <2>4, <2>5, <3>2, <4>1
    <3>3. QED
      BY <1>2, <3>1, <3>2
  <2>6. QED
    BY <2>2, <2>3, <2>4, <2>5
<1>15. CASE KeepTrust(r)
  <2>1. Same /\ leaked'[s] = leaked[s] /\ x.pc = "keep" /\ Enforce(r, x.profile)
    BY <1>15 DEF KeepTrust, books, past, At
  <2>2. x.profile # "none" /\ (x.profile = "paid" => paid)
    BY <1>1, <2>1, SoundSays
  <2>3. s = "key" \/ x.profile = "ramp"
    BY <1>1, <1>2, <2>2 DEF RequestStates
  <2>4. /\ Passed(s, y) => Passed(s, x)
        /\ Unaccrued(x) => Unaccrued(y)
    BY <2>1, <2>3, EnforceLets DEF Looking
  <2>5. Quiet
    BY <2>4, Zenon DEF Quiet
  <2>6. QED
    BY <1>3, <2>1, <2>5
<1>16. CASE Answer(r) \/ Record(r) \/ IncrTokens(r) \/ ReadMonth(r) \/ TopUp(r) \/ MayCharge(r)
  <2>1. Same /\ leaked'[s] = leaked[s]
    BY <1>16 DEF Answer, Record, IncrTokens, ReadMonth, TopUp, MayCharge, redis, books, past
  <2>2. x.pc \in {"serving", "record", "incr", "reseed", "month", "topup", "charge"}
    BY <1>16, Leads
  <2>3. x.row # "saved"
    BY <1>1, <2>2, SoundSays DEF Looking, Metering
  <2>4. Passed(s, x) /\ ~Unaccrued(x)
    BY <1>8, <2>2, <2>3 DEF Recording, Metering
  <2>5. Quiet
    BY <2>4, Zenon DEF Quiet
  <2>6. QED
    BY <1>3, <2>1, <2>5
<1>17. CASE InsertFee(r)
  <2>1. /\ counter' = counter /\ stale' = stale /\ leaked' = leaked /\ x.pc = "insert"
    BY <1>17 DEF InsertFee, redis, past, At
  <2>2. x.row = "flushed"
    BY <1>1, <2>1, SoundSays DEF Metering
  <2>3. Passed(s, x) /\ ~Unaccrued(x)
    BY <1>8, <2>1, <2>2 DEF Recording, Metering
  <2>4. \/ spent' = spent
        \/ /\ spent' = spent + 1 /\ ~x.old
           /\ Becomes(r, [x EXCEPT !.pc = "commit", !.sum = 0, !.row = "saved"])
    BY <1>17, <2>2 DEF InsertFee, Saved
  <2>5. CASE spent' = spent
    <3>1. Quiet
      BY <2>3, Zenon DEF Quiet
    <3>2. QED
      BY <1>3, <2>1, <2>5, <3>1
  <2>6. CASE /\ spent' = spent + 1 /\ ~x.old
             /\ Becomes(r, [x EXCEPT !.pc = "commit", !.sum = 0, !.row = "saved"])
    <3>1. y = [x EXCEPT !.pc = "commit", !.sum = 0, !.row = "saved"]
      BY <2>6, BecomesFields
    <3>2. y.pc = "commit" /\ y.row = "saved" /\ y.old = x.old
      BY <1>1, <3>1 DEF RequestStates
    <3>3. ~Passed(s, y)
      BY <3>2 DEF Passed, Looking, Asking
    <3>4. Unaccrued(y)
      BY <2>6, <3>2 DEF Unaccrued
    <3>5. QED
      BY <1>5, <2>1, <2>3, <2>6, <3>3, <3>4
  <2>7. QED
    BY <2>4, <2>5, <2>6
<1>18. CASE Commit(r)
  <2>1. counter' = counter /\ stale' = stale /\ x.pc = "commit"
    BY <1>18 DEF Commit, redis, At
  <2>2. x.served
    BY <1>1, <2>1, SoundSays
  <2>3. \/ /\ spent' = Saved(r) /\ leaked' = leaked
           /\ Becomes(r, AskTrust(r, [x EXCEPT !.row = "none", !.old = FALSE]))
        \/ /\ Becomes(r, Idle) /\ spent' = spent
           /\ leaked' = (IF x.row = "saved" /\ ~x.old
                         THEN [t \in Subjects |-> leaked[t] + 1] ELSE leaked)
    BY <1>18 DEF Commit
  <2>4. CASE /\ spent' = Saved(r) /\ leaked' = leaked
             /\ Becomes(r, AskTrust(r, [x EXCEPT !.row = "none", !.old = FALSE]))
    <3> DEFINE z == [x EXCEPT !.row = "none", !.old = FALSE]
    <3>1. z \in RequestStates /\ z.served
      BY <1>1, <2>2 DEF RequestStates
    <3>2. y = AskTrust(r, z)
      BY <2>4, BecomesFields
    <3>3. y.served /\ y.pc \in {"trust", "accrue"}
      <4> HIDE DEF z, y
      <4>1. QED
        BY <3>1, <3>2, AskTrustFields
    <3>4. ~Passed(s, y)
      BY <3>3 DEF Passed, Looking, Asking, Recording, Metering
    <3>5. Unaccrued(y)
      BY <3>3 DEF Unaccrued, Looking
    <3>6. CASE x.row = "flushed" /\ ~x.old
      <4>1. spent' = spent + 1
        BY <2>4, <3>6 DEF Saved
      <4>2. Passed(s, x)
        BY <1>8, <2>1, <3>6 DEF Recording
      <4>3. QED
        BY <1>5, <2>1, <2>4, <3>4, <3>5, <4>1, <4>2
    <3>7. CASE ~(x.row = "flushed" /\ ~x.old)
      <4>1. spent' = spent
        BY <2>4, <3>7 DEF Saved
      <4>2. Quiet
        BY <1>6, <3>4, <3>5
      <4>3. QED
        BY <1>3, <2>1, <2>4, <4>1, <4>2
    <3>8. QED
      BY <3>6, <3>7
  <2>5. CASE /\ Becomes(r, Idle) /\ spent' = spent
             /\ leaked' = (IF x.row = "saved" /\ ~x.old
                           THEN [t \in Subjects |-> leaked[t] + 1] ELSE leaked)
    <3>1. CASE x.row = "saved" /\ ~x.old
      <4>1. leaked'[s] = leaked[s] + 1
        BY <1>2, <2>5, <3>1
      <4>2. QED
        BY <1>4, <2>1, <2>5, <4>1
    <3>2. CASE ~(x.row = "saved" /\ ~x.old)
      <4>1. leaked'[s] = leaked[s]
        BY <2>5, <3>2
      <4>2. ~Unaccrued(x)
        BY <2>1, <3>2 DEF Unaccrued, Looking
      <4>3. y.pc = "idle"
        BY <2>5, BecomesFields, IdleFields
      <4>4. Quiet
        BY <1>6, <1>7, <4>2, <4>3
      <4>5. QED
        BY <1>3, <2>1, <2>5, <4>1, <4>4
    <3>3. QED
      BY <3>1, <3>2
  <2>6. QED
    BY <2>3, <2>4, <2>5
<1>19. CASE Accrue(r)
  <2>1. spent' = spent /\ stale' = stale /\ Becomes(r, Idle)
    BY <1>19 DEF Accrue, books
  <2>2. y.pc = "idle"
    BY <2>1, BecomesFields, IdleFields
  <2>3. PICK added \in SUBSET Subjects :
          /\ added \subseteq {t \in Subjects : t = "key" \/ r \notin Embeddings}
          /\ counter' = [t \in Subjects |->
                           IF t \in added THEN Incremented(counter[t]) ELSE counter[t]]
          /\ leaked' = [t \in Subjects |->
                          IF t \in added \cup (Subjects \ lane) THEN leaked[t]
                          ELSE leaked[t] + 1]
    <3>1. PICK applied \in SUBSET (lane \cap Subjects) :
            LET added == {t \in applied : t = "key" \/ r \notin Embeddings} IN
            /\ counter' = [t \in Subjects |->
                             IF t \in added THEN Incremented(counter[t]) ELSE counter[t]]
            /\ leaked' = [t \in Subjects |->
                            IF t \in added \cup (Subjects \ lane) THEN leaked[t]
                            ELSE leaked[t] + 1]
      BY <1>19 DEF Accrue
    <3> DEFINE S == {t \in applied : t = "key" \/ r \notin Embeddings}
    <3>2. /\ S \in SUBSET Subjects
          /\ S \subseteq {t \in Subjects : t = "key" \/ r \notin Embeddings}
      OBVIOUS
    <3>3. /\ counter' = [t \in Subjects |->
                           IF t \in S THEN Incremented(counter[t]) ELSE counter[t]]
          /\ leaked' = [t \in Subjects |->
                          IF t \in S \cup (Subjects \ lane) THEN leaked[t] ELSE leaked[t] + 1]
      BY <3>1
    <3> HIDE DEF S
    <3>4. QED
      BY <3>2, <3>3
  <2>4. CASE s \in added
    <3>1. r \in Checked(s)
      BY <2>3, <2>4 DEF Checked
    <3>2. counter'[s] = Incremented(counter[s]) /\ leaked'[s] = leaked[s]
      BY <1>2, <2>3, <2>4
    <3>3. ~Passed(s, y)
      BY <1>7, <2>2
    <3>4. QED
      BY <1>0, <1>1, <1>2, <2>1, <3>1, <3>2, <3>3, AddStep
  <2>5. CASE s \notin added
    <3>1. counter'[s] = counter[s] /\ leaked'[s] = leaked[s] + 1
      BY <1>2, <2>3, <2>5
    <3>2. QED
      BY <1>4, <2>1, <3>1
  <2>6. QED
    BY <2>4, <2>5
<1>20. QED
  BY <1>9, <1>10, <1>11, <1>12, <1>13, <1>14, <1>15, <1>16, <1>17, <1>18, <1>19 DEF Proceed

\* What the rest of the world does keeps the bounds: a counter that is lost bounds
\* nothing, and when the windows end at most the requests under way are ahead.
LEMMA BudgetWorld ==
    ASSUME TypeOK, SoundInv, BudgetInv, World
    PROVE  BudgetInv'
<1>1. lane' = lane /\ (paid => paid')
  <2>1. lane' = lane
    BY DEF World, Slide, Evict, EvictTokens, Roll, Pay, DropTrust, ExpireTrust
  <2>2. paid' = paid \/ Pay
    BY DEF World, Slide, Evict, EvictTokens, Roll, DropTrust, ExpireTrust, books
  <2>3. Pay => paid'
    BY DEF Pay
  <2>4. QED
    BY <2>1, <2>2, <2>3
<1> SUFFICES ASSUME NEW s \in Subjects \cap lane, s = "account" => ~paid'
             PROVE  Bounded(s)'
  BY <1>1 DEF BudgetInv
<1>2. Bounded(s) /\ s \in Subjects
  BY <1>1 DEF BudgetInv
<1>3. ASSUME req' = req, spent' = spent, stale' = stale, leaked' = leaked,
             counter'[s] = counter[s] \/ counter'[s] = Absent
      PROVE  Bounded(s)'
  BY <1>2, <1>3 DEF Bounded, Slack, Room, Ahead, Behind, Beside, Checked, Passed, Unaccrued
<1>4. CASE (\E w \in Windows : Slide(w)) \/ EvictTokens \/ Pay \/ DropTrust \/ ExpireTrust
  BY <1>3, <1>4 DEF Slide, EvictTokens, Pay, DropTrust, ExpireTrust, redis, books, past
<1>5. ASSUME NEW t \in Subjects, Evict(t) PROVE Bounded(s)'
  <2>1. counter'[s] = counter[s] \/ counter'[s] = Absent
    BY <1>2, <1>5 DEF Evict, TypeOK
  <2>2. QED
    BY <1>3, <1>5, <2>1 DEF Evict, books, past
<1>6. CASE Roll
  <2>1. counter'[s] = Absent /\ spent' = 0 /\ stale'[s] = 0 /\ leaked'[s] = 0
    BY <1>2, <1>6 DEF Roll
  <2> DEFINE a == Cardinality(Ahead(s))
             d == Cardinality(Beside(s))
             c == Cardinality(Checked(s))
             R == Room(s)
             K == Slack(s)
  <2>2. a' \in Nat /\ a' <= c /\ d' \in Nat /\ c \in Nat
    <3>1. Ahead(s)' \subseteq Checked(s) /\ Beside(s)' \in SUBSET Requests
      BY DEF Ahead, Beside, Checked
    <3>2. IsFiniteSet(Checked(s)) /\ c \in Nat
      BY <1>2, RoomTyped, Counts
    <3>3. a' <= c /\ a' \in Nat
      BY <3>1, <3>2, FS_Subset, FS_CardinalityType
    <3>4. d' \in Nat
      BY <3>1, Counts
    <3>5. QED
      BY <3>2, <3>3, <3>4
  <2>3. R \in Nat /\ R >= c /\ R' = R
    BY <1>2, RoomTyped DEF Room, Checked
  <2>4. K' = 0
    <3>1. K' = R * 0 + 0
      BY <2>1, <2>3 DEF Slack
    <3> HIDE DEF K, R
    <3>2. QED
      BY <2>3, <3>1
  <2> HIDE DEF a, d, c, R, K
  <2>5. 0 + a' <= R + 0 + d'
    <3>1. \A i, j, m, n \in Nat : i <= j /\ m >= j => 0 + i <= m + 0 + n
      OBVIOUS
    <3>2. QED
      BY <2>2, <2>3, <3>1, Zenon
  <2>6. QED
    BY <2>1, <2>3, <2>4, <2>5 DEF Bounded, a, d, R, K
<1>7. QED
  BY <1>4, <1>5, <1>6 DEF World

\* At the start nothing is spent.
LEMMA BudgetInit ==
    ASSUME Init
    PROVE  BudgetInv
<1> SUFFICES ASSUME NEW s \in Subjects \cap lane PROVE Bounded(s)
  BY DEF BudgetInv
<1>1. spent = 0 /\ counter[s] = Absent /\ stale[s] = 0 /\ leaked[s] = 0
  BY DEF Init
<1>2. Ahead(s) = {} /\ Beside(s) = {}
  <2>1. \A r \in Requests : req[r] = Idle
    BY DEF Init
  <2>2. Idle.pc = "idle" /\ Idle.row = "none"
    BY DEF Idle
  <2>3. \A x : x.pc = "idle" /\ x.row = "none" => ~Passed(s, x) /\ ~Unaccrued(x)
    BY DEF Passed, Unaccrued, Looking, Asking, Recording, Metering
  <2>4. \A r \in Requests : ~Passed(s, req[r]) /\ ~Unaccrued(req[r])
    BY <2>1, <2>2, <2>3, Zenon
  <2>5. QED
    BY <2>4 DEF Ahead, Beside, Checked
<1>3. Cardinality(Ahead(s)) = 0 /\ Cardinality(Beside(s)) = 0
  BY <1>2, FS_EmptySet
<1>4. Room(s) \in Nat
  <2>1. Cardinality(Checked(s)) \in Nat /\ Limit[s] \in Nat /\ Limit[s] >= 1
    BY Counts, LimitsPositive DEF Checked
  <2>2. QED
    BY <2>1 DEF Room
<1>5. Slack(s) = 0
  <2> DEFINE R == Room(s)
  <2>1. Slack(s) = R * 0 + 0
    BY <1>1 DEF Slack
  <2> HIDE DEF R
  <2>2. R * 0 + 0 = 0
    BY <1>4 DEF R
  <2>3. QED
    BY <2>1, <2>2
<1>6. spent + Cardinality(Ahead(s)) <= Room(s) + Slack(s) + Cardinality(Beside(s))
  BY <1>1, <1>3, <1>4, <1>5
<1>7. QED
  BY <1>1, <1>6 DEF Bounded

\* The room grows with every counter that was set too low.
LEMMA RoomGrows ==
    ASSUME NEW R \in Nat, NEW d \in Nat, NEW k \in Nat
    PROVE  (R + d) * (1 + k) >= R + R * k + d
<1>1. (R + d) * (1 + k) = R + R * k + d + d * k
  BY Z3
<1>2. R * k \in Nat /\ d * k \in Nat
  BY Z3
<1>3. QED
  BY <1>1, <1>2

\* A budget is overshot by the requests in flight, once more for every counter that
\* was set below the ledger, and by what leaked past it (services/policy.py:17).
THEOREM OvershootKept == Spec => []OvershootBounded
<1> DEFINE I == TypeOK /\ SoundInv /\ BudgetInv
<1>1. Init => BudgetInv
  BY BudgetInit
<1>2. TypeOK /\ SoundInv /\ BudgetInv /\ [Next]_vars => BudgetInv'
  <2> SUFFICES ASSUME TypeOK, SoundInv, BudgetInv, [Next]_vars PROVE BudgetInv'
    OBVIOUS
  <2>1. CASE UNCHANGED vars
    <3>1. /\ lane' = lane /\ paid' = paid /\ req' = req /\ spent' = spent
          /\ counter' = counter /\ stale' = stale /\ leaked' = leaked
      BY <2>1 DEF vars
    <3>2. SUFFICES ASSUME NEW s \in Subjects \cap lane, s = "account" => ~paid
                   PROVE  Bounded(s)'
      BY <3>1 DEF BudgetInv
    <3>3. Bounded(s)
      BY <3>2 DEF BudgetInv
    <3>4. QED
      BY <3>1, <3>3 DEF Bounded, Slack, Room, Ahead, Behind, Beside, Checked, Passed, Unaccrued
  <2>2. QED
    BY <2>1, BudgetStep, BudgetWorld DEF Next
<1>3. TypeOK /\ BudgetInv => OvershootBounded
  <2> SUFFICES ASSUME TypeOK, BudgetInv, NEW s \in Subjects \cap lane, s = "account" => ~paid
               PROVE  spent <= (Limit[s] + Cardinality(Requests) - 1) * (1 + stale[s]) + leaked[s]
    BY DEF OvershootBounded
  <2> DEFINE R == Room(s)
             k == stale[s]
             a == Cardinality(Ahead(s))
             d == Cardinality(Beside(s))
             c == Cardinality(Checked(s))
             e == Cardinality(Requests \ Checked(s))
             N == Cardinality(Requests)
  <2>1. /\ spent \in Nat /\ a \in Nat /\ d \in Nat /\ R \in Nat /\ k \in Nat
        /\ leaked[s] \in Nat /\ R * k \in Nat /\ c \in Nat
    BY RoomTyped, SidesTyped
  <2>2. spent + a <= R + (R * k + leaked[s]) + d
    BY DEF BudgetInv, Bounded, Slack
  <2>3. d <= e /\ e \in Nat
    <3>1. IsFiniteSet(Requests \ Checked(s)) /\ e \in Nat
      BY Counts
    <3>2. Beside(s) \subseteq Requests \ Checked(s)
      BY DEF Beside
    <3>3. QED
      BY <3>1, <3>2, FS_Subset
  <2>4. N = c + e /\ N \in Nat
    <3>1. Checked(s) \cap (Requests \ Checked(s)) = {}
      OBVIOUS
    <3>2. Requests = Checked(s) \cup (Requests \ Checked(s))
      BY DEF Checked
    <3>3. IsFiniteSet(Checked(s)) /\ IsFiniteSet(Requests \ Checked(s))
      BY Counts DEF Checked
    <3>4. Cardinality(Checked(s) \cap (Requests \ Checked(s))) = 0
      BY <3>1, FS_EmptySet
    <3>5. Cardinality(Checked(s) \cup (Requests \ Checked(s)))
            = c + e - Cardinality(Checked(s) \cap (Requests \ Checked(s)))
      BY <3>3, FS_Union
    <3>6. N = c + e - 0
      BY <3>2, <3>4, <3>5, Zenon
    <3>7. QED
      BY <2>1, <2>3, <3>6
  <2>5. Limit[s] + N - 1 = R + e
    BY <2>1, <2>3, <2>4, LimitsPositive DEF Room
  <2> DEFINE M == Limit[s] + N - 1
  <2>6. (R + e) * (1 + k) >= R + R * k + e
    <3> HIDE DEF R, e, k
    <3>1. QED
      BY <2>1, <2>3, RoomGrows
  <2>7. M * (1 + k) >= R + R * k + e
    BY <2>5, <2>6
  <2> DEFINE P == R * k
             Q == M * (1 + k)
  <2>8. M \in Nat /\ Q \in Int
    <3>1. M = R + e
      BY <2>5
    <3>2. R + e \in Nat /\ (R + e) * (1 + k) \in Int
      <4> HIDE DEF R, e, k
      <4>1. QED
        BY <2>1, <2>3
    <3>3. QED
      BY <3>1, <3>2
  <2> HIDE DEF P, Q, R, a, d, e, c
  <2>9. spent + a <= R + (P + leaked[s]) + d /\ Q >= R + P + e /\ P \in Nat
    BY <2>1, <2>2, <2>7 DEF P, Q
  <2>10. spent <= Q + leaked[s]
    BY <2>1, <2>3, <2>8, <2>9
  <2>11. QED
    BY <2>10 DEF Q
<1>4. QED
  BY <1>1, <1>2, <1>3, LimitsTyped, RequestsSound, PTL DEF Spec

-----------------------------------------------------------------------------
(* The circuit breaker.                                                     *)

\* Every action keeps the types; half_open_calls may fall below zero, but an
\* admission never takes it over half_open_max_calls.
THEOREM BreakerTyped == BreakerSpec => []BreakerTypeOK
<1> USE ThresholdsAssumption DEF BreakerTypeOK, States
<1>1. BreakerInit => BreakerTypeOK
  <2> SUFFICES ASSUME BreakerInit PROVE BreakerTypeOK
    OBVIOUS
  <2>1. inFlight \subseteq Calls /\ probes \subseteq Calls
    BY Zenon DEF BreakerInit
  <2>2. QED
    BY <2>1 DEF BreakerInit
<1>2. BreakerTypeOK /\ [BreakerNext]_breakerVars => BreakerTypeOK'
  <2> SUFFICES ASSUME BreakerTypeOK, [BreakerNext]_breakerVars PROVE BreakerTypeOK'
    OBVIOUS
  <2>1. CASE BreakerTick
    BY <2>1 DEF BreakerTick, history
  <2>2. ASSUME NEW c \in Calls, AdmitClosed(c) PROVE BreakerTypeOK'
    BY <2>2 DEF AdmitClosed, breaker
  <2>3. ASSUME NEW c \in Calls, AdmitFirstProbe(c) PROVE BreakerTypeOK'
    BY <2>3 DEF AdmitFirstProbe
  <2>4. ASSUME NEW c \in Calls, AdmitProbe(c) PROVE BreakerTypeOK'
    BY <2>4 DEF AdmitProbe, HalfOpenHasRoom
  <2>5. ASSUME NEW c \in Calls, NEW exit \in Exits, AExit(c, exit)
        PROVE  BreakerTypeOK'
    <3>1. CASE OnSuccess(c)
      BY <2>5, <3>1 DEF AExit, OnSuccess, NoteLate, PlacesAfterExit, UpTo
    <3>2. CASE OnThrottled(c)
      BY <2>5, <3>2 DEF AExit, OnThrottled, breaker
    <3>3. CASE OnFailure(c)
      BY <2>5, <3>3 DEF AExit, OnFailure, NoteLate, PlacesAfterExit, UpTo,
                        TooManyFailures
    <3>4. QED
      BY <2>5, <3>1, <3>2, <3>3 DEF AExit
  <2>6. CASE UNCHANGED breakerVars
    BY <2>6 DEF breakerVars, breaker, history
  <2>7. QED
    BY <2>1, <2>2, <2>3, <2>4, <2>5, <2>6 DEF BreakerNext, BeforeCall
<1>3. QED
  BY <1>1, <1>2, PTL DEF BreakerSpec

\* A closed breaker always has failures to spare (_on_failure opens it at the
\* threshold, and every way back to CLOSED clears the count).
THEOREM ClosedHasFailuresToSpare == BreakerSpec => []ClosedBelowThreshold
<1> USE ThresholdsAssumption DEF BreakerTypeOK, States, ClosedBelowThreshold
<1>1. BreakerInit => ClosedBelowThreshold
  BY DEF BreakerInit
<1>2. BreakerTypeOK /\ ClosedBelowThreshold /\ [BreakerNext]_breakerVars => ClosedBelowThreshold'
  <2> SUFFICES ASSUME BreakerTypeOK, ClosedBelowThreshold, [BreakerNext]_breakerVars
               PROVE  ClosedBelowThreshold'
    OBVIOUS
  <2>1. CASE BreakerTick
    BY <2>1 DEF BreakerTick
  <2>2. ASSUME NEW c \in Calls, BeforeCall(c) PROVE ClosedBelowThreshold'
    BY <2>2 DEF BeforeCall, AdmitClosed, AdmitFirstProbe, AdmitProbe, breaker
  <2>3. ASSUME NEW c \in Calls, NEW exit \in Exits, AExit(c, exit)
        PROVE  ClosedBelowThreshold'
    BY <2>3 DEF AExit, OnSuccess, OnThrottled, OnFailure, UpTo,
                TooManyFailures, breaker
  <2>4. CASE UNCHANGED breakerVars
    BY <2>4 DEF breakerVars, breaker
  <2>5. QED
    BY <2>1, <2>2, <2>3, <2>4 DEF BreakerNext
<1>3. QED
  BY <1>1, <1>2, BreakerTyped, PTL DEF BreakerSpec

-----------------------------------------------------------------------------
(* The accounting of half-open places.  By itself ProbeAccounting is not    *)
(* inductive: a completion takes a probe out of the set it counts only if   *)
(* the probes are among the calls in flight, which is what AccountInv adds. *)

AccountInv ==
    /\ BreakerTypeOK
    /\ probes \subseteq inFlight
    /\ ProbeAccounting

\* A set of probes, being a set of calls, is finite, and adding or removing
\* one call changes its size as one expects.
LEMMA ProbeSetSize ==
    ASSUME NEW P \in SUBSET Calls, NEW c \in Calls
    PROVE  /\ IsFiniteSet(P)
           /\ Cardinality(P) \in Nat
           /\ Cardinality({c}) = 1
           /\ c \notin P => Cardinality(P \union {c}) = Cardinality(P) + 1
           /\ c \in P => Cardinality(P \ {c}) = Cardinality(P) - 1
           /\ c \notin P => P \ {c} = P
<1>1. IsFiniteSet(P)
  BY CallsAssumption, FS_Subset
<1>2. Cardinality(P) \in Nat
  BY <1>1, FS_CardinalityType
<1>3. Cardinality({c}) = 1
  BY FS_Singleton
<1>4. c \notin P => Cardinality(P \union {c}) = Cardinality(P) + 1
  BY <1>1, FS_AddElement
<1>5. c \in P => Cardinality(P \ {c}) = Cardinality(P) - 1
  BY <1>1, FS_RemoveElement
<1>6. QED
  BY <1>1, <1>2, <1>3, <1>4, <1>5

\* The accounting holds at the start.
LEMMA AccountInvInit == BreakerInit /\ BreakerTypeOK => AccountInv
BY DEF BreakerInit, AccountInv, ProbeAccounting

\* Every admission, completion and tick keeps it.
LEMMA AccountInvStep == AccountInv /\ BreakerTypeOK' /\ [BreakerNext]_breakerVars => AccountInv'
<1> SUFFICES ASSUME AccountInv, BreakerTypeOK', [BreakerNext]_breakerVars PROVE AccountInv'
  OBVIOUS
<1> USE DEF AccountInv, ProbeAccounting
<1>1. CASE BreakerTick
  BY <1>1 DEF BreakerTick, history
<1>2. ASSUME NEW c \in Calls, AdmitClosed(c) PROVE AccountInv'
  BY <1>2 DEF AdmitClosed, breaker, BreakerTypeOK
<1>3. ASSUME NEW c \in Calls, AdmitFirstProbe(c) PROVE AccountInv'
  <2>1. Cardinality(probes') = 1
    BY <1>3, FS_Singleton DEF AdmitFirstProbe
  <2>2. QED
    BY <1>3, <2>1 DEF AdmitFirstProbe
<1>4. ASSUME NEW c \in Calls, AdmitProbe(c) PROVE AccountInv'
  <2>1. c \notin probes
    BY <1>4 DEF AdmitProbe
  <2>2. Cardinality(probes') = Cardinality(probes) + 1
    BY <1>4, <2>1, ProbeSetSize DEF AdmitProbe, BreakerTypeOK
  <2>3. Cardinality(probes) \in Nat
    BY ProbeSetSize, <1>4 DEF BreakerTypeOK
  <2>4. QED
    BY <1>4, <2>2, <2>3 DEF AdmitProbe, BreakerTypeOK
<1>5. ASSUME NEW c \in Calls, NEW exit \in Exits, AExit(c, exit)
      PROVE  AccountInv'
  <2>1. (probes \subseteq inFlight)'
    BY <1>5 DEF AExit
  <2>2. /\ Cardinality(probes) \in Nat
        /\ c \in probes => Cardinality(probes') = Cardinality(probes) - 1
        /\ c \notin probes => Cardinality(probes') = Cardinality(probes)
    BY <1>5, ProbeSetSize DEF AExit, BreakerTypeOK
  <2>3. CASE OnSuccess(c)
    BY <2>1, <2>2, <2>3 DEF OnSuccess, NoteLate, PlacesAfterExit, BreakerTypeOK
  <2>4. CASE OnThrottled(c)
    BY <2>1, <2>2, <2>4 DEF OnThrottled, breaker, BreakerTypeOK
  <2>5. CASE OnFailure(c)
    BY <2>1, <2>5 DEF OnFailure, TooManyFailures, BreakerTypeOK
  <2>6. QED
    BY <1>5, <2>3, <2>4, <2>5 DEF AExit
<1>6. CASE UNCHANGED breakerVars
  BY <1>6 DEF breakerVars, breaker, history
<1>7. QED
  BY <1>1, <1>2, <1>3, <1>4, <1>5, <1>6 DEF BreakerNext, BeforeCall

\* _half_open_calls is exactly the probes in flight, plus those that left by
\* throttling, minus the late completions taken for probes.
THEOREM HalfOpenPlacesAccounted == BreakerSpec => []ProbeAccounting
<1>1. AccountInv => ProbeAccounting
  BY DEF AccountInv
<1>2. QED
  BY <1>1, AccountInvInit, AccountInvStep, BreakerTyped, PTL DEF BreakerSpec

\* The half-open limit is exceeded by at most the number of late completions.
THEOREM HalfOpenOverrunBounded == BreakerSpec => []ProbesBounded
<1>1. AccountInv => ProbesBounded
  <2> SUFFICES ASSUME AccountInv, state = "HALF_OPEN"
               PROVE  Cardinality(probes) <= HalfOpenMaxCalls + lateExits
    BY DEF ProbesBounded
  <2>1. IsFiniteSet(probes)
    BY CallsAssumption, FS_Subset DEF AccountInv, BreakerTypeOK
  <2>2. Cardinality(probes) \in Nat
    BY <2>1, FS_CardinalityType
  <2>3. QED
    BY <2>2, ThresholdsAssumption DEF AccountInv, BreakerTypeOK, ProbeAccounting
<1>2. QED
  BY <1>1, AccountInvInit, AccountInvStep, BreakerTyped, PTL DEF BreakerSpec
=============================================================================
