------------------------- MODULE ConversationProofs -------------------------
(***************************************************************************)
(* What a provider is shown of a conversation, for any number of turns,    *)
(* tools, calls and files, on every wire and either surface.               *)
(*                                                                         *)
(* The argument: (1) Each, by which the model says what becomes of turns,  *)
(* messages and parts, goes through concatenation, which takes induction   *)
(* on the length of a sequence; here it is done by the least               *)
(* counterexample, over sets in the place of predicates.  (2) So on every  *)
(* wire the parts of a request are the parts of its turns, one after the   *)
(* other.  (3) The turns of a conversation are of two shapes and take      *)
(* turns, which every step keeps.  (4) So every part has its place.        *)
(***************************************************************************)
EXTENDS Adapters, WellFoundedInduction, SequenceTheorems, FiniteSetTheorems, TLAPS
-----------------------------------------------------------------------------
(* Induction, and sequences laid end to end.                               *)

\* Every set of naturals that is not empty has a least member.
LEMMA LeastOf ==
    ASSUME NEW T, T \subseteq Nat, T # {}
    PROVE  \E n \in T : \A m \in T : n <= m
<1> DEFINE R == OpToRel(<, Nat)
<1>1. IsWellFoundedOn(R, Nat)
  BY NatLessThanWellFounded
<1>2. \A x, y \in Nat : y < x => <<y, x>> \in R
  BY DEF OpToRel
<1> HIDE DEF R
<1>3. PICK n \in T : \A m \in T : <<m, n>> \notin R
  BY <1>1, WFMin
<1>4. \A m \in T : ~(m < n)
  BY <1>2, <1>3
<1>5. QED
  BY <1>4

\* Induction on a natural, with a set in the place of a predicate.
LEMMA Counted ==
    ASSUME NEW S, 0 \in S, \A n \in Nat : n \in S => n + 1 \in S
    PROVE  Nat \subseteq S
<1> DEFINE T == Nat \ S
<1> SUFFICES ASSUME T # {} PROVE FALSE
  OBVIOUS
<1>1. PICK n \in T : \A m \in T : n <= m
  <2>1. T \subseteq Nat
    OBVIOUS
  <2> HIDE DEF T
  <2>2. QED
    BY <2>1, LeastOf
<1>2. n # 0 /\ n - 1 \in Nat
  BY <1>1
<1>3. n - 1 \in S
  BY <1>1, <1>2
<1>4. QED
  BY <1>1, <1>2, <1>3

\* Induction on a sequence, at its end.
LEMMA Appended ==
    ASSUME NEW X, NEW S, <<>> \in S,
           \A s \in Seq(X) : s \in S => \A x \in X : Append(s, x) \in S
    PROVE  Seq(X) \subseteq S
<1> DEFINE N == {n \in Nat : \A s \in Seq(X) : Len(s) = n => s \in S}
<1>1. 0 \in N
  <2>1. \A s \in Seq(X) : Len(s) = 0 => s = <<>>
    OBVIOUS
  <2>2. QED
    BY <2>1
<1>2. ASSUME NEW n \in Nat, n \in N PROVE n + 1 \in N
  <2> SUFFICES ASSUME NEW s \in Seq(X), Len(s) = n + 1 PROVE s \in S
    OBVIOUS
  <2>1. s # <<>>
    OBVIOUS
  <2>2. PICK r \in Seq(X), x \in X : s = Append(r, x)
    BY <2>1, SequenceEmptyOrAppend
  <2>3. Len(r) = n
    BY <2>2
  <2>4. QED
    BY <1>2, <2>2, <2>3
<1> HIDE DEF N
<1>3. Nat \subseteq N
  BY <1>1, <1>2, Counted
<1> USE DEF N
<1>4. QED
  BY <1>3

\* What flattening a sequence computes on the way.
Flattens(f, ss) ==
    f = [i \in 1 .. Len(ss) |-> IF i = 1 THEN ss[i] ELSE f[i - 1] \o ss[i]]

\* What it computes at one place.
LEMMA FlattenAt ==
    ASSUME NEW ss, NEW f, Flattens(f, ss), NEW i \in 1 .. Len(ss)
    PROVE  f[i] = IF i = 1 THEN ss[i] ELSE f[i - 1] \o ss[i]
BY DEF Flattens

\* What is computed for a sequence is computed for one member more.
LEMMA FlattenStep ==
    ASSUME NEW X, NEW ss \in Seq(X), NEW s \in X, ss # <<>>,
           NEW f, Flattens(f, ss)
    PROVE  LET g == [i \in 1 .. Len(ss) + 1 |-> IF i = Len(ss) + 1 THEN f[Len(ss)] \o s ELSE f[i]]
           IN  Flattens(g, Append(ss, s))
<1> DEFINE tt == Append(ss, s)
<1> DEFINE g == [i \in 1 .. Len(ss) + 1 |-> IF i = Len(ss) + 1 THEN f[Len(ss)] \o s ELSE f[i]]
<1>1. Len(tt) = Len(ss) + 1 /\ Len(ss) \in Nat \ {0} /\ tt[Len(ss) + 1] = s
      /\ \A i \in 1 .. Len(ss) : tt[i] = ss[i]
  OBVIOUS
<1>2. \A i \in 1 .. Len(ss) : f[i] = IF i = 1 THEN ss[i] ELSE f[i - 1] \o ss[i]
  BY DEF Flattens
<1> HIDE DEF tt
<1>3. \A i \in 1 .. Len(ss) + 1 : g[i] = IF i = 1 THEN tt[i] ELSE g[i - 1] \o tt[i]
  <2> TAKE i \in 1 .. Len(ss) + 1
  <2>1. CASE i = Len(ss) + 1
    <3>1. g[i] = f[Len(ss)] \o s /\ g[i - 1] = f[Len(ss)] /\ i # 1
      BY <1>1, <2>1
    <3>2. QED
      BY <1>1, <2>1, <3>1
  <2>2. CASE i # Len(ss) + 1
    <3>1. i \in 1 .. Len(ss) /\ g[i] = f[i] /\ (i # 1 => g[i - 1] = f[i - 1])
      BY <1>1, <2>2
    <3>2. QED
      BY <1>1, <1>2, <3>1
  <2>3. QED
    BY <2>1, <2>2
<1>4. g = [i \in 1 .. Len(tt) |-> IF i = 1 THEN tt[i] ELSE g[i - 1] \o tt[i]]
  <2>1. DOMAIN g = 1 .. Len(tt) /\ g = [i \in 1 .. Len(tt) |-> g[i]]
    BY <1>1
  <2> HIDE DEF g
  <2>2. QED
    BY <1>1, <1>3, <2>1
<1>5. QED
  BY <1>4 DEF Flattens, tt

\* So there is such a function for every sequence.
LEMMA FlattenExists ==
    ASSUME NEW X, NEW ss \in Seq(X)
    PROVE  \E f : Flattens(f, ss)
<1> DEFINE S == {r \in Seq(X) : \E f : Flattens(f, r)}
<1>1. <<>> \in S
  <2>1. Flattens([i \in 1 .. 0 |-> {}], <<>>)
    BY DEF Flattens
  <2>2. QED
    BY <2>1
<1>2. ASSUME NEW r \in Seq(X), r \in S, NEW x \in X PROVE Append(r, x) \in S
  <2>1. PICK f : Flattens(f, r)
    BY <1>2
  <2>2. CASE r = <<>>
    <3>1. Flattens([i \in 1 .. 1 |-> x], Append(r, x))
      BY <2>2 DEF Flattens
    <3>2. QED
      BY <3>1
  <2>3. CASE r # <<>>
    <3> DEFINE g == [i \in 1 .. Len(r) + 1 |-> IF i = Len(r) + 1 THEN f[Len(r)] \o x ELSE f[i]]
    <3>1. Flattens(g, Append(r, x))
      BY <2>1, <2>3, FlattenStep
    <3> HIDE DEF g
    <3>2. Append(r, x) \in Seq(X)
      OBVIOUS
    <3>3. QED
      BY <3>1, <3>2
  <2>4. QED
    BY <2>2, <2>3
<1> HIDE DEF S
<1>3. Seq(X) \subseteq S
  BY <1>1, <1>2, Appended
<1> USE DEF S
<1>4. QED
  BY <1>3

\* And only one.
LEMMA FlattenUnique ==
    ASSUME NEW X, NEW ss \in Seq(X), NEW f, NEW g, Flattens(f, ss), Flattens(g, ss)
    PROVE  f = g
<1> DEFINE S == {n \in Nat : \A i \in 1 .. n : i <= Len(ss) => f[i] = g[i]}
<1>1. 0 \in S
  OBVIOUS
<1>2. ASSUME NEW n \in Nat, n \in S PROVE n + 1 \in S
  <2> SUFFICES ASSUME n + 1 <= Len(ss) PROVE f[n + 1] = g[n + 1]
    BY <1>2
  <2>1. n + 1 \in 1 .. Len(ss) /\ (n + 1 # 1 => n \in 1 .. n /\ n <= Len(ss))
    OBVIOUS
  <2>2. n + 1 # 1 => f[n] = g[n]
    BY <1>2, <2>1
  <2>3. /\ f[n + 1] = IF n + 1 = 1 THEN ss[n + 1] ELSE f[n + 1 - 1] \o ss[n + 1]
        /\ g[n + 1] = IF n + 1 = 1 THEN ss[n + 1] ELSE g[n + 1 - 1] \o ss[n + 1]
    <3> HIDE DEF S
    <3>1. QED
      BY <2>1, FlattenAt
  <2>4. n + 1 - 1 = n
    OBVIOUS
  <2>5. QED
    BY <2>2, <2>3, <2>4
<1> HIDE DEF S
<1>3. Nat \subseteq S
  BY <1>1, <1>2, Counted
<1> USE DEF S
<1>4. \A i \in 1 .. Len(ss) : f[i] = g[i]
  BY <1>3
<1>5. DOMAIN f = 1 .. Len(ss) /\ DOMAIN g = 1 .. Len(ss)
      /\ f = [i \in DOMAIN f |-> f[i]] /\ g = [i \in DOMAIN g |-> g[i]]
  BY DEF Flattens
<1>6. QED
  BY <1>4, <1>5

\* FlattenSeq is its last value.
LEMMA FlattenIs ==
    ASSUME NEW X, NEW ss \in Seq(X), ss # <<>>, NEW f, Flattens(f, ss)
    PROVE  FlattenSeq(ss) = f[Len(ss)]
<1> DEFINE h == CHOOSE g : g = [i \in 1 .. Len(ss) |-> IF i = 1 THEN ss[i] ELSE g[i - 1] \o ss[i]]
<1>1. h = [i \in 1 .. Len(ss) |-> IF i = 1 THEN ss[i] ELSE h[i - 1] \o ss[i]]
  BY DEF Flattens
<1>2. FlattenSeq(ss) = h[Len(ss)]
  BY DEF FlattenSeq
<1> HIDE DEF h
<1>3. Flattens(h, ss)
  BY <1>1 DEF Flattens
<1>4. QED
  BY <1>2, <1>3, FlattenUnique

\* Nothing flattens to nothing.
LEMMA FlattenNone == FlattenSeq(<<>>) = <<>>
  BY DEF FlattenSeq

\* One sequence more is laid after the others.
LEMMA FlattenAppend ==
    ASSUME NEW X, NEW ss \in Seq(Seq(X)), NEW s \in Seq(X)
    PROVE  FlattenSeq(Append(ss, s)) = FlattenSeq(ss) \o s
<1> DEFINE tt == Append(ss, s)
<1>1. tt \in Seq(Seq(X)) /\ tt # <<>> /\ Len(tt) = Len(ss) + 1 /\ Len(ss) \in Nat
  BY AppendProperties, LenProperties
<1>2. CASE ss = <<>>
  <2>1. Flattens([i \in 1 .. 1 |-> s], tt)
    BY <1>2 DEF Flattens
  <2>2. Len(tt) = 1
    BY <1>2
  <2> HIDE DEF tt
  <2> DEFINE f == [i \in 1 .. 1 |-> s]
  <2>3. f[1] = s
    OBVIOUS
  <2> HIDE DEF f
  <2>4. FlattenSeq(tt) = f[Len(tt)]
    BY <1>1, <2>1, FlattenIs DEF f
  <2>5. FlattenSeq(tt) = s
    BY <2>2, <2>3, <2>4
  <2>6. <<>> \o s = s
    OBVIOUS
  <2>7. FlattenSeq(ss) \o s = s
    BY <1>2, <2>6, FlattenNone
  <2>8. QED
    BY <2>5, <2>7 DEF tt
<1>3. CASE ss # <<>>
  <2>1. PICK f : Flattens(f, ss)
    BY FlattenExists
  <2> DEFINE g == [i \in 1 .. Len(ss) + 1 |-> IF i = Len(ss) + 1 THEN f[Len(ss)] \o s ELSE f[i]]
  <2>2. Flattens(g, tt)
    BY <1>3, <2>1, FlattenStep
  <2>3. g[Len(tt)] = f[Len(ss)] \o s
    BY <1>1
  <2> HIDE DEF tt, g
  <2>4. FlattenSeq(tt) = g[Len(tt)]
    BY <1>1, <2>2, FlattenIs
  <2>5. FlattenSeq(ss) = f[Len(ss)]
    BY <1>3, <2>1, FlattenIs
  <2>6. QED
    BY <2>3, <2>4, <2>5 DEF tt
<1>4. QED
  BY <1>2, <1>3

\* Flattening sequences over a set gives a sequence over it.
LEMMA FlattenTyped ==
    ASSUME NEW X, NEW ss \in Seq(Seq(X))
    PROVE  FlattenSeq(ss) \in Seq(X)
<1> DEFINE S == {r \in Seq(Seq(X)) : FlattenSeq(r) \in Seq(X)}
<1>1. <<>> \in S
  BY FlattenNone, EmptySeq
<1>2. ASSUME NEW r \in Seq(Seq(X)), r \in S, NEW s \in Seq(X) PROVE Append(r, s) \in S
  <2>1. FlattenSeq(Append(r, s)) = FlattenSeq(r) \o s
    BY FlattenAppend
  <2>2. FlattenSeq(r) \o s \in Seq(X)
    BY <1>2, ConcatProperties
  <2>3. QED
    BY <2>1, <2>2, AppendProperties
<1> HIDE DEF S
<1>3. Seq(Seq(X)) \subseteq S
  BY <1>1, <1>2, Appended
<1> USE DEF S
<1>4. QED
  BY <1>3

\* Concatenation, by name.
Cat(s, t) == s \o t

\* Of three sequences it does not matter which two are joined first.
LEMMA CatAssociative ==
    ASSUME NEW X, NEW s \in Seq(X), NEW t \in Seq(X), NEW u \in Seq(X)
    PROVE  Cat(Cat(s, t), u) = Cat(s, Cat(t, u))
BY ConcatAssociative DEF Cat

\* Two sequences of sequences, one after the other.
LEMMA FlattenConcat ==
    ASSUME NEW X, NEW ss \in Seq(Seq(X)), NEW tt \in Seq(Seq(X))
    PROVE  FlattenSeq(ss \o tt) = FlattenSeq(ss) \o FlattenSeq(tt)
<1> DEFINE S == {r \in Seq(Seq(X)) : FlattenSeq(ss \o r) = FlattenSeq(ss) \o FlattenSeq(r)}
<1>0. FlattenSeq(ss) \in Seq(X)
  BY FlattenTyped
<1>1. <<>> \in S
  <2>1. ss \o <<>> = ss /\ FlattenSeq(ss) \o <<>> = FlattenSeq(ss)
    BY <1>0, ConcatEmptySeq
  <2>2. QED
    BY <2>1, FlattenNone, EmptySeq
<1>2. ASSUME NEW r \in Seq(Seq(X)), r \in S, NEW s \in Seq(X) PROVE Append(r, s) \in S
  <2>1. Append(r, s) \in Seq(Seq(X)) /\ ss \o r \in Seq(Seq(X))
    BY AppendProperties, ConcatProperties
  <2>2. ss \o Append(r, s) = Append(ss \o r, s)
    BY <2>1
  <2>3. FlattenSeq(ss \o Append(r, s)) = FlattenSeq(ss \o r) \o s
    BY <2>1, <2>2, FlattenAppend
  <2>4. FlattenSeq(Append(r, s)) = FlattenSeq(r) \o s /\ FlattenSeq(r) \in Seq(X)
    BY FlattenAppend, FlattenTyped
  <2>5. (FlattenSeq(ss) \o FlattenSeq(r)) \o s = FlattenSeq(ss) \o (FlattenSeq(r) \o s)
    <3> DEFINE a == FlattenSeq(ss)
    <3> DEFINE b == FlattenSeq(r)
    <3>1. a \in Seq(X) /\ b \in Seq(X)
      BY <1>0, <2>4
    <3> HIDE DEF S, a, b
    <3>2. Cat(Cat(a, b), s) = Cat(a, Cat(b, s))
      BY <3>1, CatAssociative
    <3>3. QED
      BY <3>2 DEF Cat, a, b
  <2>6. QED
    BY <1>2, <2>1, <2>3, <2>4, <2>5
<1> HIDE DEF S
<1>3. Seq(Seq(X)) \subseteq S
  BY <1>1, <1>2, Appended
<1> USE DEF S
<1>4. QED
  BY <1>3

\* Where the members of the t-th sequence begin in what all flatten to.
Before(ss, t) == Len(FlattenSeq(SubSeq(ss, 1, t - 1)))

\* Each sequence begins where the one before it ends.
LEMMA BeforeNext ==
    ASSUME NEW X, NEW ss \in Seq(Seq(X)), NEW t \in 1 .. Len(ss)
    PROVE  /\ Before(ss, t) \in Nat
           /\ Before(ss, t + 1) = Before(ss, t) + Len(ss[t])
           /\ FlattenSeq(SubSeq(ss, 1, t)) = FlattenSeq(SubSeq(ss, 1, t - 1)) \o ss[t]
<1> DEFINE r == SubSeq(ss, 1, t - 1)
<1>1. r \in Seq(Seq(X)) /\ ss[t] \in Seq(X) /\ t + 1 - 1 = t
  BY SubSeqProperties, ElementOfSeq
<1>2. SubSeq(ss, 1, t) = Append(r, ss[t])
  <2>1. SubSeq(ss, 1, t) = r \o <<ss[t]>>
    BY SubSeqRecursiveSecond
  <2>2. r \o <<ss[t]>> = Append(r, ss[t])
    BY <1>1, AppendIsConcat
  <2>3. QED
    BY <2>1, <2>2
<1> HIDE DEF r
<1>3. FlattenSeq(Append(r, ss[t])) = FlattenSeq(r) \o ss[t] /\ FlattenSeq(r) \in Seq(X)
  BY <1>1, FlattenAppend, FlattenTyped
<1>4. Len(FlattenSeq(r) \o ss[t]) = Len(FlattenSeq(r)) + Len(ss[t]) /\ Len(FlattenSeq(r)) \in Nat
  BY <1>1, <1>3, ConcatProperties, LenProperties
<1>5. Before(ss, t) = Len(FlattenSeq(r))
  BY DEF Before, r
<1>6. Before(ss, t + 1) = Len(FlattenSeq(SubSeq(ss, 1, t)))
  BY <1>1 DEF Before
<1>7. Before(ss, t + 1) = Len(FlattenSeq(r)) + Len(ss[t])
  BY <1>2, <1>3, <1>4, <1>6
<1>8. FlattenSeq(SubSeq(ss, 1, t)) = FlattenSeq(r) \o ss[t]
  BY <1>2, <1>3
<1>9. QED
  BY <1>4, <1>5, <1>7, <1>8 DEF r

\* The members of each sequence are there, in their order.
LEMMA PlacedAt ==
    ASSUME NEW X, NEW ss \in Seq(Seq(X)), NEW t \in 1 .. Len(ss), NEW l \in 1 .. Len(ss[t])
    PROVE  /\ Before(ss, t) + l \in 1 .. Len(FlattenSeq(ss))
           /\ FlattenSeq(ss)[Before(ss, t) + l] = ss[t][l]
<1> DEFINE q == SubSeq(ss, 1, t - 1)
<1> DEFINE p == SubSeq(ss, 1, t)
<1> DEFINE r == SubSeq(ss, t + 1, Len(ss))
<1>1. q \in Seq(Seq(X)) /\ p \in Seq(Seq(X)) /\ r \in Seq(Seq(X)) /\ ss[t] \in Seq(X)
  BY SubSeqProperties, ElementOfSeq
<1>2. ss = p \o r
  <2>1. p \o r = SubSeq(ss, 1, Len(ss))
    BY ConcatAdjacentSubSeq
  <2>2. QED
    BY <2>1, SubSeqFull
<1>3. FlattenSeq(p) = FlattenSeq(q) \o ss[t] /\ Before(ss, t) = Len(FlattenSeq(q))
  BY BeforeNext DEF Before
<1> HIDE DEF p, q, r
<1>4. FlattenSeq(ss) = FlattenSeq(p) \o FlattenSeq(r)
  BY <1>1, <1>2, FlattenConcat
<1>5. FlattenSeq(q) \in Seq(X) /\ FlattenSeq(r) \in Seq(X)
  BY <1>1, FlattenTyped
<1> DEFINE a == FlattenSeq(q)
<1> DEFINE b == FlattenSeq(r)
<1>6. FlattenSeq(ss) = (a \o ss[t]) \o b /\ Before(ss, t) = Len(a) /\ a \in Seq(X) /\ b \in Seq(X)
  BY <1>3, <1>4, <1>5
<1> HIDE DEF a, b
<1>7. a \o ss[t] \in Seq(X)
      /\ Len(a \o ss[t]) = Len(a) + Len(ss[t]) /\ (a \o ss[t])[Len(a) + l] = ss[t][l]
  <2>1. Len(a) \in Nat /\ Len(ss[t]) \in Nat
    BY <1>1, <1>6, LenProperties
  <2>2. Len(a) + l \in 1 .. Len(a) + Len(ss[t]) /\ ~(Len(a) + l <= Len(a)) /\ Len(a) + l - Len(a) = l
    BY <2>1
  <2>3. QED
    BY <1>1, <1>6, <2>2, ConcatProperties
<1>8. Len(a) + l \in 1 .. Len(a \o ss[t])
  BY <1>1, <1>6, <1>7
<1>9. /\ Len((a \o ss[t]) \o b) = Len(a \o ss[t]) + Len(b) /\ Len(b) \in Nat
      /\ ((a \o ss[t]) \o b)[Len(a) + l] = (a \o ss[t])[Len(a) + l]
  BY <1>6, <1>7, <1>8
<1>10. QED
  BY <1>6, <1>7, <1>8, <1>9

\* And nothing else is.
LEMMA PlaceOf ==
    ASSUME NEW X, NEW ss \in Seq(Seq(X)), NEW i \in 1 .. Len(FlattenSeq(ss))
    PROVE  \E t \in 1 .. Len(ss) : \E l \in 1 .. Len(ss[t]) :
               i = Before(ss, t) + l /\ FlattenSeq(ss)[i] = ss[t][l]
<1> DEFINE S == {r \in Seq(Seq(X)) :
                    \A j \in 1 .. Len(FlattenSeq(r)) :
                        \E t \in 1 .. Len(r) : \E l \in 1 .. Len(r[t]) : j = Before(r, t) + l}
<1>1. <<>> \in S
  BY FlattenNone, EmptySeq
<1>2. ASSUME NEW r \in Seq(Seq(X)), r \in S, NEW s \in Seq(X) PROVE Append(r, s) \in S
  <2> DEFINE q == Append(r, s)
  <2>1. /\ q \in Seq(Seq(X)) /\ Len(q) = Len(r) + 1 /\ Len(r) \in Nat /\ q[Len(r) + 1] = s
        /\ \A t \in 1 .. Len(r) : q[t] = r[t]
    BY AppendProperties, LenProperties
  <2>2. FlattenSeq(q) = FlattenSeq(r) \o s /\ FlattenSeq(r) \in Seq(X)
    BY FlattenAppend, FlattenTyped
  <2>3. ASSUME NEW t \in 1 .. Len(r) + 1 PROVE Before(q, t) = Before(r, t)
    <3>1. SubSeq(q, 1, t - 1) = SubSeq(r, 1, t - 1)
      BY <2>1
    <3>2. QED
      BY <3>1 DEF Before
  <2>4. Before(r, Len(r) + 1) = Len(FlattenSeq(r))
    <3>1. SubSeq(r, 1, Len(r)) = r /\ Len(r) + 1 - 1 = Len(r)
      BY <2>1, SubSeqFull
    <3>2. Before(r, Len(r) + 1) = Len(FlattenSeq(SubSeq(r, 1, Len(r) + 1 - 1)))
      BY DEF Before
    <3>3. QED
      BY <3>1, <3>2
  <2> HIDE DEF q
  <2>5. ASSUME NEW j \in 1 .. Len(FlattenSeq(q))
        PROVE  \E t \in 1 .. Len(q) : \E l \in 1 .. Len(q[t]) : j = Before(q, t) + l
    <3>1. Len(FlattenSeq(q)) = Len(FlattenSeq(r)) + Len(s) /\ Len(FlattenSeq(r)) \in Nat /\ Len(s) \in Nat
      BY <2>2, ConcatProperties, LenProperties
    <3>2. CASE j <= Len(FlattenSeq(r))
      <4>1. PICK t \in 1 .. Len(r) : \E l \in 1 .. Len(r[t]) : j = Before(r, t) + l
        BY <1>2, <3>1, <3>2
      <4>2. t \in 1 .. Len(q) /\ q[t] = r[t] /\ Before(q, t) = Before(r, t)
        BY <2>1, <2>3
      <4>3. QED
        BY <4>1, <4>2
    <3>3. CASE j > Len(FlattenSeq(r))
      <4>1. j - Len(FlattenSeq(r)) \in 1 .. Len(s)
        BY <3>1, <3>3
      <4>2. Before(q, Len(r) + 1) = Len(FlattenSeq(r)) /\ Len(r) + 1 \in 1 .. Len(q)
            /\ q[Len(r) + 1] = s
        <5>1. Len(r) + 1 \in 1 .. Len(r) + 1
          BY <2>1
        <5>2. QED
          BY <2>1, <2>3, <2>4, <5>1
      <4>3. j = Before(q, Len(r) + 1) + (j - Len(FlattenSeq(r)))
        <5>1. j \in Int /\ Len(FlattenSeq(r)) \in Int
          BY <3>1
        <5>2. j = Len(FlattenSeq(r)) + (j - Len(FlattenSeq(r)))
          BY <5>1
        <5>3. QED
          BY <4>2, <5>2
      <4>4. QED
        BY <4>1, <4>2, <4>3
    <3>4. QED
      BY <3>1, <3>2, <3>3
  <2>6. QED
    BY <2>1, <2>5 DEF q
<1> HIDE DEF S
<1>3. Seq(Seq(X)) \subseteq S
  BY <1>1, <1>2, Appended
<1> USE DEF S
<1>4. PICK t \in 1 .. Len(ss) : \E l \in 1 .. Len(ss[t]) : i = Before(ss, t) + l
  BY <1>3
<1> HIDE DEF S
<1>5. QED
  BY <1>4, PlacedAt

-----------------------------------------------------------------------------
(* Gathering: what each member of a sequence gives, one after the other.   *)

\* Two sequences over a set, one after the other, are a sequence over it.
LEMMA CatTyped ==
    ASSUME NEW X, NEW s \in Seq(X), NEW t \in Seq(X)
    PROVE  Cat(s, t) \in Seq(X)
BY ConcatProperties DEF Cat

\* Nothing in front of a sequence or after it changes nothing.
LEMMA CatNone ==
    ASSUME NEW X, NEW s \in Seq(X)
    PROVE  Cat(s, <<>>) = s /\ Cat(<<>>, s) = s
BY ConcatEmptySeq DEF Cat

\* A member appended to the second of two is appended to both.
LEMMA CatAppend ==
    ASSUME NEW X, NEW s \in Seq(X), NEW t \in Seq(X), NEW x \in X
    PROVE  Cat(s, Append(t, x)) = Append(Cat(s, t), x)
BY DEF Cat

\* To append one is to lay it after the others.
LEMMA AppendCat ==
    ASSUME NEW X, NEW s \in Seq(X), NEW x \in X
    PROVE  Append(s, x) = Cat(s, <<x>>)
BY AppendIsConcat DEF Cat

\* Each, with a function in the place of its operator.
Gather(f, s) == FlattenSeq([i \in DOMAIN s |-> f[s[i]]])

\* A function over the members of a sequence gives a sequence as long.
LEMMA Mapped ==
    ASSUME NEW X, NEW Y, NEW f \in [X -> Y], NEW s \in Seq(X)
    PROVE  /\ [i \in DOMAIN s |-> f[s[i]]] \in Seq(Y)
           /\ Len([i \in DOMAIN s |-> f[s[i]]]) = Len(s)
<1>1. DOMAIN s = 1 .. Len(s) /\ Len(s) \in Nat /\ \A i \in 1 .. Len(s) : f[s[i]] \in Y
  BY LenProperties, ElementOfSeq
<1>2. [i \in 1 .. Len(s) |-> f[s[i]]] \in [1 .. Len(s) -> Y]
  BY <1>1
<1>3. [i \in 1 .. Len(s) |-> f[s[i]]] \in Seq(Y)
  BY <1>1, <1>2, SeqDef
<1>4. Len([i \in 1 .. Len(s) |-> f[s[i]]]) = Len(s)
  BY <1>1
<1>5. QED
  BY <1>1, <1>3, <1>4

\* f gives of every member of X a sequence over Y.
GivesSeqs(f, X, Y) == f \in [X -> Seq(Y)]

\* What f gives of each member of s, in its place.
Row(f, s) == [i \in DOMAIN s |-> f[s[i]]]

\* The row of what f gives of a sequence is as long as the sequence.
LEMMA RowTyped ==
    ASSUME NEW X, NEW Y, NEW f, GivesSeqs(f, X, Y), NEW s \in Seq(X)
    PROVE  Row(f, s) \in Seq(Seq(Y)) /\ Len(Row(f, s)) = Len(s)
BY Mapped DEF Row, GivesSeqs

\* What is gathered is a sequence over what f gives sequences of.
LEMMA GatherTyped ==
    ASSUME NEW X, NEW Y, NEW f, GivesSeqs(f, X, Y), NEW s \in Seq(X)
    PROVE  Gather(f, s) \in Seq(Y)
<1> DEFINE m == [i \in DOMAIN s |-> f[s[i]]]
<1>1. m \in Seq(Seq(Y))
  BY Mapped DEF GivesSeqs
<1> HIDE DEF m
<1>2. FlattenSeq(m) \in Seq(Y)
  BY <1>1, FlattenTyped
<1>3. QED
  BY <1>2 DEF Gather, m

\* Of nothing, nothing is gathered.
LEMMA GatherNone ==
    ASSUME NEW f
    PROVE  Gather(f, <<>>) = <<>>
<1>1. [i \in DOMAIN <<>> |-> f[<<>>[i]]] = <<>>
  OBVIOUS
<1>2. QED
  BY <1>1, FlattenNone DEF Gather

\* Of one member more, what it gives is gathered last.
LEMMA GatherAppend ==
    ASSUME NEW X, NEW Y, NEW f, GivesSeqs(f, X, Y), NEW s \in Seq(X), NEW x \in X
    PROVE  Gather(f, Append(s, x)) = Cat(Gather(f, s), f[x])
<1> DEFINE m == [i \in DOMAIN s |-> f[s[i]]]
<1> DEFINE n == [i \in DOMAIN Append(s, x) |-> f[Append(s, x)[i]]]
<1>1. m \in Seq(Seq(Y)) /\ Len(m) = Len(s) /\ f[x] \in Seq(Y)
  <2>1. m = Row(f, s) /\ f[x] \in Seq(Y)
    BY DEF Row, GivesSeqs
  <2> HIDE DEF m
  <2>2. Row(f, s) \in Seq(Seq(Y)) /\ Len(Row(f, s)) = Len(s)
    BY RowTyped
  <2>3. QED
    BY <2>1, <2>2
<1>2. n \in Seq(Seq(Y)) /\ Len(n) = Len(s) + 1 /\ Len(s) \in Nat
  BY Mapped, AppendProperties, LenProperties DEF GivesSeqs
<1>3. Append(m, f[x]) \in Seq(Seq(Y)) /\ Len(Append(m, f[x])) = Len(s) + 1
  BY <1>1, AppendProperties
<1>4. ASSUME NEW i \in 1 .. Len(s) + 1 PROVE n[i] = Append(m, f[x])[i]
  <2>1. DOMAIN Append(s, x) = 1 .. Len(s) + 1 /\ DOMAIN s = 1 .. Len(s)
    BY LenProperties, AppendProperties
  <2>2. n[i] = f[Append(s, x)[i]]
    BY <2>1
  <2>3. CASE i = Len(s) + 1
    BY <1>1, <2>2, <2>3, AppendProperties
  <2>4. CASE i # Len(s) + 1
    <3>1. i \in 1 .. Len(s)
      BY <1>2, <2>4
    <3>2. m[i] = f[s[i]] /\ Append(s, x)[i] = s[i]
      BY <2>1, <3>1, AppendProperties
    <3>3. Append(m, f[x])[i] = m[i]
      BY <1>1, <3>1, AppendProperties
    <3>4. QED
      BY <2>2, <3>2, <3>3
  <2>5. QED
    BY <2>3, <2>4
<1> HIDE DEF m, n
<1>5. n = Append(m, f[x])
  BY <1>2, <1>3, <1>4, SeqEqual
<1>6. FlattenSeq(n) = FlattenSeq(m) \o f[x]
  BY <1>1, <1>5, FlattenAppend
<1>7. QED
  BY <1>6 DEF Gather, m, n, Cat

\* Of one member alone, what it gives is gathered.
LEMMA GatherOne ==
    ASSUME NEW X, NEW Y, NEW f, GivesSeqs(f, X, Y), NEW x \in X
    PROVE  Gather(f, <<x>>) = f[x]
<1>1. <<x>> = Append(<<>>, x) /\ <<>> \in Seq(X)
  OBVIOUS
<1>2. f[x] \in Seq(Y)
  BY DEF GivesSeqs
<1>3. Gather(f, Append(<<>>, x)) = Cat(Gather(f, <<>>), f[x])
  BY <1>1, GatherAppend
<1>4. QED
  BY <1>1, <1>2, <1>3, GatherNone, CatNone

\* Gathering goes through concatenation: what makes it possible to reason turn by
\* turn and message by message.
LEMMA GatherConcat ==
    ASSUME NEW X, NEW Y, NEW f, GivesSeqs(f, X, Y), NEW s \in Seq(X), NEW t \in Seq(X)
    PROVE  Gather(f, Cat(s, t)) = Cat(Gather(f, s), Gather(f, t))
<1> DEFINE S == {r \in Seq(X) : Gather(f, Cat(s, r)) = Cat(Gather(f, s), Gather(f, r))}
<1>0. Gather(f, s) \in Seq(Y)
  BY GatherTyped
<1>1. <<>> \in S
  BY <1>0, GatherNone, EmptySeq, CatNone
<1>2. ASSUME NEW r \in Seq(X), r \in S, NEW x \in X PROVE Append(r, x) \in S
  <2>1. Append(r, x) \in Seq(X) /\ Cat(s, r) \in Seq(X) /\ Gather(f, r) \in Seq(Y) /\ f[x] \in Seq(Y)
    BY AppendProperties, CatTyped, GatherTyped DEF GivesSeqs
  <2>2. Cat(s, Append(r, x)) = Append(Cat(s, r), x)
    BY CatAppend
  <2>3. Gather(f, Cat(s, Append(r, x))) = Cat(Gather(f, Cat(s, r)), f[x])
    BY <2>1, <2>2, GatherAppend
  <2>4. Gather(f, Append(r, x)) = Cat(Gather(f, r), f[x])
    BY GatherAppend
  <2>5. Cat(Cat(Gather(f, s), Gather(f, r)), f[x]) = Cat(Gather(f, s), Cat(Gather(f, r), f[x]))
    BY <1>0, <2>1, CatAssociative
  <2>6. QED
    BY <1>2, <2>1, <2>3, <2>4, <2>5
<1> HIDE DEF S
<1>3. Seq(X) \subseteq S
  BY <1>1, <1>2, Appended
<1> USE DEF S
<1>4. QED
  BY <1>3

\* Gathering from what was gathered is gathering once.
Composed(h, g, f, X) == \A x \in X : h[x] = Gather(g, f[x])

\* Gathering from what was gathered is gathering once, with the two steps composed.
LEMMA GatherThrough ==
    ASSUME NEW X, NEW Y, NEW Z, NEW f, GivesSeqs(f, X, Y), NEW g, GivesSeqs(g, Y, Z),
           NEW h, Composed(h, g, f, X), NEW s \in Seq(X)
    PROVE  Gather(g, Gather(f, s)) = Gather(h, s)
<1> DEFINE c == [x \in X |-> Gather(g, f[x])]
<1> DEFINE S == {r \in Seq(X) : Gather(g, Gather(f, r)) = Gather(c, r)}
<1>1. GivesSeqs(c, X, Z) /\ \A x \in X : c[x] = Gather(g, f[x]) /\ f[x] \in Seq(Y)
  <2>1. \A x \in X : f[x] \in Seq(Y)
    BY DEF GivesSeqs
  <2>2. \A x \in X : Gather(g, f[x]) \in Seq(Z)
    BY <2>1, GatherTyped
  <2>3. QED
    BY <2>1, <2>2 DEF GivesSeqs
<1> HIDE DEF c
<1>3. <<>> \in S
  BY GatherNone, EmptySeq
<1>4. ASSUME NEW r \in Seq(X), r \in S, NEW x \in X PROVE Append(r, x) \in S
  <2>1. Gather(f, Append(r, x)) = Cat(Gather(f, r), f[x]) /\ Gather(f, r) \in Seq(Y)
    BY GatherAppend, GatherTyped
  <2>2. Gather(g, Cat(Gather(f, r), f[x])) = Cat(Gather(g, Gather(f, r)), Gather(g, f[x]))
    BY <1>1, <2>1, GatherConcat
  <2>3. Gather(c, Append(r, x)) = Cat(Gather(c, r), c[x])
    BY <1>1, GatherAppend
  <2>4. Append(r, x) \in Seq(X)
    BY AppendProperties
  <2>5. QED
    BY <1>1, <1>4, <2>1, <2>2, <2>3, <2>4
<1> HIDE DEF S
<1>5. Seq(X) \subseteq S
  BY <1>3, <1>4, Appended
<1> USE DEF S
<1>6. Gather(g, Gather(f, s)) = Gather(c, s)
  BY <1>5
<1> HIDE DEF S
<1>7. [i \in DOMAIN s |-> c[s[i]]] = [i \in DOMAIN s |-> h[s[i]]]
  BY <1>1, LenProperties, ElementOfSeq DEF Composed
<1>8. QED
  BY <1>6, <1>7 DEF Gather

\* Where every member gives itself, nothing changes.
LEMMA GatherSelf ==
    ASSUME NEW X, NEW f, NEW s \in Seq(X), \A x \in X : f[x] = <<x>>
    PROVE  Gather(f, s) = s
<1> DEFINE g == [x \in X |-> <<x>>]
<1> DEFINE S == {r \in Seq(X) : Gather(g, r) = r}
<1>1. <<>> \in S
  BY GatherNone, EmptySeq
<1>2. ASSUME NEW r \in Seq(X), r \in S, NEW x \in X PROVE Append(r, x) \in S
  <2>1. GivesSeqs(g, X, X) /\ g[x] = <<x>>
    BY DEF GivesSeqs
  <2> HIDE DEF g
  <2>2. Gather(g, Append(r, x)) = Cat(Gather(g, r), g[x])
    BY <2>1, GatherAppend
  <2>3. Append(r, x) = Cat(r, <<x>>) /\ Append(r, x) \in Seq(X)
    BY AppendCat, AppendProperties
  <2>4. QED
    BY <1>2, <2>1, <2>2, <2>3
<1> HIDE DEF S
<1>3. Seq(X) \subseteq S
  BY <1>1, <1>2, Appended
<1> USE DEF S
<1>4. Gather(g, s) = s
  BY <1>3
<1>5. [i \in DOMAIN s |-> f[s[i]]] = [i \in DOMAIN s |-> g[s[i]]]
  OBVIOUS
<1>6. QED
  BY <1>4, <1>5 DEF Gather

\* Where every member gives nothing, nothing is gathered: for the function that does.
LEMMA GatherEmpty ==
    ASSUME NEW X, NEW s \in Seq(X)
    PROVE  Gather([x \in X |-> <<>>], s) = <<>>
<1> DEFINE g == [x \in X |-> <<>>]
<1> DEFINE S == {r \in Seq(X) : Gather(g, r) = <<>>}
<1>1. <<>> \in S
  BY GatherNone, EmptySeq
<1>2. ASSUME NEW r \in Seq(X), r \in S, NEW x \in X PROVE Append(r, x) \in S
  <2>1. GivesSeqs(g, X, X) /\ g[x] = <<>>
    BY EmptySeq DEF GivesSeqs
  <2> HIDE DEF g
  <2>2. Gather(g, Append(r, x)) = Cat(Gather(g, r), g[x])
    BY <2>1, GatherAppend
  <2>3. Append(r, x) \in Seq(X) /\ Cat(<<>>, <<>>) = <<>>
    BY AppendProperties, CatNone, EmptySeq
  <2>4. QED
    BY <1>2, <2>1, <2>2, <2>3
<1> HIDE DEF S
<1>3. Seq(X) \subseteq S
  BY <1>1, <1>2, Appended
<1> USE DEF S
<1>4. QED
  BY <1>3

\* Where every member gives nothing, nothing is gathered.
LEMMA GatherNothing ==
    ASSUME NEW X, NEW f, NEW s \in Seq(X), \A x \in X : f[x] = <<>>
    PROVE  Gather(f, s) = <<>>
<1> DEFINE g == [x \in X |-> <<>>]
<1>1. Gather(g, s) = <<>>
  BY GatherEmpty
<1>2. [i \in DOMAIN s |-> f[s[i]]] = [i \in DOMAIN s |-> g[s[i]]]
  OBVIOUS
<1>3. QED
  BY <1>1, <1>2 DEF Gather

\* Where every member gives one thing, gathering is a map.
Alone(h, g, X) == \A x \in X : h[x] = <<g[x]>>

\* g maps X into Y.
Into(g, X, Y) == g \in [X -> Y]

\* Where every member gives one thing, gathering is a map.
LEMMA GatherMapped ==
    ASSUME NEW X, NEW Y, NEW g, Into(g, X, Y), NEW h, Alone(h, g, X), NEW s \in Seq(X)
    PROVE  Gather(h, s) = [i \in DOMAIN s |-> g[s[i]]]
<1> DEFINE one == [y \in Y |-> <<y>>]
<1> DEFINE m == [i \in DOMAIN s |-> g[s[i]]]
<1>1. m \in Seq(Y)
  BY Mapped DEF Into
<1>2. DOMAIN m = DOMAIN s /\ \A i \in DOMAIN s : s[i] \in X /\ m[i] = g[s[i]] /\ g[s[i]] \in Y
  BY ElementOfSeq, LenProperties DEF Into
<1>3. \A y \in Y : one[y] = <<y>>
  OBVIOUS
<1> HIDE DEF m, one
<1>4. [i \in DOMAIN s |-> h[s[i]]] = [i \in DOMAIN m |-> one[m[i]]]
  BY <1>2, <1>3 DEF Alone
<1>5. Gather(one, m) = m
  BY <1>1, <1>3, GatherSelf
<1>6. QED
  BY <1>4, <1>5 DEF Gather, m

\* What a sequence has of one kind.
KeepKind(k, P) == [p \in P |-> IF p.kind = k THEN <<p>> ELSE <<>>]

\* KeepKind keeps members of that kind.
LEMMA OnlyTyped ==
    ASSUME NEW P, NEW k
    PROVE  GivesSeqs(KeepKind(k, P), P, {p \in P : p.kind = k})
<1> DEFINE K == {p \in P : p.kind = k}
<1>1. ASSUME NEW p \in P PROVE (IF p.kind = k THEN <<p>> ELSE <<>>) \in Seq(K)
  <2>1. CASE p.kind = k
    <3>1. p \in K
      BY <2>1
    <3> HIDE DEF K
    <3>2. QED
      BY <2>1, <3>1
  <2>2. CASE p.kind # k
    BY <2>2, EmptySeq
  <2>3. QED
    BY <2>1, <2>2
<1> HIDE DEF K
<1>2. QED
  BY <1>1 DEF KeepKind, K, GivesSeqs

\* OfKind is a gathering.
LEMMA OfKindIs ==
    ASSUME NEW P, NEW s \in Seq(P), NEW k
    PROVE  OfKind(s, k) = Gather(KeepKind(k, P), s)
<1>1. \A i \in DOMAIN s : s[i] \in P
  BY ElementOfSeq, LenProperties
<1>2. [i \in DOMAIN s |-> IF s[i].kind = k THEN <<s[i]>> ELSE <<>>]
          = [i \in DOMAIN s |-> KeepKind(k, P)[s[i]]]
  BY <1>1 DEF KeepKind
<1>3. QED
  BY <1>2 DEF OfKind, Each, Gather

\* OfKind keeps members of that kind.
LEMMA OfKindTyped ==
    ASSUME NEW P, NEW s \in Seq(P), NEW k
    PROVE  OfKind(s, k) \in Seq({p \in P : p.kind = k})
<1> DEFINE K == {p \in P : p.kind = k}
<1>1. GivesSeqs(KeepKind(k, P), P, K)
  BY OnlyTyped
<1> HIDE DEF K
<1>2. Gather(KeepKind(k, P), s) \in Seq(K)
  BY <1>1, GatherTyped
<1>3. QED
  BY <1>2, OfKindIs DEF K

\* OfKind goes through concatenation.
LEMMA OfKindConcat ==
    ASSUME NEW P, NEW s \in Seq(P), NEW t \in Seq(P), NEW k
    PROVE  OfKind(Cat(s, t), k) = Cat(OfKind(s, k), OfKind(t, k))
<1> DEFINE K == {p \in P : p.kind = k}
<1>1. GivesSeqs(KeepKind(k, P), P, K) /\ Cat(s, t) \in Seq(P)
  BY OnlyTyped, CatTyped
<1> HIDE DEF K
<1>2. Gather(KeepKind(k, P), Cat(s, t)) = Cat(Gather(KeepKind(k, P), s), Gather(KeepKind(k, P), t))
  BY <1>1, GatherConcat
<1>3. QED
  BY <1>1, <1>2, OfKindIs

\* Nothing has nothing of any kind.
LEMMA OfKindNone ==
    ASSUME NEW k
    PROVE  OfKind(<<>>, k) = <<>>
<1>1. [i \in DOMAIN <<>> |-> IF <<>>[i].kind = k THEN <<<<>>[i]>> ELSE <<>>] = <<>>
  OBVIOUS
<1>2. QED
  BY <1>1, FlattenNone DEF OfKind, Each

\* A sequence of one kind is all of it.
LEMMA OfKindAll ==
    ASSUME NEW P, NEW s \in Seq(P), NEW k, \A p \in P : p.kind = k
    PROVE  OfKind(s, k) = s
<1>1. \A p \in P : KeepKind(k, P)[p] = <<p>>
  BY DEF KeepKind
<1>2. Gather(KeepKind(k, P), s) = s
  BY <1>1, GatherSelf
<1>3. QED
  BY <1>2, OfKindIs

\* A sequence without a kind has nothing of it.
LEMMA OfKindOther ==
    ASSUME NEW P, NEW s \in Seq(P), NEW k, \A p \in P : p.kind # k
    PROVE  OfKind(s, k) = <<>>
<1>1. \A p \in P : KeepKind(k, P)[p] = <<>>
  BY DEF KeepKind
<1>2. Gather(KeepKind(k, P), s) = <<>>
  BY <1>1, GatherNothing
<1>3. QED
  BY <1>2, OfKindIs

\* The tags of what a sequence has of one kind.
Tagged(P, T) == \A p \in P : p.tag \in T
TagOf(k, P) == [p \in P |-> IF p.kind = k THEN <<p.tag>> ELSE <<>>]

\* The tags gathered are tags.
LEMMA TagOfTyped ==
    ASSUME NEW P, NEW T, Tagged(P, T), NEW k
    PROVE  GivesSeqs(TagOf(k, P), P, T)
<1>1. ASSUME NEW p \in P PROVE (IF p.kind = k THEN <<p.tag>> ELSE <<>>) \in Seq(T)
  <2>1. p.tag \in T
    BY DEF Tagged
  <2>2. <<p.tag>> \in Seq(T) /\ <<>> \in Seq(T)
    BY <2>1
  <2>3. QED
    BY <2>2
<1>2. QED
  BY <1>1 DEF TagOf, GivesSeqs

\* Tags is a gathering.
LEMMA TagsAre ==
    ASSUME NEW P, NEW T, Tagged(P, T), NEW s \in Seq(P)
    PROVE  Tags(s) = Gather([p \in P |-> <<p.tag>>], s)
<1> DEFINE g == [p \in P |-> p.tag]
<1>1. Into(g, P, T) /\ \A p \in P : g[p] = p.tag
  BY DEF Tagged, Into
<1>2. \A i \in DOMAIN s : s[i] \in P
  BY ElementOfSeq, LenProperties
<1> DEFINE h == [p \in P |-> <<p.tag>>]
<1>3. Alone(h, g, P)
  BY DEF Alone
<1>4. [i \in DOMAIN s |-> g[s[i]]] = [i \in DOMAIN s |-> s[i].tag]
  BY <1>2
<1> HIDE DEF g, h
<1>5. Gather(h, s) = [i \in DOMAIN s |-> g[s[i]]]
  BY <1>1, <1>3, GatherMapped
<1>6. QED
  BY <1>4, <1>5 DEF Tags, h

\* The tags of one kind are a gathering, too.
LEMMA KindTags ==
    ASSUME NEW P, NEW T, Tagged(P, T), NEW s \in Seq(P), NEW k
    PROVE  /\ Tags(OfKind(s, k)) = Gather(TagOf(k, P), s)
           /\ Tags(OfKind(s, k)) \in Seq(T)
<1> DEFINE g == [p \in P |-> <<p.tag>>]
<1>2. GivesSeqs(KeepKind(k, P), P, P)
  <2>1. \A p \in P : (IF p.kind = k THEN <<p>> ELSE <<>>) \in Seq(P)
    OBVIOUS
  <2>2. QED
    BY <2>1 DEF KeepKind, GivesSeqs
<1>3. GivesSeqs(g, P, T) /\ \A p \in P : g[p] = <<p.tag>>
  BY DEF Tagged, GivesSeqs
<1> HIDE DEF g
<1>4. OfKind(s, k) = Gather(KeepKind(k, P), s) /\ OfKind(s, k) \in Seq(P)
  BY <1>2, OfKindIs, GatherTyped
<1>5. Tags(OfKind(s, k)) = Gather(g, OfKind(s, k))
  BY <1>4, TagsAre DEF g
<1>6. Composed(TagOf(k, P), g, KeepKind(k, P), P)
  <2>1. ASSUME NEW p \in P PROVE TagOf(k, P)[p] = Gather(g, KeepKind(k, P)[p])
    <3>1. KeepKind(k, P)[p] = IF p.kind = k THEN <<p>> ELSE <<>>
      BY DEF KeepKind
    <3>2. Gather(g, <<p>>) = <<p.tag>>
      BY <1>3, GatherOne
    <3>3. Gather(g, <<>>) = <<>>
      BY GatherNone
    <3>4. TagOf(k, P)[p] = IF p.kind = k THEN <<p.tag>> ELSE <<>>
      BY DEF TagOf
    <3>5. QED
      BY <3>1, <3>2, <3>3, <3>4
  <2>2. QED
    BY <2>1 DEF Composed
<1>7. Gather(g, Gather(KeepKind(k, P), s)) = Gather(TagOf(k, P), s)
  BY <1>2, <1>3, <1>6, GatherThrough
<1>8. GivesSeqs(TagOf(k, P), P, T)
  BY TagOfTyped
<1>9. Gather(TagOf(k, P), s) \in Seq(T)
  BY <1>8, GatherTyped
<1>10. QED
  BY <1>4, <1>5, <1>7, <1>9

-----------------------------------------------------------------------------
(* Common messages and the parts they have on each wire.                   *)

\* A sequence over a set is one over any wider set.
LEMMA Wider ==
    ASSUME NEW X, NEW Y, X \subseteq Y, NEW s \in Seq(X)
    PROVE  s \in Seq(Y)
<1>1. DOMAIN s = 1 .. Len(s) /\ Len(s) \in Nat /\ \A i \in 1 .. Len(s) : s[i] \in Y
  BY LenProperties, ElementOfSeq
<1>2. s \in [1 .. Len(s) -> Y]
  BY <1>1
<1>3. QED
  BY <1>1, <1>2, SeqDef

\* What the model's records range over: common messages (translate_in, _convert_messages),
\* then the parts of provider messages.  N stands for the names results may be given.
TagSet  == Seq(Nat)
IdSet   == [turn : Nat, nth : Nat]
FileSet == [kind : {"file"}, tag : TagSet, type : Types, source : {"base64", "url", "file_id"}]
CallSet(N) == [id : IdSet, name : N, sig : TagSet, tag : TagSet]
SpokenSet(N) == [role : {"user", "assistant"}, text : Seq(TagSet), calls : Seq(CallSet(N)),
               files : Seq(FileSet)]
ToolSet(N) == [role : {"tool"}, id : IdSet, name : N, tag : TagSet, of : TagSet]
BodySet(N) == {m \in SpokenSet(N) : m.calls = <<>> \/ m.files = <<>>} \cup ToolSet(N)

TextPartSet == [kind : {"text"}, tag : TagSet]
FilePartSet == [kind : {"file"}, tag : TagSet]
CallPartSet(N) == [kind : {"call"}, tag : TagSet, key : IdSet \cup N, sig : TagSet]
ResultPartSet(N) == [kind : {"result"}, tag : TagSet, of : TagSet, key : IdSet \cup N \cup {"unknown"}]
PartSet(N) == (TextPartSet \cup FilePartSet) \cup (CallPartSet(N) \cup ResultPartSet(N))

\* The parts a common message has on a wire.
CallsSaid(w, cs) == [i \in DOMAIN cs |-> IF w = "gemini" THEN GeminiCall(cs[i]) ELSE IdCall(cs[i])]
ResultSaid(w, m) == IF w = "gemini" THEN GeminiResult(m) ELSE IdResult(m)
SpeechSaid(w, m, fetch) == Cat(Cat(TextParts(m.text), CallsSaid(w, m.calls)), FileParts(w, m.files, fetch))
PartsSaid(w, m, fetch) == IF m.role = "tool" THEN <<ResultSaid(w, m)>> ELSE SpeechSaid(w, m, fetch)

\* A function on the places of a sequence, with its values in a set, is a sequence over it.
LEMMA MapTyped ==
    ASSUME NEW X, NEW Y, NEW s \in Seq(X), NEW t, DOMAIN t = DOMAIN s,
           t = [i \in DOMAIN t |-> t[i]], \A i \in DOMAIN s : t[i] \in Y
    PROVE  t \in Seq(Y) /\ Len(t) = Len(s)
<1>1. DOMAIN s = 1 .. Len(s) /\ Len(s) \in Nat
  BY LenProperties
<1>2. t \in [1 .. Len(s) -> Y]
  BY <1>1
<1>3. QED
  BY <1>1, <1>2, SeqDef

\* There is one part for each text, with its tag (every adapter, TextParts).
LEMMA TextPartsAre ==
    ASSUME NEW text \in Seq(TagSet)
    PROVE  /\ TextParts(text) \in Seq(TextPartSet) /\ Tags(TextParts(text)) = text
           /\ Len(TextParts(text)) = Len(text)
           /\ \A i \in 1 .. Len(text) : TextParts(text)[i] = [kind |-> "text", tag |-> text[i]]
<1> DEFINE t == TextParts(text)
<1>1. DOMAIN t = DOMAIN text /\ t = [i \in DOMAIN t |-> t[i]]
      /\ \A i \in DOMAIN text : t[i] = [kind |-> "text", tag |-> text[i]]
  BY DEF TextParts
<1>2. DOMAIN text = 1 .. Len(text) /\ \A i \in DOMAIN text : text[i] \in TagSet
      /\ text = [j \in DOMAIN text |-> text[j]]
  BY LenProperties, ElementOfSeq
<1> HIDE DEF t
<1>3. \A i \in DOMAIN text : t[i] \in TextPartSet
  BY <1>1, <1>2 DEF TextPartSet
<1>4. t \in Seq(TextPartSet) /\ Len(t) = Len(text)
  BY <1>1, <1>3, MapTyped
<1>5. [i \in DOMAIN t |-> t[i].tag] = [i \in DOMAIN text |-> text[i]]
  BY <1>1
<1>6. Tags(t) = text
  BY <1>2, <1>5 DEF Tags
<1>7. QED
  BY <1>1, <1>2, <1>4, <1>6 DEF t

\* A call becomes a call part with its tag, by name or by id.
LEMMA CallSaidIs ==
    ASSUME NEW N, NEW c \in CallSet(N)
    PROVE  /\ GeminiCall(c) \in CallPartSet(N) /\ IdCall(c) \in CallPartSet(N)
           /\ GeminiCall(c).tag = c.tag /\ IdCall(c).tag = c.tag
<1>1. NotOurs \in TagSet /\ NoSig \in TagSet
  BY DEF NotOurs, NoSig, TagSet
<1>2. c.id \in IdSet /\ c.name \in N /\ c.sig \in TagSet /\ c.tag \in TagSet
  BY DEF CallSet
<1>3. QED
  BY <1>1, <1>2 DEF GeminiCall, IdCall, CallPartSet

\* r has the calls of cs in their order, by name or by id.
CallsShown(w, N, cs, r) ==
    /\ r \in Seq(CallPartSet(N)) /\ Len(r) = Len(cs)
    /\ \A i \in 1 .. Len(cs) : r[i] = IF w = "gemini" THEN GeminiCall(cs[i]) ELSE IdCall(cs[i])

\* The calls of a message become as many call parts, in their order.
LEMMA CallsSaidShown ==
    ASSUME NEW N, NEW w, NEW cs \in Seq(CallSet(N))
    PROVE  CallsShown(w, N, cs, CallsSaid(w, cs)) /\ Tags(CallsSaid(w, cs)) = Tags(cs)
<1> DEFINE t == CallsSaid(w, cs)
<1>1. DOMAIN t = DOMAIN cs /\ t = [i \in DOMAIN t |-> t[i]]
      /\ \A i \in DOMAIN cs : t[i] = IF w = "gemini" THEN GeminiCall(cs[i]) ELSE IdCall(cs[i])
  BY DEF CallsSaid
<1>2. DOMAIN cs = 1 .. Len(cs) /\ \A i \in DOMAIN cs : cs[i] \in CallSet(N)
  BY LenProperties, ElementOfSeq
<1> HIDE DEF t
<1>4. \A i \in DOMAIN cs : t[i] \in CallPartSet(N) /\ t[i].tag = cs[i].tag
  BY <1>1, <1>2, CallSaidIs
<1>5. t \in Seq(CallPartSet(N)) /\ Len(t) = Len(cs)
  BY <1>1, <1>4, MapTyped
<1>6. Tags(t) = Tags(cs)
  BY <1>1, <1>4 DEF Tags
<1>7. CallsShown(w, N, cs, t)
  BY <1>1, <1>2, <1>5 DEF CallsShown
<1>8. QED
  BY <1>6, <1>7 DEF t

\* The same, place by place.
LEMMA CallsSaidAre ==
    ASSUME NEW N, NEW w, NEW cs \in Seq(CallSet(N))
    PROVE  /\ CallsSaid(w, cs) \in Seq(CallPartSet(N)) /\ Tags(CallsSaid(w, cs)) = Tags(cs)
           /\ Len(CallsSaid(w, cs)) = Len(cs)
           /\ \A i \in 1 .. Len(cs) : CallsSaid(w, cs)[i] = IF w = "gemini" THEN GeminiCall(cs[i]) ELSE IdCall(cs[i])
<1> DEFINE r == CallsSaid(w, cs)
<1>1. CallsShown(w, N, cs, r) /\ Tags(r) = Tags(cs)
  BY CallsSaidShown
<1> HIDE DEF r
<1>2. /\ r \in Seq(CallPartSet(N)) /\ Len(r) = Len(cs)
      /\ \A i \in 1 .. Len(cs) : r[i] = IF w = "gemini" THEN GeminiCall(cs[i]) ELSE IdCall(cs[i])
  BY <1>1, Zenon DEF CallsShown
<1>3. QED
  BY <1>1, <1>2, Zenon DEF r

\* A result becomes a result part with its tag.
LEMMA ResultSaidIs ==
    ASSUME NEW N, NEW w, NEW m \in ToolSet(N)
    PROVE  ResultSaid(w, m) \in ResultPartSet(N) /\ ResultSaid(w, m).tag = m.tag
<1>2. m.id \in IdSet /\ m.name \in N /\ m.of \in TagSet /\ m.tag \in TagSet
  BY DEF ToolSet
<1>3. QED
  BY <1>2 DEF GeminiResult, IdResult, ResultPartSet, ResultSaid

\* The part of a file, if it gets one.
FilePlaced(w, fetch) ==
    [f \in FileSet |-> IF FilePart(w, f, fetch) = "part" THEN <<[kind |-> "file", tag |-> f.tag]>> ELSE <<>>]

\* A file gives a part or nothing.
LEMMA FilePlacedTyped ==
    ASSUME NEW w, NEW fetch
    PROVE  GivesSeqs(FilePlaced(w, fetch), FileSet, FilePartSet)
<1>1. ASSUME NEW f \in FileSet
      PROVE  (IF FilePart(w, f, fetch) = "part" THEN <<[kind |-> "file", tag |-> f.tag]>> ELSE <<>>) \in Seq(FilePartSet)
  <2>1. [kind |-> "file", tag |-> f.tag] \in FilePartSet
    BY DEF FileSet, FilePartSet
  <2>2. <<[kind |-> "file", tag |-> f.tag]>> \in Seq(FilePartSet) /\ <<>> \in Seq(FilePartSet)
    BY <2>1
  <2>3. QED
    BY <2>2
<1>2. QED
  BY <1>1 DEF FilePlaced, GivesSeqs

\* The parts of the files of a message are gathered file by file.
LEMMA FilePartsAre ==
    ASSUME NEW w, NEW fetch, NEW fs \in Seq(FileSet)
    PROVE  /\ FileParts(w, fs, fetch) = Gather(FilePlaced(w, fetch), fs)
           /\ FileParts(w, fs, fetch) \in Seq(FilePartSet)
           /\ FileParts(w, <<>>, fetch) = <<>>
<1>1. GivesSeqs(FilePlaced(w, fetch), FileSet, FilePartSet)
  BY FilePlacedTyped
<1>2. ASSUME NEW s \in Seq(FileSet)
      PROVE  FileParts(w, s, fetch) = Gather(FilePlaced(w, fetch), s)
  <2>1. \A i \in DOMAIN s : s[i] \in FileSet
    BY ElementOfSeq, LenProperties
  <2>2. [i \in DOMAIN s |-> IF FilePart(w, s[i], fetch) = "part" THEN <<[kind |-> "file", tag |-> s[i].tag]>> ELSE <<>>]
        = [i \in DOMAIN s |-> FilePlaced(w, fetch)[s[i]]]
    BY <2>1 DEF FilePlaced
  <2>3. QED
    BY <2>2 DEF FileParts, Each, Gather
<1>3. FileParts(w, <<>>, fetch) = <<>>
  BY <1>2, GatherNone, EmptySeq
<1>4. QED
  BY <1>1, <1>2, <1>3, GatherTyped

\* The parts of a spoken message are parts.
LEMMA SpeechSaidTyped ==
    ASSUME NEW N, NEW w, NEW fetch, NEW m \in SpokenSet(N)
    PROVE  SpeechSaid(w, m, fetch) \in Seq(PartSet(N))
<1>1. m.text \in Seq(TagSet) /\ m.calls \in Seq(CallSet(N)) /\ m.files \in Seq(FileSet)
  BY DEF SpokenSet
<1>2. TextParts(m.text) \in Seq(TextPartSet) /\ CallsSaid(w, m.calls) \in Seq(CallPartSet(N))
      /\ FileParts(w, m.files, fetch) \in Seq(FilePartSet)
  BY <1>1, TextPartsAre, CallsSaidAre, FilePartsAre
<1>3. TextPartSet \subseteq PartSet(N) /\ CallPartSet(N) \subseteq PartSet(N) /\ FilePartSet \subseteq PartSet(N)
  BY DEF PartSet
<1>4. TextParts(m.text) \in Seq(PartSet(N)) /\ CallsSaid(w, m.calls) \in Seq(PartSet(N))
      /\ FileParts(w, m.files, fetch) \in Seq(PartSet(N))
  BY <1>2, <1>3, Wider
<1>5. QED
  BY <1>4, CatTyped DEF SpeechSaid

\* So are those of every message of the common shape.
LEMMA PartsSaidTyped ==
    ASSUME NEW N, NEW w, NEW fetch, NEW m \in BodySet(N)
    PROVE  PartsSaid(w, m, fetch) \in Seq(PartSet(N))
<1>1. CASE m \in ToolSet(N)
  <2>1. ResultSaid(w, m) \in PartSet(N) /\ m.role = "tool"
    BY <1>1, ResultSaidIs DEF PartSet, ToolSet
  <2>2. <<ResultSaid(w, m)>> \in Seq(PartSet(N))
    BY <2>1
  <2>3. QED
    BY <2>1, <2>2 DEF PartsSaid
<1>2. CASE m \in SpokenSet(N)
  <2>1. m.role # "tool"
    BY <1>2 DEF SpokenSet
  <2>2. QED
    BY <1>2, <2>1, SpeechSaidTyped DEF PartsSaid
<1>3. QED
  BY <1>1, <1>2 DEF BodySet

-----------------------------------------------------------------------------
(* On every wire, a message shows its parts and none other.                *)

\* A message of a wire, and what is heard and prompted of several.
WireSet(N) == [role : {"user", "assistant", "tool", "model", "none"}, parts : Seq(PartSet(N))]
HeardOf(N) == [m \in WireSet(N) |-> m.parts]
Heard(ms) == Each(ms, LAMBDA m : IF m.role = "system" THEN <<>> ELSE m.parts)
Prompted(ms) == Each(ms, LAMBDA m : IF m.role = "system" THEN m.parts ELSE <<>>)
WireMessages(w, m, fetch) ==
    IF w = "responses" THEN ResponsesItems(m, fetch)
    ELSE IF w = "gemini" THEN GeminiContents(m, fetch)
    ELSE IF w = "converse" THEN ConverseMessages(m, fetch)
    ELSE IF w = "completions" THEN <<CompletionsMessage(m)>>
    ELSE <<AnthropicTurn(m, fetch)>>

\* What is heard of a wire message are its parts.
LEMMA HeardOfTyped ==
    ASSUME NEW N
    PROVE  GivesSeqs(HeardOf(N), WireSet(N), PartSet(N))
BY DEF HeardOf, WireSet, GivesSeqs

\* Wire messages that hold these parts.
Shows(N, ws, ps) == ws \in Seq(WireSet(N)) /\ Gather(HeardOf(N), ws) = ps

\* One wire message shows its own parts.
LEMMA OneWire ==
    ASSUME NEW N, NEW r \in {"user", "assistant", "tool", "model", "none"}, NEW ps \in Seq(PartSet(N)),
           NEW ws, ws = <<[role |-> r, parts |-> ps]>>
    PROVE  Shows(N, ws, ps)
<1> DEFINE m == [role |-> r, parts |-> ps]
<1>1. m \in WireSet(N) /\ HeardOf(N)[m] = ps /\ ws = <<m>>
  BY DEF WireSet, HeardOf
<1> HIDE DEF m
<1>2. ws \in Seq(WireSet(N))
  BY <1>1
<1>3. Gather(HeardOf(N), <<m>>) = ps
  BY <1>1, HeardOfTyped, GatherOne
<1>4. QED
  BY <1>1, <1>2, <1>3 DEF Shows

\* No wire message shows no parts.
LEMMA NoWire ==
    ASSUME NEW N
    PROVE  Shows(N, <<>>, <<>>)
BY GatherNone, EmptySeq DEF Shows

\* The completions wire shows no files (openai.py, _completions_params).
LEMMA NoFilesThere ==
    ASSUME NEW fs \in Seq(FileSet), NEW fetch
    PROVE  FileParts("completions", fs, fetch) = <<>>
<1>1. \A f \in FileSet : FilePlaced("completions", fetch)[f] = <<>>
  BY DEF FilePlaced, FilePart
<1>2. Gather(FilePlaced("completions", fetch), fs) = <<>>
  BY <1>1, GatherNothing
<1>3. QED
  BY <1>2, FilePartsAre

\* The items of the responses wire, one per call.
LEMMA CallItems ==
    ASSUME NEW N, NEW cs \in Seq(CallSet(N))
    PROVE  LET items == [i \in DOMAIN cs |-> [role |-> "none", parts |-> <<IdCall(cs[i])>>]]
           IN  Shows(N, items, CallsSaid("responses", cs))
<1> DEFINE items == [i \in DOMAIN cs |-> [role |-> "none", parts |-> <<IdCall(cs[i])>>]]
<1> DEFINE one == [c \in CallSet(N) |-> <<IdCall(c)>>]
<1> DEFINE g == [c \in CallSet(N) |-> IdCall(c)]
<1>1. \A i \in DOMAIN cs : cs[i] \in CallSet(N)
  BY ElementOfSeq, LenProperties
<1>2. ASSUME NEW c \in CallSet(N) PROVE IdCall(c) \in PartSet(N)
  BY CallSaidIs DEF PartSet
<1>3. \A i \in DOMAIN cs : items[i] \in WireSet(N)
  <2> TAKE i \in DOMAIN cs
  <2>1. <<IdCall(cs[i])>> \in Seq(PartSet(N))
    BY <1>1, <1>2
  <2>2. QED
    BY <2>1 DEF WireSet
<1>4. \A i \in DOMAIN cs : HeardOf(N)[items[i]] = <<IdCall(cs[i])>>
  BY <1>3 DEF HeardOf
<1>5. DOMAIN items = DOMAIN cs /\ items = [i \in DOMAIN items |-> items[i]]
  OBVIOUS
<1>6. Into(g, CallSet(N), PartSet(N)) /\ Alone(one, g, CallSet(N))
  BY <1>2 DEF Into, Alone
<1>7. \A i \in DOMAIN cs : one[cs[i]] = <<IdCall(cs[i])>> /\ g[cs[i]] = IdCall(cs[i])
  BY <1>1
<1> HIDE DEF items, one, g
<1>8. items \in Seq(WireSet(N))
  BY <1>3, <1>5, MapTyped
<1>9. [i \in DOMAIN items |-> HeardOf(N)[items[i]]] = [i \in DOMAIN cs |-> one[cs[i]]]
  BY <1>4, <1>5, <1>7
<1>10. Gather(one, cs) = [i \in DOMAIN cs |-> g[cs[i]]]
  BY <1>6, GatherMapped
<1>11. [i \in DOMAIN cs |-> g[cs[i]]] = CallsSaid("responses", cs)
  BY <1>7 DEF CallsSaid
<1>12. Gather(HeardOf(N), items) = CallsSaid("responses", cs)
  BY <1>9, <1>10, <1>11 DEF Gather
<1>13. QED
  BY <1>8, <1>12 DEF items, Shows

\* On every wire the messages of a spoken message show its parts, and none other.
LEMMA SpokenOut ==
    ASSUME NEW N, NEW fetch, NEW w \in Wires, NEW m \in SpokenSet(N), m.calls = <<>> \/ m.files = <<>>
    PROVE  Shows(N, WireMessages(w, m, fetch), SpeechSaid(w, m, fetch))
<1> DEFINE T == TextParts(m.text)
<1> DEFINE C == CallsSaid(w, m.calls)
<1> DEFINE F == FileParts(w, m.files, fetch)
<1> DEFINE S == SpeechSaid(w, m, fetch)
<1> DEFINE W == WireMessages(w, m, fetch)
<1>1. m.text \in Seq(TagSet) /\ m.calls \in Seq(CallSet(N)) /\ m.files \in Seq(FileSet)
      /\ m.role \in {"user", "assistant"} /\ m.role # "tool"
  BY DEF SpokenSet
<1>2. S \in Seq(PartSet(N))
  BY SpeechSaidTyped
<1>3. S = Cat(Cat(T, C), F) /\ S = (T \o C) \o F
  BY DEF SpeechSaid, Cat
<1>4. T \in Seq(TextPartSet) /\ C \in Seq(CallPartSet(N)) /\ F \in Seq(FilePartSet)
  BY <1>1, TextPartsAre, CallsSaidAre, FilePartsAre
<1>5. T \in Seq(PartSet(N)) /\ C \in Seq(PartSet(N)) /\ F \in Seq(PartSet(N))
  BY <1>4, Wider DEF PartSet
<1>6. w # "gemini" => IdCalls(m) = C
  BY DEF IdCalls, CallsSaid
<1>7. CASE w = "responses"
  <2>1. CASE m.calls # <<>>
    <3> DEFINE items == [i \in DOMAIN m.calls |-> [role |-> "none", parts |-> <<IdCall(m.calls[i])>>]]
    <3> DEFINE head == IF m.text = <<>> THEN <<>> ELSE <<[role |-> "assistant", parts |-> T]>>
    <3>1. Shows(N, items, C)
      BY <1>1, <1>7, CallItems
    <3>2. Shows(N, head, T)
      <4>1. CASE m.text = <<>>
        <5>1. T = <<>>
          BY <4>1 DEF TextParts
        <5>2. QED
          BY <4>1, <5>1, NoWire
      <4>2. CASE m.text # <<>>
        <5> HIDE DEF T
        <5>1. QED
          BY <1>5, <4>2, OneWire
      <4>3. QED
        BY <4>1, <4>2
    <3>3. W = Cat(head, items)
      BY <1>1, <1>7, <2>1 DEF WireMessages, ResponsesItems, Cat
    <3>4. F = <<>>
      BY <1>1, <2>1, FilePartsAre
    <3> HIDE DEF items, head, T, C, F, S, W
    <3>5. Gather(HeardOf(N), Cat(head, items)) = Cat(T, C)
      BY <3>1, <3>2, HeardOfTyped, GatherConcat DEF Shows
    <3>6. S = Cat(T, C)
      BY <1>3, <1>5, <3>4, CatTyped, CatNone
    <3>7. Cat(head, items) \in Seq(WireSet(N))
      BY <3>1, <3>2, CatTyped DEF Shows
    <3>8. QED
      BY <3>3, <3>5, <3>6, <3>7 DEF Shows, S, W
  <2>2. CASE m.calls = <<>>
    <3>1. C = <<>>
      BY <2>2 DEF CallsSaid
    <3>2. W = <<[role |-> m.role, parts |-> T \o F]>>
      BY <1>1, <1>7, <2>2 DEF WireMessages, ResponsesItems
    <3> HIDE DEF T, C, F, S, W
    <3>3. S = Cat(T, F)
      BY <1>3, <1>5, <3>1, CatNone
    <3>4. W = <<[role |-> m.role, parts |-> S]>>
      BY <3>2, <3>3 DEF Cat
    <3>5. QED
      BY <1>1, <1>2, <3>4, OneWire DEF S, W
  <2>3. QED
    BY <2>1, <2>2
<1>8. CASE w = "gemini"
  <2>1. W = IF (T \o C) \o F = <<>> THEN <<>>
            ELSE <<[role |-> GeminiRole(m.role), parts |-> (T \o C) \o F]>>
    BY <1>1, <1>8 DEF WireMessages, GeminiContents, CallsSaid
  <2>2. GeminiRole(m.role) \in {"user", "assistant", "tool", "model", "none"}
    BY DEF GeminiRole
  <2> HIDE DEF S, W
  <2>3. W = IF S = <<>> THEN <<>> ELSE <<[role |-> GeminiRole(m.role), parts |-> S]>>
    BY <1>3, <2>1
  <2>4. QED
    BY <1>2, <2>2, <2>3, OneWire, NoWire DEF S, W
<1>9. CASE w = "converse"
  <2>1. W = IF (T \o C) \o F = <<>> THEN <<>>
            ELSE <<[role |-> m.role, parts |-> (T \o C) \o F]>>
    BY <1>1, <1>6, <1>9 DEF WireMessages, ConverseMessages
  <2> HIDE DEF S, W
  <2>2. W = IF S = <<>> THEN <<>> ELSE <<[role |-> m.role, parts |-> S]>>
    BY <1>3, <2>1
  <2>3. QED
    BY <1>1, <1>2, <2>2, OneWire, NoWire DEF S, W
<1>10. CASE w = "completions"
  <2>1. F = <<>>
    BY <1>1, <1>10, NoFilesThere
  <2>2. W = <<[role |-> m.role, parts |-> T \o C]>>
    BY <1>1, <1>6, <1>10 DEF WireMessages, CompletionsMessage
  <2> HIDE DEF T, C, F, S, W
  <2>3. S = Cat(T, C)
    BY <1>3, <1>5, <2>1, CatTyped, CatNone
  <2>4. W = <<[role |-> m.role, parts |-> S]>>
    BY <2>2, <2>3 DEF Cat
  <2>5. QED
    BY <1>1, <1>2, <2>4, OneWire DEF S, W
<1>11. CASE w = "anthropic"
  <2>1. W = <<[role |-> m.role, parts |-> (T \o C) \o F]>>
    BY <1>1, <1>6, <1>11 DEF WireMessages, AnthropicTurn
  <2> HIDE DEF S, W
  <2>2. W = <<[role |-> m.role, parts |-> S]>>
    BY <1>3, <2>1
  <2>3. QED
    BY <1>1, <1>2, <2>2, OneWire DEF S, W
<1>12. QED
  BY <1>7, <1>8, <1>9, <1>10, <1>11 DEF Wires

\* On every wire the messages a common message becomes show the parts it has, and none
\* other: no item of the responses wire, no skipped message of Gemini's or Bedrock's loses any.
LEMMA WireOut ==
    ASSUME NEW N, NEW fetch, NEW w \in Wires, NEW m \in BodySet(N)
    PROVE  Shows(N, WireMessages(w, m, fetch), PartsSaid(w, m, fetch))
<1>1. CASE m \in ToolSet(N)
  <2>1. m.role = "tool"
    BY <1>1 DEF ToolSet
  <2>2. <<ResultSaid(w, m)>> \in Seq(PartSet(N)) /\ PartsSaid(w, m, fetch) = <<ResultSaid(w, m)>>
    BY <2>1, PartsSaidTyped DEF PartsSaid
  <2>3. \E r \in {"none", "tool", "user"} :
            WireMessages(w, m, fetch) = <<[role |-> r, parts |-> <<ResultSaid(w, m)>>]>>
    BY <2>1 DEF WireMessages, ResponsesItems, GeminiContents, ConverseMessages, CompletionsMessage,
                AnthropicTurn, ResultSaid, Wires
  <2> DEFINE ps == <<ResultSaid(w, m)>>
  <2> HIDE DEF ps
  <2>4. QED
    BY <2>2, <2>3, OneWire DEF ps
<1>2. CASE m \in SpokenSet(N) /\ (m.calls = <<>> \/ m.files = <<>>)
  <2>1. m.role # "tool"
    BY <1>2 DEF SpokenSet
  <2>2. QED
    BY <1>2, <2>1, SpokenOut DEF PartsSaid
<1>3. QED
  BY <1>1, <1>2 DEF BodySet

\* What each message becomes on a wire, and the parts it has there.
WireOf(w, fetch, N) == [m \in BodySet(N) |-> WireMessages(w, m, fetch)]
SaidBy(w, fetch, N) == [m \in BodySet(N) |-> PartsSaid(w, m, fetch)]

\* So what is heard on a wire is what the messages have, one after the other.
LEMMA WireOfTyped ==
    ASSUME NEW N, NEW fetch, NEW w \in Wires
    PROVE  /\ GivesSeqs(WireOf(w, fetch, N), BodySet(N), WireSet(N))
           /\ GivesSeqs(SaidBy(w, fetch, N), BodySet(N), PartSet(N))
           /\ Composed(SaidBy(w, fetch, N), HeardOf(N), WireOf(w, fetch, N), BodySet(N))
<1>1. GivesSeqs(WireOf(w, fetch, N), BodySet(N), WireSet(N))
  BY WireOut DEF WireOf, GivesSeqs, Shows
<1>2. GivesSeqs(SaidBy(w, fetch, N), BodySet(N), PartSet(N))
  BY PartsSaidTyped DEF SaidBy, GivesSeqs
<1>3. \A m \in BodySet(N) : SaidBy(w, fetch, N)[m] = Gather(HeardOf(N), WireOf(w, fetch, N)[m])
  BY WireOut DEF WireOf, SaidBy, Shows
<1>4. QED
  BY <1>1, <1>2, <1>3 DEF Composed

\* None of these messages is the system's.
LEMMA HeardIs ==
    ASSUME NEW N, NEW ws \in Seq(WireSet(N))
    PROVE  Heard(ws) = Gather(HeardOf(N), ws) /\ Prompted(ws) = <<>>
<1>1. \A i \in DOMAIN ws : ws[i] \in WireSet(N)
  BY ElementOfSeq, LenProperties
<1>2. \A i \in DOMAIN ws : ws[i].role # "system" /\ HeardOf(N)[ws[i]] = ws[i].parts
  BY <1>1 DEF HeardOf, WireSet
<1>3. [i \in DOMAIN ws |-> IF ws[i].role = "system" THEN <<>> ELSE ws[i].parts]
        = [i \in DOMAIN ws |-> HeardOf(N)[ws[i]]]
  BY <1>2
<1> DEFINE none == [x \in WireSet(N) |-> <<>>]
<1>4. \A x \in WireSet(N) : none[x] = <<>>
  OBVIOUS
<1> HIDE DEF none
<1>5. [i \in DOMAIN ws |-> IF ws[i].role = "system" THEN ws[i].parts ELSE <<>>]
        = [i \in DOMAIN ws |-> none[ws[i]]]
  BY <1>1, <1>2, <1>4
<1>6. Gather(none, ws) = <<>>
  BY <1>4, GatherNothing
<1>7. QED
  BY <1>3, <1>5, <1>6 DEF Heard, Prompted, Each, Gather

\* Whatever a body becomes on a wire, it is heard whole and prompts nothing.
LEMMA BodyHeard ==
    ASSUME NEW N, NEW fetch, NEW w \in Wires, NEW body \in Seq(BodySet(N))
    PROVE  /\ Gather(WireOf(w, fetch, N), body) \in Seq(WireSet(N))
           /\ Heard(Gather(WireOf(w, fetch, N), body)) = Gather(SaidBy(w, fetch, N), body)
           /\ Prompted(Gather(WireOf(w, fetch, N), body)) = <<>>
<1>1. Gather(WireOf(w, fetch, N), body) \in Seq(WireSet(N))
  BY WireOfTyped, GatherTyped
<1>2. Gather(HeardOf(N), Gather(WireOf(w, fetch, N), body)) = Gather(SaidBy(w, fetch, N), body)
  BY WireOfTyped, HeardOfTyped, GatherThrough
<1>3. QED
  BY <1>1, <1>2, HeardIs

\* The adapters part the system message from what follows it.
LEMMA SpokenIs ==
    ASSUME NEW N, NEW body \in Seq(BodySet(N))
    PROVE  Spoken(<<SystemMessage>> \o body) = body
           /\ SystemOf(<<SystemMessage>> \o body) = SystemMessage.text
<1> DEFINE X == BodySet(N) \cup {SystemMessage}
<1> DEFINE sp == [m \in X |-> IF m.role = "system" THEN <<>> ELSE <<m>>]
<1> DEFINE sy == [m \in X |-> IF m.role = "system" THEN m.text ELSE <<>>]
<1> DEFINE ms == Cat(<<SystemMessage>>, body)
<1>1. SystemMessage.role = "system" /\ SystemMessage.text \in Seq(TagSet)
      /\ \A m \in BodySet(N) : m.role # "system"
  <2>1. SystemMessage.role = "system" /\ SystemMessage.text = <<<<0, 0>>>>
    BY DEF SystemMessage, CommonMessage
  <2>2. <<<<0, 0>>>> \in Seq(TagSet)
    BY DEF TagSet
  <2>3. \A m \in BodySet(N) : m.role # "system"
    BY DEF BodySet, SpokenSet, ToolSet
  <2>4. QED
    BY <2>1, <2>2, <2>3
<1>2. <<SystemMessage>> \in Seq(X) /\ body \in Seq(X) /\ ms \in Seq(X)
  <2>1. <<SystemMessage>> \in Seq(X)
    OBVIOUS
  <2>2. body \in Seq(X)
    BY Wider
  <2> HIDE DEF X
  <2>3. QED
    BY <2>1, <2>2, CatTyped
<1>3. GivesSeqs(sp, X, X) /\ GivesSeqs(sy, X, TagSet)
  <2>1. ASSUME NEW m \in X PROVE (IF m.role = "system" THEN <<>> ELSE <<m>>) \in Seq(X)
    <3> HIDE DEF X
    <3>1. QED
      OBVIOUS
  <2>2. ASSUME NEW m \in X PROVE (IF m.role = "system" THEN m.text ELSE <<>>) \in Seq(TagSet)
    BY <1>1, EmptySeq
  <2> HIDE DEF X
  <2>3. QED
    BY <2>1, <2>2 DEF GivesSeqs
<1>4. sp[SystemMessage] = <<>> /\ sy[SystemMessage] = SystemMessage.text /\ SystemMessage \in X
  BY <1>1
<1>5. \A m \in BodySet(N) : sp[m] = <<m>> /\ sy[m] = <<>>
  BY <1>1
<1>6. \A i \in DOMAIN ms : ms[i] \in X
  BY <1>2, ElementOfSeq, LenProperties
<1>7. [i \in DOMAIN ms |-> IF ms[i].role = "system" THEN <<>> ELSE <<ms[i]>>] = [i \in DOMAIN ms |-> sp[ms[i]]]
      /\ [i \in DOMAIN ms |-> IF ms[i].role = "system" THEN ms[i].text ELSE <<>>] = [i \in DOMAIN ms |-> sy[ms[i]]]
  <2> HIDE DEF X, ms
  <2>1. QED
    BY <1>6
<1> HIDE DEF X, sp, sy, ms
<1>8. Spoken(ms) = Gather(sp, ms) /\ SystemOf(ms) = Gather(sy, ms)
  BY <1>7 DEF Spoken, SystemOf, Each, Gather
<1>9. Gather(sp, ms) = Cat(Gather(sp, <<SystemMessage>>), Gather(sp, body))
      /\ Gather(sy, ms) = Cat(Gather(sy, <<SystemMessage>>), Gather(sy, body))
  <2> DEFINE q == <<SystemMessage>>
  <2>1. q \in Seq(X)
    BY <1>2
  <2>2. ms = Cat(q, body)
    BY DEF ms
  <2> HIDE DEF q
  <2>3. Gather(sp, Cat(q, body)) = Cat(Gather(sp, q), Gather(sp, body))
    BY <1>2, <1>3, <2>1, GatherConcat
  <2>4. Gather(sy, Cat(q, body)) = Cat(Gather(sy, q), Gather(sy, body))
    BY <1>2, <1>3, <2>1, GatherConcat
  <2>5. QED
    BY <2>2, <2>3, <2>4 DEF q
<1>10. Gather(sp, <<SystemMessage>>) = <<>> /\ Gather(sy, <<SystemMessage>>) = SystemMessage.text
  BY <1>3, <1>4, GatherOne
<1>11. Gather(sp, body) = body /\ Gather(sy, body) = <<>>
  BY <1>5, GatherSelf, GatherNothing
<1>12. Spoken(ms) = body /\ SystemOf(ms) = SystemMessage.text
  BY <1>1, <1>8, <1>9, <1>10, <1>11, CatNone
<1>13. QED
  BY <1>12 DEF ms, Cat

\* A message of the system's in front is prompted, not heard.
LEMMA FrontHeard ==
    ASSUME NEW N, NEW x, x.role = "system", x.parts \in Seq(PartSet(N)), NEW ws \in Seq(WireSet(N))
    PROVE  Heard(Cat(<<x>>, ws)) = Heard(ws) /\ Prompted(Cat(<<x>>, ws)) = x.parts
<1> DEFINE X == WireSet(N) \cup {x}
<1> DEFINE he == [m \in X |-> IF m.role = "system" THEN <<>> ELSE m.parts]
<1> DEFINE pr == [m \in X |-> IF m.role = "system" THEN m.parts ELSE <<>>]
<1> DEFINE ms == Cat(<<x>>, ws)
<1>1. \A m \in WireSet(N) : m.role # "system" /\ m.parts \in Seq(PartSet(N))
  BY DEF WireSet
<1>2. <<x>> \in Seq(X) /\ ws \in Seq(X) /\ ms \in Seq(X)
  <2>1. <<x>> \in Seq(X)
    OBVIOUS
  <2>2. ws \in Seq(X)
    BY Wider
  <2> HIDE DEF X
  <2>3. QED
    BY <2>1, <2>2, CatTyped
<1>3. GivesSeqs(he, X, PartSet(N)) /\ GivesSeqs(pr, X, PartSet(N))
  <2>1. ASSUME NEW m \in X
        PROVE  (IF m.role = "system" THEN <<>> ELSE m.parts) \in Seq(PartSet(N))
               /\ (IF m.role = "system" THEN m.parts ELSE <<>>) \in Seq(PartSet(N))
    BY <1>1, EmptySeq
  <2> HIDE DEF X
  <2>2. QED
    BY <2>1 DEF GivesSeqs
<1>4. he[x] = <<>> /\ pr[x] = x.parts /\ x \in X
  OBVIOUS
<1>5. \A m \in WireSet(N) : pr[m] = <<>>
  BY <1>1
<1>6. ASSUME NEW s \in Seq(X) PROVE Heard(s) = Gather(he, s) /\ Prompted(s) = Gather(pr, s)
  <2>1. \A i \in DOMAIN s : s[i] \in X
    <3> HIDE DEF X
    <3>1. QED
      BY ElementOfSeq, LenProperties
  <2> HIDE DEF X
  <2>2. [i \in DOMAIN s |-> IF s[i].role = "system" THEN <<>> ELSE s[i].parts] = [i \in DOMAIN s |-> he[s[i]]]
        /\ [i \in DOMAIN s |-> IF s[i].role = "system" THEN s[i].parts ELSE <<>>] = [i \in DOMAIN s |-> pr[s[i]]]
    BY <2>1
  <2>3. QED
    BY <2>2 DEF Heard, Prompted, Each, Gather
<1> HIDE DEF X, he, pr, ms
<1>7. Gather(he, ms) = Cat(Gather(he, <<x>>), Gather(he, ws)) /\ Gather(pr, ms) = Cat(Gather(pr, <<x>>), Gather(pr, ws))
  <2> DEFINE q == <<x>>
  <2>1. q \in Seq(X)
    BY <1>2
  <2>2. ms = Cat(q, ws)
    BY DEF ms
  <2> HIDE DEF q
  <2>3. Gather(he, Cat(q, ws)) = Cat(Gather(he, q), Gather(he, ws))
    BY <1>2, <1>3, <2>1, GatherConcat
  <2>4. Gather(pr, Cat(q, ws)) = Cat(Gather(pr, q), Gather(pr, ws))
    BY <1>2, <1>3, <2>1, GatherConcat
  <2>5. QED
    BY <2>2, <2>3, <2>4 DEF q
<1>8. Gather(he, <<x>>) = <<>> /\ Gather(pr, <<x>>) = x.parts /\ Gather(pr, ws) = <<>>
  BY <1>3, <1>4, <1>5, GatherOne, GatherNothing
<1>9. Gather(he, ws) \in Seq(PartSet(N)) /\ Heard(ws) = Gather(he, ws)
  BY <1>2, <1>3, <1>6, GatherTyped
<1>10. Heard(ms) = Heard(ws) /\ Prompted(ms) = x.parts
  BY <1>2, <1>6, <1>7, <1>8, <1>9, CatNone
<1>11. QED
  BY <1>10 DEF ms

\* A wire with one message for each: a map.
LEMMA OneForEach ==
    ASSUME NEW N, NEW fetch, NEW w, w \in {"completions", "anthropic"}, NEW body \in Seq(BodySet(N))
    PROVE  Gather(WireOf(w, fetch, N), body)
             = [i \in DOMAIN body |-> IF w = "completions" THEN CompletionsMessage(body[i])
                                      ELSE AnthropicTurn(body[i], fetch)]
<1> DEFINE g == [m \in BodySet(N) |-> IF w = "completions" THEN CompletionsMessage(m) ELSE AnthropicTurn(m, fetch)]
<1> DEFINE Y == {g[m] : m \in BodySet(N)}
<1>1. Into(g, BodySet(N), Y)
  BY DEF Into
<1>2. Alone(WireOf(w, fetch, N), g, BodySet(N))
  BY DEF Alone, WireOf, WireMessages
<1>3. \A i \in DOMAIN body : body[i] \in BodySet(N)
  BY ElementOfSeq, LenProperties
<1>4. [i \in DOMAIN body |-> g[body[i]]]
        = [i \in DOMAIN body |-> IF w = "completions" THEN CompletionsMessage(body[i])
                                 ELSE AnthropicTurn(body[i], fetch)]
  BY <1>3
<1> HIDE DEF g, Y
<1>5. Gather(WireOf(w, fetch, N), body) = [i \in DOMAIN body |-> g[body[i]]]
  BY <1>1, <1>2, GatherMapped
<1>6. QED
  BY <1>4, <1>5

\* What is heard of a request, and what is prompted.
LEMMA RequestHeard ==
    ASSUME NEW N, NEW fetch, NEW w \in Wires, NEW body \in Seq(BodySet(N))
    PROVE  LET r == Request(w, <<SystemMessage>> \o body, fetch)
           IN  /\ Heard(r.messages) = Gather(SaidBy(w, fetch, N), body)
               /\ r.system \o Tags(Prompted(r.messages)) = SystemMessage.text
<1> DEFINE ms == <<SystemMessage>> \o body
<1> DEFINE r == Request(w, ms, fetch)
<1> DEFINE out == Gather(WireOf(w, fetch, N), body)
<1>1. \A i \in DOMAIN body : body[i] \in BodySet(N)
  BY ElementOfSeq, LenProperties
<1>2. Spoken(ms) = body /\ SystemOf(ms) = SystemMessage.text
  BY SpokenIs
<1>3. out \in Seq(WireSet(N)) /\ Heard(out) = Gather(SaidBy(w, fetch, N), body) /\ Prompted(out) = <<>>
  BY BodyHeard
<1>4. SystemMessage.text = <<<<0, 0>>>> /\ SystemMessage.role = "system" /\ SystemMessage.calls = <<>>
  BY DEF SystemMessage, CommonMessage
<1>5. Tags(<<>>) = <<>>
  BY DEF Tags
<1>6. CASE w # "completions"
  <2>1. r.messages = out /\ r.system = SystemMessage.text
    <3>1. CASE w = "anthropic"
      <4>1. r = [system |-> SystemOf(ms), messages |-> [i \in DOMAIN Spoken(ms) |-> AnthropicTurn(Spoken(ms)[i], fetch)]]
        BY <3>1 DEF Request, AnthropicRequest
      <4> HIDE DEF ms, r, out
      <4>2. r.messages = [i \in DOMAIN body |-> AnthropicTurn(body[i], fetch)] /\ r.system = SystemMessage.text
        BY <1>2, <4>1
      <4>3. out = [i \in DOMAIN body |-> AnthropicTurn(body[i], fetch)]
        BY <3>1, OneForEach DEF out
      <4>4. QED
        BY <4>2, <4>3
    <3>2. CASE w \in {"responses", "gemini", "converse"}
      <4>1. r = [system |-> SystemOf(ms), messages |-> FlattenSeq([i \in DOMAIN Spoken(ms) |-> WireMessages(w, Spoken(ms)[i], fetch)])]
        BY <3>2 DEF Request, ResponsesRequest, GeminiRequest, ConverseRequest, Each, WireMessages
      <4>2. [i \in DOMAIN body |-> WireMessages(w, body[i], fetch)] = [i \in DOMAIN body |-> WireOf(w, fetch, N)[body[i]]]
        BY <1>1 DEF WireOf
      <4>3. out = FlattenSeq([i \in DOMAIN body |-> WireMessages(w, body[i], fetch)])
        BY <4>2 DEF Gather
      <4> HIDE DEF ms, r, out
      <4>4. r = [system |-> SystemMessage.text, messages |-> out]
        BY <1>2, <4>1, <4>3
      <4>5. QED
        BY <4>4
    <3>3. QED
      BY <1>6, <3>1, <3>2 DEF Wires
  <2> HIDE DEF r, out, ms
  <2>2. SystemMessage.text \o <<>> = SystemMessage.text
    BY <1>4
  <2>3. QED
    BY <1>3, <1>5, <2>1, <2>2 DEF r, ms
<1>7. CASE w = "completions"
  <2> DEFINE x == CompletionsMessage(SystemMessage)
  <2>1. r.messages = [i \in DOMAIN ms |-> CompletionsMessage(ms[i])] /\ r.system = <<>>
    BY <1>7 DEF Request, CompletionsRequest
  <2>2. out = [i \in DOMAIN body |-> CompletionsMessage(body[i])]
    BY <1>7, OneForEach
  <2>3. Len(ms) = Len(body) + 1 /\ Len(body) \in Nat /\ DOMAIN ms = 1 .. Len(body) + 1
        /\ ms[1] = SystemMessage /\ \A i \in 2 .. Len(body) + 1 : ms[i] = body[i - 1]
    BY LenProperties
  <2>4. x.role = "system" /\ x.parts = TextParts(<<<<0, 0>>>>)
    <3>1. IdCalls(SystemMessage) = <<>>
      BY <1>4 DEF IdCalls
    <3>2. <<<<0, 0>>>> \in Seq(TagSet)
      BY DEF TagSet
    <3>3. TextParts(<<<<0, 0>>>>) \in Seq(TextPartSet)
      BY <3>2, TextPartsAre
    <3>4. TextParts(<<<<0, 0>>>>) \o <<>> = TextParts(<<<<0, 0>>>>)
      BY <3>3, ConcatEmptySeq
    <3>5. QED
      BY <1>4, <3>1, <3>4 DEF CompletionsMessage
  <2>5. x.parts \in Seq(PartSet(N)) /\ Tags(x.parts) = SystemMessage.text
    <3>1. <<<<0, 0>>>> \in Seq(TagSet)
      BY DEF TagSet
    <3>2. TextParts(<<<<0, 0>>>>) \in Seq(TextPartSet) /\ Tags(TextParts(<<<<0, 0>>>>)) = <<<<0, 0>>>>
      BY <3>1, TextPartsAre
    <3>3. TextParts(<<<<0, 0>>>>) \in Seq(PartSet(N))
      BY <3>2, Wider DEF PartSet
    <3>4. QED
      BY <1>4, <2>4, <3>2, <3>3
  <2> HIDE DEF ms, r, out, x
  <2>6. r.messages = Cat(<<x>>, out)
    <3>1. DOMAIN out = 1 .. Len(body) /\ Len(out) = Len(body) /\ \A i \in 1 .. Len(body) : out[i] = CompletionsMessage(body[i])
      BY <2>2, <2>3, LenProperties
    <3>2. \A i \in 1 .. Len(body) + 1 : CompletionsMessage(ms[i]) = IF i = 1 THEN x ELSE out[i - 1]
      <4> TAKE i \in 1 .. Len(body) + 1
      <4>1. CASE i = 1
        BY <2>3, <4>1 DEF x
      <4>2. CASE i # 1
        <5>1. i - 1 \in 1 .. Len(body) /\ i \in 2 .. Len(body) + 1
          BY <2>3, <4>2
        <5>2. QED
          BY <2>3, <3>1, <4>2, <5>1
      <4>3. QED
        BY <4>1, <4>2
    <3>3. Cat(<<x>>, out) = [i \in 1 .. Len(body) + 1 |-> IF i = 1 THEN x ELSE out[i - 1]]
      <4>1. Len(<<x>>) = 1 /\ <<x>>[1] = x /\ <<x>> \in Seq({x} \cup WireSet(N)) /\ out \in Seq({x} \cup WireSet(N))
        BY <1>3, Wider
      <4>2. <<x>> \o out \in Seq({x} \cup WireSet(N)) /\ Len(<<x>> \o out) = Len(body) + 1
            /\ \A i \in 1 .. Len(body) + 1 : (<<x>> \o out)[i] = IF i = 1 THEN x ELSE out[i - 1]
        BY <2>3, <3>1, <4>1
      <4> DEFINE s == <<x>> \o out
      <4>3. DOMAIN s = 1 .. Len(body) + 1 /\ s = [i \in DOMAIN s |-> s[i]]
        BY <4>2, LenProperties
      <4> HIDE DEF s
      <4>4. s = [i \in 1 .. Len(body) + 1 |-> IF i = 1 THEN x ELSE out[i - 1]]
        BY <4>2, <4>3 DEF s
      <4>5. QED
        BY <4>4 DEF s, Cat
    <3>4. [i \in 1 .. Len(body) + 1 |-> CompletionsMessage(ms[i])] = [i \in 1 .. Len(body) + 1 |-> IF i = 1 THEN x ELSE out[i - 1]]
      BY <3>2
    <3>5. QED
      BY <2>1, <2>3, <3>3, <3>4
  <2>7. Heard(r.messages) = Heard(out) /\ Prompted(r.messages) = x.parts
    BY <1>3, <2>4, <2>5, <2>6, FrontHeard
  <2>8. <<>> \o SystemMessage.text = SystemMessage.text
    BY <1>4
  <2>9. QED
    BY <1>3, <2>1, <2>5, <2>7, <2>8 DEF r, ms
<1>8. QED
  BY <1>6, <1>7

-----------------------------------------------------------------------------
(* A turn, its messages and their parts, on either surface.                *)

\* What the client's turns are made of.
TextBlocks   == [kind : {"text"}, tag : TagSet]
ThinkBlocks  == [kind : {"thinking"}, tag : TagSet]
CallBlocks   == [kind : {"tool_use"}, tag : TagSet, id : IdSet, name : Tools, sig : TagSet]
ResultBlocks == [kind : {"tool_result"}, tag : TagSet, id : IdSet, sig : TagSet, name : Tools,
                 of : TagSet, shown : BOOLEAN]
BlockSet == ((TextBlocks \cup ThinkBlocks) \cup FileSet) \cup (CallBlocks \cup ResultBlocks)
TurnSet == {turn \in [role : {"user", "assistant"}, blocks : Seq(BlockSet)] :
               OfKind(turn.blocks, "tool_use") = <<>> \/ OfKind(turn.blocks, "file") = <<>>}
Names(ts) == (Tools \cup {NoName}) \cup {NameOf(ts, id) : id \in IdSet}

\* A block is of one kind, and has a tag.
LEMMA BlockKinds ==
    /\ {b \in BlockSet : b.kind = "text"} = TextBlocks
    /\ {b \in BlockSet : b.kind = "file"} = FileSet
    /\ {b \in BlockSet : b.kind = "tool_use"} = CallBlocks
    /\ {b \in BlockSet : b.kind = "tool_result"} = ResultBlocks
    /\ Tagged(BlockSet, TagSet)
<1>1. \A b \in TextBlocks : b.kind = "text" /\ b.tag \in TagSet
  BY DEF TextBlocks
<1>2. \A b \in ThinkBlocks : b.kind = "thinking" /\ b.tag \in TagSet
  BY DEF ThinkBlocks
<1>3. \A b \in FileSet : b.kind = "file" /\ b.tag \in TagSet
  BY DEF FileSet
<1>4. \A b \in CallBlocks : b.kind = "tool_use" /\ b.tag \in TagSet
  BY DEF CallBlocks
<1>5. \A b \in ResultBlocks : b.kind = "tool_result" /\ b.tag \in TagSet
  BY DEF ResultBlocks
<1>6. QED
  BY <1>1, <1>2, <1>3, <1>4, <1>5 DEF BlockSet, Tagged

\* What a turn has of a kind.
LEMMA BlocksOf ==
    ASSUME NEW bs \in Seq(BlockSet)
    PROVE  /\ OfKind(bs, "text") \in Seq(TextBlocks) /\ OfKind(bs, "file") \in Seq(FileSet)
           /\ OfKind(bs, "tool_use") \in Seq(CallBlocks)
           /\ OfKind(bs, "tool_result") \in Seq(ResultBlocks)
           /\ \A k : Tags(OfKind(bs, k)) \in Seq(TagSet)
<1>1. \A k : OfKind(bs, k) \in Seq({b \in BlockSet : b.kind = k})
  BY OfKindTyped
<1>2. \A k : Tags(OfKind(bs, k)) \in Seq(TagSet)
  BY BlockKinds, KindTags
<1>3. QED
  BY <1>1, <1>2, BlockKinds

\* translate_in takes over the calls of a turn one by one, signature and all.
LEMMA CommonCallsAre ==
    ASSUME NEW N, Tools \subseteq N, NEW bs \in Seq(CallBlocks)
    PROVE  /\ CommonCalls(bs) \in Seq(CallSet(N)) /\ Tags(CommonCalls(bs)) = Tags(bs)
           /\ Len(CommonCalls(bs)) = Len(bs)
           /\ \A i \in 1 .. Len(bs) : CommonCalls(bs)[i]
                = [id |-> bs[i].id, name |-> bs[i].name, sig |-> bs[i].sig, tag |-> bs[i].tag]
<1> DEFINE t == CommonCalls(bs)
<1>1. DOMAIN t = DOMAIN bs /\ t = [i \in DOMAIN t |-> t[i]]
      /\ \A i \in DOMAIN bs : t[i] = [id |-> bs[i].id, name |-> bs[i].name, sig |-> bs[i].sig, tag |-> bs[i].tag]
  BY DEF CommonCalls, SplitSig
<1>2. DOMAIN bs = 1 .. Len(bs) /\ \A i \in DOMAIN bs : bs[i] \in CallBlocks
  BY LenProperties, ElementOfSeq
<1> HIDE DEF t
<1>3. \A i \in DOMAIN bs : t[i] \in CallSet(N) /\ t[i].tag = bs[i].tag
  BY <1>1, <1>2 DEF CallBlocks, CallSet
<1>4. t \in Seq(CallSet(N)) /\ Len(t) = Len(bs)
  BY <1>1, <1>3, MapTyped
<1>5. Tags(t) = Tags(bs)
  BY <1>1, <1>3 DEF Tags
<1>6. QED
  BY <1>1, <1>2, <1>4, <1>5 DEF t

\* A turn's messages, and their parts.
NameFor(s, ts, id) == IF s = "messages" THEN NameOf(ts, id) ELSE NoName
ToolMessages(s, ts, rs) == [i \in DOMAIN rs |-> ToolMessage(rs[i], NameFor(s, ts, rs[i].id))]
HeadMessage(turn) ==
    CommonMessage(turn.role, Tags(OfKind(turn.blocks, "text")), CommonCalls(OfKind(turn.blocks, "tool_use")),
                  OfKind(turn.blocks, "file"))
MessagesOf(s, ts, turn) == IF s = "messages" THEN TranslateMessage(turn, ts) ELSE ConvertMessage(turn)

\* The parts of a turn: of its head, of the results it brings back, and of both.
HeadSaid(w, fetch, turn) ==
    Cat(Cat(TextParts(Tags(OfKind(turn.blocks, "text"))),
            CallsSaid(w, CommonCalls(OfKind(turn.blocks, "tool_use")))),
        FileParts(w, OfKind(turn.blocks, "file"), fetch))
BackSaid(w, s, ts, rs) == [i \in DOMAIN rs |-> ResultSaid(w, ToolMessages(s, ts, rs)[i])]
TurnSaid(w, fetch, s, ts, turn) ==
    IF s = "messages" THEN Cat(HeadSaid(w, fetch, turn), BackSaid(w, s, ts, OfKind(turn.blocks, "tool_result")))
    ELSE Cat(BackSaid(w, s, ts, OfKind(turn.blocks, "tool_result")), HeadSaid(w, fetch, turn))

\* The results of a turn become one message each, with one part each.
LEMMA BackOut ==
    ASSUME NEW w \in Wires, NEW fetch, NEW s \in {"messages", "chat"}, NEW ts, NEW rs \in Seq(ResultBlocks)
    PROVE  /\ ToolMessages(s, ts, rs) \in Seq(BodySet(Names(ts)))
           /\ Gather(SaidBy(w, fetch, Names(ts)), ToolMessages(s, ts, rs)) = BackSaid(w, s, ts, rs)
           /\ BackSaid(w, s, ts, rs) \in Seq(ResultPartSet(Names(ts)))
           /\ Tags(BackSaid(w, s, ts, rs)) = Tags(rs)
           /\ Len(BackSaid(w, s, ts, rs)) = Len(rs)
<1> DEFINE N == Names(ts)
<1> DEFINE ms == ToolMessages(s, ts, rs)
<1> DEFINE ps == BackSaid(w, s, ts, rs)
<1>1. DOMAIN rs = 1 .. Len(rs) /\ \A i \in DOMAIN rs : rs[i] \in ResultBlocks
  BY LenProperties, ElementOfSeq
<1>2. DOMAIN ms = DOMAIN rs /\ ms = [i \in DOMAIN ms |-> ms[i]]
      /\ \A i \in DOMAIN rs : ms[i] = ToolMessage(rs[i], NameFor(s, ts, rs[i].id))
  BY DEF ToolMessages
<1>3. \A id \in IdSet : NameFor(s, ts, id) \in N
  BY DEF NameFor, Names
<1>4. \A i \in DOMAIN rs : rs[i].id \in IdSet /\ rs[i].tag \in TagSet /\ rs[i].of \in TagSet
  BY <1>1 DEF ResultBlocks
<1>5. DOMAIN ps = DOMAIN rs /\ ps = [i \in DOMAIN ps |-> ps[i]]
      /\ \A i \in DOMAIN rs : ps[i] = ResultSaid(w, ms[i])
  BY DEF BackSaid
<1> HIDE DEF N, ms, ps
<1>6. \A i \in DOMAIN rs : ms[i] \in ToolSet(N) /\ ms[i].tag = rs[i].tag
  <2> TAKE i \in DOMAIN rs
  <2> DEFINE n == NameFor(s, ts, rs[i].id)
  <2>1. n \in N
    BY <1>3, <1>4
  <2>2. ms[i] = ToolMessage(rs[i], n)
    BY <1>2
  <2> HIDE DEF n
  <2>3. QED
    BY <1>4, <2>1, <2>2 DEF ToolMessage, ToolSet
<1>7. ms \in Seq(ToolSet(N)) /\ Len(ms) = Len(rs)
  BY <1>2, <1>6, MapTyped
<1>8. ms \in Seq(BodySet(N))
  BY <1>7, Wider DEF BodySet
<1>9. \A i \in DOMAIN rs : ps[i] \in ResultPartSet(N) /\ ps[i].tag = rs[i].tag
  BY <1>5, <1>6, ResultSaidIs
<1>10. ps \in Seq(ResultPartSet(N)) /\ Len(ps) = Len(rs)
  BY <1>5, <1>9, MapTyped
<1>11. Tags(ps) = Tags(rs)
  BY <1>5, <1>9 DEF Tags
<1> DEFINE g == [m \in ToolSet(N) |-> ResultSaid(w, m)]
<1>12. Into(g, ToolSet(N), ResultPartSet(N))
  BY ResultSaidIs DEF Into
<1>13. Alone(SaidBy(w, fetch, N), g, ToolSet(N))
  <2>1. \A m \in ToolSet(N) : m \in BodySet(N) /\ m.role = "tool"
    BY DEF BodySet, ToolSet
  <2>2. QED
    BY <2>1 DEF Alone, SaidBy, PartsSaid
<1>14. \A m \in ToolSet(N) : g[m] = ResultSaid(w, m)
  OBVIOUS
<1> HIDE DEF g
<1>15. Gather(SaidBy(w, fetch, N), ms) = [i \in DOMAIN ms |-> g[ms[i]]]
  BY <1>7, <1>12, <1>13, GatherMapped
<1>16. [i \in DOMAIN ms |-> g[ms[i]]] = [i \in DOMAIN ps |-> ps[i]]
  BY <1>2, <1>5, <1>6, <1>14
<1>17. Gather(SaidBy(w, fetch, N), ms) = ps
  BY <1>5, <1>15, <1>16
<1>18. QED
  BY <1>8, <1>10, <1>11, <1>17 DEF N, ms, ps

\* The head is one message, or none when there is nothing in it.
LEMMA HeadOut ==
    ASSUME NEW w \in Wires, NEW fetch, NEW N, Tools \subseteq N, NEW turn \in TurnSet,
           NEW hs, hs = <<HeadMessage(turn)>> \/ (hs = <<>> /\ HeadMessage(turn).text = <<>>
                         /\ HeadMessage(turn).calls = <<>> /\ HeadMessage(turn).files = <<>>)
    PROVE  /\ hs \in Seq(BodySet(N))
           /\ Gather(SaidBy(w, fetch, N), hs) = HeadSaid(w, fetch, turn)
           /\ HeadSaid(w, fetch, turn) \in Seq(PartSet(N))
<1> DEFINE bs == turn.blocks
<1> DEFINE m == HeadMessage(turn)
<1>1. turn.role \in {"user", "assistant"} /\ bs \in Seq(BlockSet)
      /\ (OfKind(bs, "tool_use") = <<>> \/ OfKind(bs, "file") = <<>>)
  BY DEF TurnSet
<1>2. Tags(OfKind(bs, "text")) \in Seq(TagSet) /\ OfKind(bs, "file") \in Seq(FileSet)
      /\ CommonCalls(OfKind(bs, "tool_use")) \in Seq(CallSet(N))
  BY <1>1, BlocksOf, CommonCallsAre
<1>3. CommonCalls(<<>>) = <<>>
  BY DEF CommonCalls
<1>4. m.text = Tags(OfKind(bs, "text")) /\ m.calls = CommonCalls(OfKind(bs, "tool_use"))
      /\ m.files = OfKind(bs, "file") /\ m.role = turn.role
  BY DEF HeadMessage, CommonMessage
<1>5. m \in SpokenSet(N)
  <2> DEFINE a == Tags(OfKind(bs, "text"))
  <2> DEFINE b == CommonCalls(OfKind(bs, "tool_use"))
  <2> DEFINE c == OfKind(bs, "file")
  <2>1. m = [role |-> turn.role, text |-> a, calls |-> b, files |-> c]
    BY DEF HeadMessage, CommonMessage
  <2> HIDE DEF a, b, c, m
  <2>2. a \in Seq(TagSet) /\ c \in Seq(FileSet) /\ b \in Seq(CallSet(N))
    BY <1>2 DEF a, b, c
  <2>3. QED
    BY <1>1, <2>1, <2>2 DEF SpokenSet
<1>6. m \in BodySet(N) /\ m.role # "tool"
  BY <1>1, <1>3, <1>4, <1>5 DEF BodySet
<1>7. SaidBy(w, fetch, N)[m] = HeadSaid(w, fetch, turn)
  BY <1>4, <1>6 DEF SaidBy, PartsSaid, SpeechSaid, HeadSaid
<1> HIDE DEF m, bs
<1>8. HeadSaid(w, fetch, turn) \in Seq(PartSet(N))
  BY <1>6, <1>7, WireOfTyped DEF GivesSeqs
<1>9. CASE hs = <<m>>
  <2>1. <<m>> \in Seq(BodySet(N))
    BY <1>6
  <2>2. Gather(SaidBy(w, fetch, N), <<m>>) = HeadSaid(w, fetch, turn)
    BY <1>6, <1>7, WireOfTyped, GatherOne
  <2>3. QED
    BY <1>8, <1>9, <2>1, <2>2
<1>10. CASE hs = <<>> /\ m.text = <<>> /\ m.calls = <<>> /\ m.files = <<>>
  <2>1. TextParts(<<>>) = <<>> /\ CallsSaid(w, <<>>) = <<>> /\ FileParts(w, <<>>, fetch) = <<>>
    <3>1. FileParts(w, <<>>, fetch) = <<>>
      BY EmptySeq, FilePartsAre
    <3>2. QED
      BY <3>1 DEF TextParts, CallsSaid
  <2>2. Cat(Cat(<<>>, <<>>), <<>>) = <<>>
    BY CatNone, EmptySeq
  <2>3. HeadSaid(w, fetch, turn) = <<>>
    BY <1>4, <1>10, <2>1, <2>2 DEF HeadSaid, bs
  <2>4. QED
    BY <1>8, <1>10, <2>3, GatherNone, EmptySeq
<1>11. QED
  BY <1>9, <1>10 DEF m

\* The messages a turn becomes have the parts of its head and of its results, in the
\* order of the surface: translate_in puts the head first, a chat client the results.
LEMMA TurnOut ==
    ASSUME NEW w \in Wires, NEW fetch, NEW s \in {"messages", "chat"}, NEW ts, NEW turn \in TurnSet
    PROVE  /\ MessagesOf(s, ts, turn) \in Seq(BodySet(Names(ts)))
           /\ Gather(SaidBy(w, fetch, Names(ts)), MessagesOf(s, ts, turn)) = TurnSaid(w, fetch, s, ts, turn)
           /\ TurnSaid(w, fetch, s, ts, turn) \in Seq(PartSet(Names(ts)))
<1> DEFINE N == Names(ts)
<1> DEFINE bs == turn.blocks
<1> DEFINE rs == OfKind(bs, "tool_result")
<1> DEFINE text == Tags(OfKind(bs, "text"))
<1> DEFINE calls == CommonCalls(OfKind(bs, "tool_use"))
<1> DEFINE fs == OfKind(bs, "file")
<1>1. turn.role \in {"user", "assistant"} /\ bs \in Seq(BlockSet)
      /\ (OfKind(bs, "tool_use") = <<>> \/ OfKind(bs, "file") = <<>>)
  BY DEF TurnSet
<1>2. rs \in Seq(ResultBlocks)
  BY <1>1, BlocksOf
<1>3. calls = <<>> \/ fs = <<>>
  BY <1>1 DEF CommonCalls
<1>4. HeadMessage(turn) = CommonMessage(turn.role, text, calls, fs)
      /\ HeadMessage(turn).text = text /\ HeadMessage(turn).calls = calls /\ HeadMessage(turn).files = fs
  BY DEF HeadMessage, CommonMessage
<1>5. Tools \subseteq N
  BY DEF Names
<1> DEFINE hs == IF s = "messages" THEN TurnMessage(turn.role, text, calls, fs, rs = <<>>)
                 ELSE IF text = <<>> /\ calls = <<>> /\ fs = <<>> THEN <<>>
                 ELSE <<CommonMessage(turn.role, text, calls, fs)>>
<1> DEFINE tm == ToolMessages(s, ts, rs)
<1>6. hs = <<HeadMessage(turn)>> \/ (hs = <<>> /\ HeadMessage(turn).text = <<>>
         /\ HeadMessage(turn).calls = <<>> /\ HeadMessage(turn).files = <<>>)
  <2> HIDE DEF text, calls, fs, rs
  <2>1. QED
    BY <1>3, <1>4 DEF TurnMessage
<1>7. MessagesOf(s, ts, turn) = IF s = "messages" THEN Cat(hs, tm) ELSE Cat(tm, hs)
  BY DEF MessagesOf, TranslateMessage, ConvertMessage, ToolMessages, NameFor, Cat
<1>8. tm \in Seq(BodySet(N)) /\ Gather(SaidBy(w, fetch, N), tm) = BackSaid(w, s, ts, rs)
      /\ BackSaid(w, s, ts, rs) \in Seq(ResultPartSet(N))
  <2> HIDE DEF rs, hs, text, calls, fs
  <2>1. QED
    BY <1>2, BackOut
<1> HIDE DEF hs, tm, text, calls, fs, rs, bs, N
<1>9. /\ hs \in Seq(BodySet(N)) /\ Gather(SaidBy(w, fetch, N), hs) = HeadSaid(w, fetch, turn)
      /\ HeadSaid(w, fetch, turn) \in Seq(PartSet(N))
  BY <1>5, <1>6, HeadOut
<1>10. BackSaid(w, s, ts, rs) \in Seq(PartSet(N))
  BY <1>8, Wider DEF PartSet
<1>11. GivesSeqs(SaidBy(w, fetch, N), BodySet(N), PartSet(N))
  BY WireOfTyped
<1>12. TurnSaid(w, fetch, s, ts, turn)
        = IF s = "messages" THEN Cat(HeadSaid(w, fetch, turn), BackSaid(w, s, ts, rs))
          ELSE Cat(BackSaid(w, s, ts, rs), HeadSaid(w, fetch, turn))
  BY DEF TurnSaid, rs, bs
<1>13. Cat(hs, tm) \in Seq(BodySet(N)) /\ Cat(tm, hs) \in Seq(BodySet(N))
  BY <1>8, <1>9, CatTyped
<1>14. Gather(SaidBy(w, fetch, N), Cat(hs, tm)) = Cat(HeadSaid(w, fetch, turn), BackSaid(w, s, ts, rs))
  BY <1>8, <1>9, <1>11, GatherConcat
<1>15. Gather(SaidBy(w, fetch, N), Cat(tm, hs)) = Cat(BackSaid(w, s, ts, rs), HeadSaid(w, fetch, turn))
  BY <1>8, <1>9, <1>11, GatherConcat
<1>16. Cat(HeadSaid(w, fetch, turn), BackSaid(w, s, ts, rs)) \in Seq(PartSet(N))
       /\ Cat(BackSaid(w, s, ts, rs), HeadSaid(w, fetch, turn)) \in Seq(PartSet(N))
  BY <1>9, <1>10, CatTyped
<1>17. QED
  BY <1>7, <1>12, <1>13, <1>14, <1>15, <1>16 DEF N

-----------------------------------------------------------------------------
(* A conversation, all its turns.                                          *)

\* All that becomes of the turns.
CommonOf(s, ts) == IF s = "messages" THEN ToCommon(ts) ELSE ConvertMessages(ts)
BodyOf(s, ts) == [turn \in TurnSet |-> MessagesOf(s, ts, turn)]
SaidAll(w, fetch, s, ts) == [turn \in TurnSet |-> TurnSaid(w, fetch, s, ts, turn)]

\* The common messages are the system's and those of each turn.
LEMMA BodyIs ==
    ASSUME NEW s \in {"messages", "chat"}, NEW ts \in Seq(TurnSet)
    PROVE  /\ GivesSeqs(BodyOf(s, ts), TurnSet, BodySet(Names(ts)))
           /\ CommonOf(s, ts) = <<SystemMessage>> \o Gather(BodyOf(s, ts), ts)
           /\ Gather(BodyOf(s, ts), ts) \in Seq(BodySet(Names(ts)))
<1>1. GivesSeqs(BodyOf(s, ts), TurnSet, BodySet(Names(ts)))
  <2>1. "responses" \in Wires
    BY DEF Wires
  <2>2. \A turn \in TurnSet : MessagesOf(s, ts, turn) \in Seq(BodySet(Names(ts)))
    BY <2>1, TurnOut
  <2>3. QED
    BY <2>2 DEF BodyOf, GivesSeqs
<1>2. \A i \in DOMAIN ts : ts[i] \in TurnSet
  BY ElementOfSeq, LenProperties
<1>3. [i \in DOMAIN ts |-> MessagesOf(s, ts, ts[i])] = [i \in DOMAIN ts |-> BodyOf(s, ts)[ts[i]]]
  BY <1>2 DEF BodyOf
<1>4. CommonOf(s, ts) = <<SystemMessage>> \o FlattenSeq([i \in DOMAIN ts |-> MessagesOf(s, ts, ts[i])])
  <2>1. CASE s = "messages"
    BY <2>1 DEF CommonOf, ToCommon, Each, MessagesOf
  <2>2. CASE s # "messages"
    BY <2>2 DEF CommonOf, ConvertMessages, Each, MessagesOf
  <2>3. QED
    BY <2>1, <2>2
<1>5. CommonOf(s, ts) = <<SystemMessage>> \o Gather(BodyOf(s, ts), ts)
  BY <1>3, <1>4 DEF Gather
<1>6. QED
  BY <1>1, <1>5, GatherTyped

\* Each turn gives parts.
LEMMA SaidAllTyped ==
    ASSUME NEW s \in {"messages", "chat"}, NEW ts, NEW w \in Wires, NEW fetch
    PROVE  GivesSeqs(SaidAll(w, fetch, s, ts), TurnSet, PartSet(Names(ts)))
BY TurnOut DEF SaidAll, GivesSeqs

\* What is heard of a request are the parts of the turns, one turn after the other, and
\* the system prompt is in one place.
LEMMA TurnsHeard ==
    ASSUME NEW s \in {"messages", "chat"}, NEW ts \in Seq(TurnSet), NEW w \in Wires, NEW fetch
    PROVE  LET r == Request(w, CommonOf(s, ts), fetch)
           IN  /\ Heard(r.messages) = Gather(SaidAll(w, fetch, s, ts), ts)
               /\ r.system \o Tags(Prompted(r.messages)) = SystemMessage.text
<1> DEFINE N == Names(ts)
<1> DEFINE body == Gather(BodyOf(s, ts), ts)
<1>1. body \in Seq(BodySet(N)) /\ GivesSeqs(BodyOf(s, ts), TurnSet, BodySet(N))
      /\ CommonOf(s, ts) = <<SystemMessage>> \o body
  BY BodyIs
<1>2. Composed(SaidAll(w, fetch, s, ts), SaidBy(w, fetch, N), BodyOf(s, ts), TurnSet)
  BY TurnOut DEF SaidAll, BodyOf, Composed
<1>3. GivesSeqs(SaidBy(w, fetch, N), BodySet(N), PartSet(N))
  BY WireOfTyped
<1> HIDE DEF N
<1>4. Gather(SaidBy(w, fetch, N), body) = Gather(SaidAll(w, fetch, s, ts), ts)
  BY <1>1, <1>2, <1>3, GatherThrough
<1> HIDE DEF body
<1>5. LET r == Request(w, <<SystemMessage>> \o body, fetch)
      IN  /\ Heard(r.messages) = Gather(SaidBy(w, fetch, N), body)
          /\ r.system \o Tags(Prompted(r.messages)) = SystemMessage.text
  BY <1>1, RequestHeard
<1>6. QED
  BY <1>1, <1>4, <1>5

\* A part is of one kind, and has a tag.
LEMMA PartKinds ==
    ASSUME NEW N
    PROVE  /\ \A p \in TextPartSet : p.kind = "text" /\ p.tag \in TagSet
           /\ \A p \in FilePartSet : p.kind = "file" /\ p.tag \in TagSet
           /\ \A p \in CallPartSet(N) : p.kind = "call" /\ p.tag \in TagSet
           /\ \A p \in ResultPartSet(N) : p.kind = "result" /\ p.tag \in TagSet
           /\ Tagged(PartSet(N), TagSet)
<1>1. \A p \in TextPartSet : p.kind = "text" /\ p.tag \in TagSet
  BY DEF TextPartSet
<1>2. \A p \in FilePartSet : p.kind = "file" /\ p.tag \in TagSet
  BY DEF FilePartSet
<1>3. \A p \in CallPartSet(N) : p.kind = "call" /\ p.tag \in TagSet
  BY DEF CallPartSet
<1>4. \A p \in ResultPartSet(N) : p.kind = "result" /\ p.tag \in TagSet
  BY DEF ResultPartSet
<1>5. QED
  BY <1>1, <1>2, <1>3, <1>4 DEF PartSet, Tagged

\* Of a concatenation of texts, calls, files and results each kind can be told.
LEMMA KindsTold ==
    ASSUME NEW N, NEW T \in Seq(TextPartSet), NEW C \in Seq(CallPartSet(N)), NEW F \in Seq(FilePartSet),
           NEW R \in Seq(ResultPartSet(N)), NEW ps, ps = Cat(Cat(Cat(T, C), F), R) \/ ps = Cat(R, Cat(Cat(T, C), F))
    PROVE  OfKind(ps, "text") = T /\ OfKind(ps, "call") = C /\ OfKind(ps, "result") = R
<1> DEFINE P == PartSet(N)
<1>1. T \in Seq(P) /\ C \in Seq(P) /\ F \in Seq(P) /\ R \in Seq(P)
  BY Wider DEF PartSet
<1> HIDE DEF P
<1>2. Cat(T, C) \in Seq(P) /\ Cat(Cat(T, C), F) \in Seq(P)
  BY <1>1, CatTyped
<1>3. ASSUME NEW k
      PROVE  OfKind(ps, k) = Cat(Cat(Cat(OfKind(T, k), OfKind(C, k)), OfKind(F, k)), OfKind(R, k))
             \/ OfKind(ps, k) = Cat(OfKind(R, k), Cat(Cat(OfKind(T, k), OfKind(C, k)), OfKind(F, k)))
  <2>1. OfKind(Cat(T, C), k) = Cat(OfKind(T, k), OfKind(C, k))
    BY <1>1, OfKindConcat
  <2>2. OfKind(Cat(Cat(T, C), F), k) = Cat(OfKind(Cat(T, C), k), OfKind(F, k))
    BY <1>1, <1>2, OfKindConcat
  <2>3. OfKind(Cat(Cat(Cat(T, C), F), R), k) = Cat(OfKind(Cat(Cat(T, C), F), k), OfKind(R, k))
    BY <1>1, <1>2, OfKindConcat
  <2>4. OfKind(Cat(R, Cat(Cat(T, C), F)), k) = Cat(OfKind(R, k), OfKind(Cat(Cat(T, C), F), k))
    BY <1>1, <1>2, OfKindConcat
  <2>5. QED
    BY <2>1, <2>2, <2>3, <2>4
<1>4. OfKind(T, "text") = T /\ OfKind(T, "call") = <<>> /\ OfKind(T, "result") = <<>>
  <2>1. \A p \in TextPartSet : p.kind = "text" /\ p.kind # "call" /\ p.kind # "result"
    BY PartKinds
  <2>2. OfKind(T, "text") = T
    BY <2>1, OfKindAll
  <2>3. OfKind(T, "call") = <<>>
    BY <2>1, OfKindOther
  <2>4. OfKind(T, "result") = <<>>
    BY <2>1, OfKindOther
  <2>5. QED
    BY <2>2, <2>3, <2>4
<1>5. OfKind(C, "text") = <<>> /\ OfKind(C, "call") = C /\ OfKind(C, "result") = <<>>
  <2>1. \A p \in CallPartSet(N) : p.kind # "text" /\ p.kind = "call" /\ p.kind # "result"
    BY PartKinds
  <2>2. OfKind(C, "text") = <<>>
    BY <2>1, OfKindOther
  <2>3. OfKind(C, "call") = C
    BY <2>1, OfKindAll
  <2>4. OfKind(C, "result") = <<>>
    BY <2>1, OfKindOther
  <2>5. QED
    BY <2>2, <2>3, <2>4
<1>6. OfKind(F, "text") = <<>> /\ OfKind(F, "call") = <<>> /\ OfKind(F, "result") = <<>>
  <2>1. \A p \in FilePartSet : p.kind # "text" /\ p.kind # "call" /\ p.kind # "result"
    BY PartKinds
  <2>2. QED
    BY <2>1, OfKindOther
<1>7. OfKind(R, "text") = <<>> /\ OfKind(R, "call") = <<>> /\ OfKind(R, "result") = R
  <2>1. \A p \in ResultPartSet(N) : p.kind # "text" /\ p.kind # "call" /\ p.kind = "result"
    BY PartKinds
  <2>2. OfKind(R, "text") = <<>>
    BY <2>1, OfKindOther
  <2>3. OfKind(R, "call") = <<>>
    BY <2>1, OfKindOther
  <2>4. OfKind(R, "result") = R
    BY <2>1, OfKindAll
  <2>5. QED
    BY <2>2, <2>3, <2>4
<1>8. \A x \in Seq(P) : Cat(x, <<>>) = x /\ Cat(<<>>, x) = x
  BY CatNone
<1>9. <<>> \in Seq(P)
  BY EmptySeq
<1>10. /\ Cat(<<>>, <<>>) = <<>> /\ Cat(T, <<>>) = T /\ Cat(<<>>, T) = T
       /\ Cat(C, <<>>) = C /\ Cat(<<>>, C) = C /\ Cat(R, <<>>) = R /\ Cat(<<>>, R) = R
  BY <1>1, <1>8, <1>9
<1>11. OfKind(ps, "text") = T
  BY <1>3, <1>4, <1>5, <1>6, <1>7, <1>10
<1>12. OfKind(ps, "call") = C
  BY <1>3, <1>4, <1>5, <1>6, <1>7, <1>10
<1>13. OfKind(ps, "result") = R
  BY <1>3, <1>4, <1>5, <1>6, <1>7, <1>10
<1>14. QED
  BY <1>11, <1>12, <1>13

\* The parts have the texts, calls and results of the blocks.
SameWords(ps, bs) ==
    /\ Tags(OfKind(ps, "text")) = Tags(OfKind(bs, "text"))
    /\ Tags(OfKind(ps, "call")) = Tags(OfKind(bs, "tool_use"))
    /\ Tags(OfKind(ps, "result")) = Tags(OfKind(bs, "tool_result"))

\* A turn's parts have its texts, calls and results, whatever the wire and the surface.
LEMMA TurnWords ==
    ASSUME NEW w \in Wires, NEW fetch, NEW s \in {"messages", "chat"}, NEW ts, NEW turn \in TurnSet
    PROVE  SameWords(TurnSaid(w, fetch, s, ts, turn), turn.blocks)
<1> DEFINE N == Names(ts)
<1> DEFINE bs == turn.blocks
<1> DEFINE text == Tags(OfKind(bs, "text"))
<1> DEFINE calls == CommonCalls(OfKind(bs, "tool_use"))
<1> DEFINE fs == OfKind(bs, "file")
<1> DEFINE rs == OfKind(bs, "tool_result")
<1> DEFINE T == TextParts(text)
<1> DEFINE C == CallsSaid(w, calls)
<1> DEFINE F == FileParts(w, fs, fetch)
<1> DEFINE R == BackSaid(w, s, ts, rs)
<1> DEFINE ps == TurnSaid(w, fetch, s, ts, turn)
<1>1. bs \in Seq(BlockSet)
  BY DEF TurnSet
<1>2. text \in Seq(TagSet) /\ fs \in Seq(FileSet) /\ rs \in Seq(ResultBlocks) /\ OfKind(bs, "tool_use") \in Seq(CallBlocks)
  BY <1>1, BlocksOf
<1>3. Tools \subseteq N
  BY DEF Names
<1>4. calls \in Seq(CallSet(N)) /\ Tags(calls) = Tags(OfKind(bs, "tool_use"))
  BY <1>2, <1>3, CommonCallsAre
<1>5. ps = Cat(Cat(Cat(T, C), F), R) \/ ps = Cat(R, Cat(Cat(T, C), F))
  BY DEF TurnSaid, HeadSaid
<1>6. R \in Seq(ResultPartSet(N)) /\ Tags(R) = Tags(rs)
  BY <1>2, BackOut
<1>7. T \in Seq(TextPartSet) /\ Tags(T) = text
  BY <1>2, TextPartsAre
<1>8. F \in Seq(FilePartSet)
  BY <1>2, FilePartsAre
<1> HIDE DEF N, bs, text, calls, fs, rs, ps
<1>9. C \in Seq(CallPartSet(N)) /\ Tags(C) = Tags(calls)
  BY <1>4, CallsSaidAre
<1> HIDE DEF T, C, F, R
<1>10. OfKind(ps, "text") = T /\ OfKind(ps, "call") = C /\ OfKind(ps, "result") = R
  BY <1>5, <1>6, <1>7, <1>8, <1>9, KindsTold
<1>11. QED
  BY <1>4, <1>6, <1>7, <1>9, <1>10 DEF ps, bs, text, rs, SameWords

\* The blocks whose parts are of this kind.
BlockFor(k) == IF k = "call" THEN "tool_use" ELSE IF k = "result" THEN "tool_result" ELSE "text"

\* The tags of one kind of block, turn by turn.
WordsOf(ts, k) == Each(ts, LAMBDA turn : Tags(OfKind(turn.blocks, k)))

\* So have those of the whole conversation.
LEMMA WordsSaid ==
    ASSUME NEW w \in Wires, NEW fetch, NEW s \in {"messages", "chat"}, NEW ts \in Seq(TurnSet),
           NEW k \in {"text", "call", "result"}
    PROVE  Tags(OfKind(Gather(SaidAll(w, fetch, s, ts), ts), k)) = WordsOf(ts, BlockFor(k))
<1>0. \A turn \in TurnSet : SameWords(TurnSaid(w, fetch, s, ts, turn), turn.blocks)
  BY TurnWords
<1> DEFINE b == BlockFor(k)
<1> DEFINE P == PartSet(Names(ts))
<1> DEFINE f == SaidAll(w, fetch, s, ts)
<1> DEFINE h == [turn \in TurnSet |-> Tags(OfKind(turn.blocks, b))]
<1>1. GivesSeqs(f, TurnSet, P)
  BY SaidAllTyped
<1>2. Tagged(P, TagSet)
  BY PartKinds
<1>3. GivesSeqs(TagOf(k, P), P, TagSet)
  BY <1>2, TagOfTyped
<1> HIDE DEF b
<1>4. ASSUME NEW turn \in TurnSet PROVE h[turn] = Gather(TagOf(k, P), f[turn])
  <2>1. f[turn] = TurnSaid(w, fetch, s, ts, turn) /\ f[turn] \in Seq(P)
    BY TurnOut DEF SaidAll
  <2>2. Tags(OfKind(f[turn], k)) = Gather(TagOf(k, P), f[turn])
    <3> HIDE DEF P, f
    <3>1. QED
      BY <1>2, <2>1, KindTags
  <2>3. Tags(OfKind(f[turn], k)) = Tags(OfKind(turn.blocks, b))
    <3>1. \/ k = "text" /\ b = "text"
          \/ k = "call" /\ b = "tool_use"
          \/ k = "result" /\ b = "tool_result"
      BY DEF BlockFor, b
    <3>2. QED
      BY <1>0, <2>1, <3>1 DEF SameWords
  <2>4. QED
    BY <2>2, <2>3
<1>5. \A i \in DOMAIN ts : ts[i] \in TurnSet
  BY ElementOfSeq, LenProperties
<1>6. [i \in DOMAIN ts |-> Tags(OfKind(ts[i].blocks, b))] = [i \in DOMAIN ts |-> h[ts[i]]]
  BY <1>5
<1> HIDE DEF P, f, h, b
<1>7. Composed(h, TagOf(k, P), f, TurnSet)
  BY <1>4 DEF Composed
<1>8. Gather(TagOf(k, P), Gather(f, ts)) = Gather(h, ts)
  BY <1>1, <1>3, <1>7, GatherThrough
<1>9. Gather(f, ts) \in Seq(P)
  BY <1>1, GatherTyped
<1>10. Tags(OfKind(Gather(f, ts), k)) = Gather(h, ts)
  BY <1>2, <1>8, <1>9, KindTags
<1>11. QED
  BY <1>6, <1>10 DEF WordsOf, Each, Gather, f, b

-----------------------------------------------------------------------------
(* The turns a conversation is made of: what every step keeps.             *)

\* The turns a conversation is made of.
ResultsBack(t, calls, shown) == [i \in DOMAIN calls |-> Result(<<t, i>>, calls[i], i = 1 /\ shown)]

\* A user's turn returns the results of the calls before it, if there are any, in their order.
UserTurn(s, turn, t, calls) ==
    /\ turn.role = "user"
    /\ OfKind(turn.blocks, "tool_use") = <<>>
    /\ \/ OfKind(turn.blocks, "text") = <<>>
       \/ OfKind(turn.blocks, "text") = <<Text(<<t, Len(calls) + 1>>)>>
    /\ \/ OfKind(turn.blocks, "file") = <<>>
       \/ \E f \in Attachments(s), z \in {0, Len(calls) + 2} :
             OfKind(turn.blocks, "file") = <<File(<<t, z>>, f)>>
    /\ \E shown \in BOOLEAN :
          OfKind(turn.blocks, "tool_result") = ResultsBack(t, calls, shown)

\* The calls an answer makes, on the wire it came by.
CallsMade(w, t, names, signed) ==
    [i \in DOMAIN names |-> Call(<<t, 1 + i>>, Issued(w, t, i), names[i],
                                 IF signed /\ i = 1 THEN <<t, 1 + i>> ELSE NoSig)]

\* An answer has a text, calls, or both.
AnswerTurn(turn, t) ==
    /\ turn.role = "assistant"
    /\ \/ OfKind(turn.blocks, "text") = <<>>
       \/ OfKind(turn.blocks, "text") = <<Text(<<t, 1>>)>>
    /\ OfKind(turn.blocks, "file") = <<>>
    /\ OfKind(turn.blocks, "tool_result") = <<>>
    /\ \E w \in Wires, names \in Seq(Tools), signed \in BOOLEAN :
          OfKind(turn.blocks, "tool_use") = CallsMade(w, t, names, signed)

\* The calls of the turn before.
CallsBefore(ts, t) == IF t = 1 THEN <<>> ELSE OfKind(ts[t - 1].blocks, "tool_use")

\* Turns take turns: the user's after an answer or at the start, an answer after the user's.
TurnAt(s, ts, t) ==
    \/ UserTurn(s, ts[t], t, CallsBefore(ts, t)) /\ (t # 1 => ts[t - 1].role = "assistant")
    \/ AnswerTurn(ts[t], t) /\ t # 1 /\ ts[t - 1].role = "user"

\* Every turn is one of the two.
TurnsInv(s, ts) == ts \in Seq(TurnSet) /\ \A t \in 1 .. Len(ts) : TurnAt(s, ts, t)

\* While a request is out, the last turn is the user's, and the request is the one these
\* turns come to, with files that were checked and placed.
SentInv ==
    Out => /\ turns # <<>> /\ turns[Len(turns)].role = "user" /\ wire \in Wires
           /\ \E stream \in Modes(wire), a \in Shown(wire, AllFiles(Common)), fetch \in Fetches :
                 /\ Verdict(wire, stream, a, AllFiles(Common), fetch) = "sent"
                 /\ sent = Request(wire, Common, fetch)

\* The inductive invariant of a conversation.
TalkInv == surface \in {"messages", "chat"} /\ TurnsInv(surface, turns) /\ SentInv

\* A sequence of blocks of one kind.
Pure(s, k) == s \in Seq(BlockSet) /\ \A j : OfKind(s, j) = IF j = k THEN s ELSE <<>>

\* A sequence of blocks of one kind is pure.
LEMMA PureSeq ==
    ASSUME NEW S, S \subseteq BlockSet, NEW k, \A b \in S : b.kind = k, NEW s \in Seq(S)
    PROVE  Pure(s, k)
<1>1. s \in Seq(BlockSet)
  BY Wider
<1>2. OfKind(s, k) = s
  BY OfKindAll
<1>3. ASSUME NEW j, j # k PROVE OfKind(s, j) = <<>>
  <2>1. \A b \in S : b.kind # j
    BY <1>3
  <2>2. QED
    BY <2>1, OfKindOther
<1>4. QED
  BY <1>1, <1>2, <1>3 DEF Pure

\* Nothing is pure of any kind.
LEMMA PureNone ==
    ASSUME NEW k
    PROVE  Pure(<<>>, k)
BY OfKindNone, EmptySeq DEF Pure

\* One block is pure.
LEMMA PureOne ==
    ASSUME NEW b \in BlockSet
    PROVE  Pure(<<b>>, b.kind)
<1>1. <<b>> \in Seq({b})
  OBVIOUS
<1>2. QED
  BY <1>1, PureSeq

\* bs has a of kind j, b of kind k, c of kind l, and nothing else.
Holds(bs, j, a, k, b, l, c) ==
    /\ bs \in Seq(BlockSet)
    /\ OfKind(bs, j) = a /\ OfKind(bs, k) = b /\ OfKind(bs, l) = c
    /\ \A m : m \notin {j, k, l} => OfKind(bs, m) = <<>>

\* Three pure sequences of different kinds, joined, have one another's kinds apart.
LEMMA ThreeKinds ==
    ASSUME NEW j, NEW k, NEW l, j # k, j # l, k # l, NEW a, Pure(a, j), NEW b, Pure(b, k), NEW c, Pure(c, l)
    PROVE  Holds(Cat(Cat(a, b), c), j, a, k, b, l, c)
<1> DEFINE bs == Cat(Cat(a, b), c)
<1>1. a \in Seq(BlockSet) /\ b \in Seq(BlockSet) /\ c \in Seq(BlockSet) /\ Cat(a, b) \in Seq(BlockSet) /\ bs \in Seq(BlockSet)
  <2>1. a \in Seq(BlockSet) /\ b \in Seq(BlockSet) /\ c \in Seq(BlockSet)
    BY DEF Pure
  <2>2. QED
    BY <2>1, CatTyped
<1>2. \A m : OfKind(bs, m) = Cat(Cat(OfKind(a, m), OfKind(b, m)), OfKind(c, m))
  BY <1>1, OfKindConcat
<1>3. /\ \A m : OfKind(a, m) = IF m = j THEN a ELSE <<>>
      /\ \A m : OfKind(b, m) = IF m = k THEN b ELSE <<>>
      /\ \A m : OfKind(c, m) = IF m = l THEN c ELSE <<>>
  BY DEF Pure
<1>4. Cat(<<>>, <<>>) = <<>> /\ Cat(a, <<>>) = a /\ Cat(<<>>, b) = b /\ Cat(b, <<>>) = b /\ Cat(<<>>, c) = c
  BY <1>1, EmptySeq, CatNone
<1> HIDE DEF bs
<1>5. Holds(bs, j, a, k, b, l, c)
  BY <1>1, <1>2, <1>3, <1>4 DEF Holds
<1>6. QED
  BY <1>5 DEF bs

\* A text, a thinking block and a file are blocks of their kinds.
LEMMA PiecesPure ==
    ASSUME NEW t \in Nat, NEW n \in Nat
    PROVE  /\ Text(<<t, n>>) \in TextBlocks /\ Pure(<<Text(<<t, n>>)>>, "text")
           /\ Pure(<<Thinking(<<t, n>>)>>, "thinking")
           /\ \A s \in {"messages", "chat"} : \A f \in Attachments(s) :
                 File(<<t, n>>, f) \in FileSet /\ Pure(<<File(<<t, n>>, f)>>, "file")
<1>1. <<t, n>> \in TagSet
  BY DEF TagSet
<1>2. Text(<<t, n>>) \in TextBlocks /\ Text(<<t, n>>).kind = "text"
  BY <1>1 DEF Text, TextBlocks
<1>3. Thinking(<<t, n>>) \in ThinkBlocks /\ Thinking(<<t, n>>).kind = "thinking"
  BY <1>1 DEF Thinking, ThinkBlocks
<1>4. ASSUME NEW s \in {"messages", "chat"}, NEW f \in Attachments(s)
      PROVE  File(<<t, n>>, f) \in FileSet /\ File(<<t, n>>, f).kind = "file"
  <2>1. f.type \in Types /\ f.source \in {"base64", "url", "file_id"}
    BY DEF Attachments
  <2>2. QED
    BY <1>1, <2>1 DEF File, FileSet
<1>5. TextBlocks \subseteq BlockSet /\ ThinkBlocks \subseteq BlockSet /\ FileSet \subseteq BlockSet
  BY DEF BlockSet
<1>6. Pure(<<Text(<<t, n>>)>>, "text")
  <2> DEFINE b == Text(<<t, n>>)
  <2>1. b \in BlockSet /\ b.kind = "text"
    BY <1>2, <1>5
  <2> HIDE DEF b
  <2>2. Pure(<<b>>, "text")
    BY <2>1, PureOne
  <2>3. QED
    BY <2>2 DEF b
<1>7. Pure(<<Thinking(<<t, n>>)>>, "thinking")
  <2> DEFINE b == Thinking(<<t, n>>)
  <2>1. b \in BlockSet /\ b.kind = "thinking"
    BY <1>3, <1>5
  <2> HIDE DEF b
  <2>2. Pure(<<b>>, "thinking")
    BY <2>1, PureOne
  <2>3. QED
    BY <2>2 DEF b
<1>8. ASSUME NEW s \in {"messages", "chat"}, NEW f \in Attachments(s)
      PROVE  Pure(<<File(<<t, n>>, f)>>, "file")
  <2> DEFINE b == File(<<t, n>>, f)
  <2>1. b \in BlockSet /\ b.kind = "file"
    BY <1>4, <1>5
  <2> HIDE DEF b
  <2>2. Pure(<<b>>, "file")
    BY <2>1, PureOne
  <2>3. QED
    BY <2>2 DEF b
<1>9. QED
  BY <1>2, <1>4, <1>6, <1>7, <1>8

\* The calls of an answer are call blocks.
LEMMA CallsPure ==
    ASSUME NEW w \in Wires, NEW t \in Nat, NEW names \in Seq(Tools), NEW signed \in BOOLEAN
    PROVE  CallsMade(w, t, names, signed) \in Seq(CallBlocks) /\ Pure(CallsMade(w, t, names, signed), "tool_use")
<1> DEFINE cs == CallsMade(w, t, names, signed)
<1>1. DOMAIN names = 1 .. Len(names) /\ Len(names) \in Nat /\ \A i \in DOMAIN names : names[i] \in Tools
  BY LenProperties, ElementOfSeq
<1>2. DOMAIN cs = DOMAIN names /\ cs = [i \in DOMAIN cs |-> cs[i]]
      /\ \A i \in DOMAIN names : cs[i] = Call(<<t, 1 + i>>, Issued(w, t, i), names[i],
                                              IF signed /\ i = 1 THEN <<t, 1 + i>> ELSE NoSig)
  BY DEF CallsMade
<1> HIDE DEF cs
<1>3. \A i \in DOMAIN names : cs[i] \in CallBlocks
  <2> TAKE i \in DOMAIN names
  <2>1. <<t, 1 + i>> \in TagSet /\ NoSig \in TagSet
    BY <1>1 DEF TagSet, NoSig
  <2>2. Issued(w, t, i) \in IdSet
    BY <1>1 DEF Issued, GeminiId, ProviderId, IdSet
  <2>3. QED
    <3> DEFINE sig == IF signed /\ i = 1 THEN <<t, 1 + i>> ELSE NoSig
    <3>1. cs[i] = [kind |-> "tool_use", tag |-> <<t, 1 + i>>, id |-> Issued(w, t, i), name |-> names[i], sig |-> sig]
      BY <1>2 DEF Call
    <3>2. sig \in TagSet /\ names[i] \in Tools
      BY <1>1, <2>1
    <3> HIDE DEF sig
    <3>3. QED
      BY <2>1, <2>2, <3>1, <3>2 DEF CallBlocks
<1>4. cs \in Seq(CallBlocks)
  BY <1>2, <1>3, MapTyped
<1>5. CallBlocks \subseteq BlockSet /\ \A b \in CallBlocks : b.kind = "tool_use"
  BY DEF BlockSet, CallBlocks
<1>6. QED
  BY <1>4, <1>5, PureSeq DEF cs

\* The results that come back are result blocks.
LEMMA ResultsPure ==
    ASSUME NEW t \in Nat, NEW calls \in Seq(CallBlocks), NEW shown \in BOOLEAN,
           NEW rs, rs = ResultsBack(t, calls, shown)
    PROVE  rs \in Seq(ResultBlocks) /\ Pure(rs, "tool_result")
<1>1. DOMAIN calls = 1 .. Len(calls) /\ Len(calls) \in Nat /\ \A i \in DOMAIN calls : calls[i] \in CallBlocks
  BY LenProperties, ElementOfSeq
<1>2. DOMAIN rs = DOMAIN calls /\ rs = [i \in DOMAIN rs |-> rs[i]]
      /\ \A i \in DOMAIN calls : rs[i] = Result(<<t, i>>, calls[i], i = 1 /\ shown)
  BY DEF ResultsBack
<1>3. \A i \in DOMAIN calls : rs[i] \in ResultBlocks
  <2> TAKE i \in DOMAIN calls
  <2>1. <<t, i>> \in TagSet
    BY <1>1 DEF TagSet
  <2>2. calls[i].id \in IdSet /\ calls[i].sig \in TagSet /\ calls[i].name \in Tools /\ calls[i].tag \in TagSet
    BY <1>1 DEF CallBlocks
  <2> DEFINE sh == (i = 1 /\ shown)
  <2>3. rs[i] = [kind |-> "tool_result", tag |-> <<t, i>>, id |-> calls[i].id, sig |-> calls[i].sig,
                 name |-> calls[i].name, of |-> calls[i].tag, shown |-> sh] /\ sh \in BOOLEAN
    BY <1>2 DEF Result
  <2> HIDE DEF sh
  <2>4. QED
    BY <2>1, <2>2, <2>3 DEF ResultBlocks
<1>4. rs \in Seq(ResultBlocks)
  BY <1>2, <1>3, MapTyped
<1>5. ResultBlocks \subseteq BlockSet /\ \A b \in ResultBlocks : b.kind = "tool_result"
  BY DEF BlockSet, ResultBlocks
<1>6. QED
  BY <1>4, <1>5, PureSeq

\* A turn that fits keeps the turns in order.
LEMMA TurnAppended ==
    ASSUME NEW s, NEW ts, TurnsInv(s, ts), NEW turn \in TurnSet, TurnAt(s, Append(ts, turn), Len(ts) + 1)
    PROVE  TurnsInv(s, Append(ts, turn))
<1> DEFINE us == Append(ts, turn)
<1>1. ts \in Seq(TurnSet) /\ Len(ts) \in Nat /\ us \in Seq(TurnSet) /\ Len(us) = Len(ts) + 1
      /\ \A t \in 1 .. Len(ts) : us[t] = ts[t]
  BY LenProperties, AppendProperties DEF TurnsInv
<1> HIDE DEF us
<1>2. ASSUME NEW t \in 1 .. Len(ts) PROVE TurnAt(s, us, t)
  <2>1. TurnAt(s, ts, t)
    BY DEF TurnsInv
  <2>2. us[t] = ts[t] /\ (t # 1 => us[t - 1] = ts[t - 1])
    BY <1>1
  <2>3. CallsBefore(us, t) = CallsBefore(ts, t)
    BY <2>2 DEF CallsBefore
  <2>4. QED
    BY <2>1, <2>2, <2>3 DEF TurnAt
<1>3. QED
  BY <1>1, <1>2 DEF TurnsInv, us

\* The calls the last turn made.
OpenCalls == IF turns = <<>> THEN <<>> ELSE OfKind(turns[Len(turns)].blocks, "tool_use")

\* The turns with one more.
Spoke(r, bs) == Append(turns, [role |-> r, blocks |-> bs])

\* What the user may add, the results of the open calls first.
UserBlocks(calls, shown, says, f, z, R, T, F, bs) ==
    /\ shown \in BOOLEAN /\ says \in BOOLEAN
    /\ f \in Attachments(surface) \cup {NoFile} /\ z \in {0, Len(calls) + 2}
    /\ R = ResultsBack(NextTurn, calls, shown)
    /\ T = IF says THEN <<Text(<<NextTurn, Len(calls) + 1>>)>> ELSE <<>>
    /\ F = IF f = NoFile THEN <<>> ELSE <<File(<<NextTurn, z>>, f)>>
    /\ bs = Cat(Cat(R, T), F) \/ bs = Cat(Cat(R, F), T)

\* The user may speak at the start and after an answer.
UserMay == TurnsInv(surface, turns) /\ surface \in {"messages", "chat"}
           /\ (turns # <<>> => turns[Len(turns)].role = "assistant")

\* What the user adds is a user's turn.
LEMMA UserTurnSpoken ==
    ASSUME UserMay, NEW calls, calls = OpenCalls, NEW shown, NEW says, NEW f, NEW z, NEW R, NEW T, NEW F, NEW bs,
           UserBlocks(calls, shown, says, f, z, R, T, F, bs)
    PROVE  TurnsInv(surface, Spoke("user", bs))
<1> USE DEF UserBlocks, UserMay
<1> DEFINE turn == [role |-> "user", blocks |-> bs]
<1> DEFINE us == Append(turns, turn)
<1>1. turns \in Seq(TurnSet) /\ Len(turns) \in Nat /\ NextTurn \in Nat /\ NextTurn = Len(turns) + 1
      /\ (turns = <<>> <=> NextTurn = 1)
  BY LenProperties, EmptySeq DEF TurnsInv, NextTurn
<1>2. CallsBefore(us, NextTurn) = calls /\ us[NextTurn] = turn
      /\ (NextTurn # 1 => us[NextTurn - 1] = turns[Len(turns)])
  <2>1. us[NextTurn] = turn
    BY <1>1
  <2>2. NextTurn # 1 => us[NextTurn - 1] = turns[NextTurn - 1]
    BY <1>1
  <2>3. NextTurn - 1 = Len(turns)
    BY <1>1
  <2> HIDE DEF us, turn
  <2>4. QED
    BY <1>1, <2>1, <2>2, <2>3 DEF CallsBefore, OpenCalls
<1>3. calls \in Seq(CallBlocks) /\ Len(calls) \in Nat
  <2>1. CASE NextTurn = 1
    <3>1. calls = <<>>
      BY <1>1, <2>1 DEF OpenCalls
    <3>2. QED
      BY <3>1, EmptySeq
  <2>2. CASE NextTurn # 1
    <3>1. calls = OfKind(turns[Len(turns)].blocks, "tool_use")
      BY <1>1, <2>2 DEF OpenCalls
    <3>2. turns[Len(turns)] \in TurnSet
      BY <1>1, <2>2
    <3>3. turns[Len(turns)].blocks \in Seq(BlockSet)
      BY <3>2 DEF TurnSet
    <3>4. calls \in Seq(CallBlocks)
      BY <3>1, <3>3, BlocksOf
    <3>5. QED
      BY <3>4, LenProperties
  <2>3. QED
    BY <2>1, <2>2
<1>4. Pure(R, "tool_result")
  BY <1>1, <1>3, ResultsPure
<1>5. Pure(T, "text")
  <2>1. Len(calls) + 1 \in Nat
    BY <1>3
  <2>2. CASE says
    BY <1>1, <2>1, <2>2, PiecesPure
  <2>3. CASE ~says
    BY <2>3, PureNone
  <2>4. QED
    BY <2>2, <2>3
<1>6. Pure(F, "file")
  <2>1. z \in Nat
    BY <1>3
  <2>2. QED
    BY <1>1, <2>1, PiecesPure, PureNone
<1>7. /\ bs \in Seq(BlockSet)
      /\ OfKind(bs, "tool_result") = R /\ OfKind(bs, "text") = T /\ OfKind(bs, "file") = F
      /\ OfKind(bs, "tool_use") = <<>>
  <2>1. CASE bs = Cat(Cat(R, T), F)
    <3>1. Holds(bs, "tool_result", R, "text", T, "file", F)
      BY <1>4, <1>5, <1>6, <2>1, ThreeKinds
    <3>2. QED
      BY <3>1 DEF Holds
  <2>2. CASE bs = Cat(Cat(R, F), T)
    <3>1. Holds(bs, "tool_result", R, "file", F, "text", T)
      BY <1>4, <1>5, <1>6, <2>2, ThreeKinds
    <3>2. QED
      BY <3>1 DEF Holds
  <2>3. QED
    BY <2>1, <2>2
<1>8. turn.role = "user" /\ turn.blocks = bs
  OBVIOUS
<1>9. turn \in TurnSet
  BY <1>7 DEF TurnSet
<1>10. F = <<>> \/ \E g \in Attachments(surface), y \in {0, Len(calls) + 2} : F = <<File(<<NextTurn, y>>, g)>>
  OBVIOUS
<1> HIDE DEF turn, us
<1>11. UserTurn(surface, turn, NextTurn, calls)
  BY <1>7, <1>8, <1>10 DEF UserTurn
<1>12. TurnAt(surface, us, NextTurn)
  BY <1>1, <1>2, <1>11 DEF TurnAt
<1>13. QED
  BY <1>1, <1>9, <1>12, TurnAppended DEF us, turn, Spoke

\* What a provider answers is an answer.
LEMMA AnswerTurnSpoken ==
    ASSUME TurnsInv(surface, turns), surface \in {"messages", "chat"},
           turns # <<>>, turns[Len(turns)].role = "user",
           NEW w \in Wires, NEW names \in Seq(Tools), NEW says \in BOOLEAN, NEW signed \in BOOLEAN,
           NEW A, A = IF surface = "messages" THEN <<Thinking(<<NextTurn, 0>>)>> ELSE <<>>,
           NEW T, T = IF says THEN <<Text(<<NextTurn, 1>>)>> ELSE <<>>,
           NEW C, C = CallsMade(w, NextTurn, names, signed),
           NEW bs, bs = Cat(Cat(A, T), C)
    PROVE  TurnsInv(surface, Spoke("assistant", bs))
<1> DEFINE turn == [role |-> "assistant", blocks |-> bs]
<1> DEFINE us == Append(turns, turn)
<1>1. turns \in Seq(TurnSet) /\ Len(turns) \in Nat /\ NextTurn \in Nat /\ NextTurn = Len(turns) + 1
      /\ NextTurn # 1
  BY LenProperties, EmptySeq DEF TurnsInv, NextTurn
<1>2. us[NextTurn] = turn /\ us[NextTurn - 1] = turns[Len(turns)]
  BY <1>1
<1>4. Pure(A, "thinking") /\ Pure(T, "text") /\ Pure(C, "tool_use")
  BY <1>1, PiecesPure, PureNone, CallsPure
<1>6. Holds(bs, "thinking", A, "text", T, "tool_use", C)
  BY <1>4, ThreeKinds
<1>7. /\ bs \in Seq(BlockSet)
      /\ OfKind(bs, "thinking") = A /\ OfKind(bs, "text") = T /\ OfKind(bs, "tool_use") = C
      /\ \A m : m \notin {"thinking", "text", "tool_use"} => OfKind(bs, m) = <<>>
  BY <1>6 DEF Holds
<1>8. turn.role = "assistant" /\ turn.blocks = bs /\ OfKind(bs, "file") = <<>> /\ OfKind(bs, "tool_result") = <<>>
  BY <1>7
<1>9. turn \in TurnSet
  BY <1>7, <1>8 DEF TurnSet
<1> HIDE DEF turn, us
<1>11. AnswerTurn(turn, NextTurn)
  BY <1>7, <1>8 DEF AnswerTurn
<1>12. TurnAt(surface, us, NextTurn)
  BY <1>1, <1>2, <1>11 DEF TurnAt
<1>13. QED
  BY <1>1, <1>9, <1>12, TurnAppended DEF us, turn, Spoke

\* A conversation begins with no turns.
LEMMA TalkStart == TalkInit => TalkInv
<1> SUFFICES ASSUME TalkInit PROVE TalkInv
  OBVIOUS
<1>1. TurnsInv(surface, turns)
  <2>1. turns = <<>> /\ <<>> \in Seq(TurnSet) /\ Len(<<>>) = 0
    BY EmptySeq DEF TalkInit
  <2>2. QED
    BY <2>1 DEF TurnsInv
<1>2. QED
  BY <1>1 DEF TalkInit, TalkInv, SentInv, Out

\* Asking keeps the invariant: an answer without calls came before.
LEMMA AskKeeps ==
    ASSUME TalkInv, NEW says \in BOOLEAN, NEW f \in Attachments(surface) \cup {NoFile}, Ask(says, f)
    PROVE  TalkInv'
<1> DEFINE F == IF f = NoFile THEN <<>> ELSE <<File(<<NextTurn, 0>>, f)>>
<1> DEFINE T == IF says THEN <<Text(<<NextTurn, 1>>)>> ELSE <<>>
<1> DEFINE calls == OpenCalls
<1>0. turns \in Seq(TurnSet) /\ Len(turns) \in Nat /\ NextTurn = Len(turns) + 1 /\ move = "client"
      /\ surface \in {"messages", "chat"}
  BY LenProperties DEF TalkInv, TurnsInv, NextTurn, Ask, UserMove
<1>1. turns # <<>> => turns[Len(turns)].role = "assistant" /\ OfKind(turns[Len(turns)].blocks, "tool_use") = <<>>
  BY DEF Ask, Last
<1>2. calls = <<>>
  BY <1>1 DEF OpenCalls
<1>3. turns' = Spoke("user", Cat(F, T))
  BY DEF Ask, Cat, Spoke
<1>4. UNCHANGED <<surface, move>>
  BY DEF Ask
<1>9. PICK shown \in BOOLEAN : TRUE
  OBVIOUS
<1> DEFINE R == ResultsBack(NextTurn, calls, shown)
<1>5. Cat(Cat(R, F), T) = Cat(F, T)
  <2>1. Pure(F, "file")
    <3>1. NextTurn \in Nat /\ 0 \in Nat
      BY <1>0
    <3>2. QED
      BY <1>0, <3>1, PiecesPure, PureNone
  <2>2. F \in Seq(BlockSet)
    BY <2>1 DEF Pure
  <2>3. R = <<>>
    BY <1>2 DEF ResultsBack
  <2> HIDE DEF F, R
  <2>4. QED
    BY <2>2, <2>3, CatNone
<1>6. TurnsInv(surface, Spoke("user", Cat(F, T)))
  <2>2. Len(calls) = 0
    BY <1>2
  <2>3. R = ResultsBack(NextTurn, calls, shown)
    OBVIOUS
  <2>4. F = IF f = NoFile THEN <<>> ELSE <<File(<<NextTurn, 0>>, f)>>
    OBVIOUS
  <2>5. T = IF says THEN <<Text(<<NextTurn, Len(calls) + 1>>)>> ELSE <<>>
    BY <2>2
  <2>6. calls = OpenCalls
    OBVIOUS
  <2>7. TurnsInv(surface, turns)
    BY DEF TalkInv
  <2> DEFINE z == 0
  <2>8. z \in {0, Len(calls) + 2} /\ F = IF f = NoFile THEN <<>> ELSE <<File(<<NextTurn, z>>, f)>>
    OBVIOUS
  <2> DEFINE bs == Cat(Cat(R, F), T)
  <2>1. bs = Cat(Cat(R, F), T)
    OBVIOUS
  <2> HIDE DEF F, T, calls, R, bs, z
  <2>9. UserBlocks(calls, shown, says, f, z, R, T, F, bs) /\ UserMay
    BY <1>0, <1>1, <2>1, <2>3, <2>5, <2>7, <2>8 DEF UserBlocks, UserMay
  <2>11. TurnsInv(surface, Spoke("user", bs))
    BY <2>6, <2>9, UserTurnSpoken
  <2>10. QED
    BY <1>5, <2>1, <2>11
<1>7. SentInv'
  BY <1>0, <1>4 DEF SentInv, Out
<1>8. QED
  BY <1>0, <1>3, <1>4, <1>6, <1>7 DEF TalkInv

\* So does returning the results of the calls of the last turn.
LEMMA ReturnKeeps ==
    ASSUME TalkInv, NEW shown \in BOOLEAN, NEW says \in BOOLEAN, NEW f \in Attachments(surface) \cup {NoFile},
           Return(shown, says, f)
    PROVE  TalkInv'
<1> DEFINE calls == OpenCalls
<1> DEFINE z == Len(calls) + 2
<1> DEFINE R == ResultsBack(NextTurn, calls, shown)
<1> DEFINE T == IF says THEN <<Text(<<NextTurn, Len(calls) + 1>>)>> ELSE <<>>
<1> DEFINE F == IF f = NoFile THEN <<>> ELSE <<File(<<NextTurn, Len(calls) + 2>>, f)>>
<1> DEFINE bs == Cat(Cat(R, T), F)
<1>1. turns # <<>> /\ turns[Len(turns)].role = "assistant" /\ move = "client" /\ UNCHANGED <<surface, move>>
  BY DEF Return, UserMove, Last
<1>2. calls = OfKind(Last(turns).blocks, "tool_use")
  BY <1>1 DEF OpenCalls, Last
<1>3. turns' = Spoke("user", bs)
  BY <1>2 DEF Return, Spoke, Cat, ResultsBack
<1>4. UserMay
  BY <1>1 DEF UserMay, TalkInv
<1>5. UserBlocks(calls, shown, says, f, z, R, T, F, bs)
  BY DEF UserBlocks
<1>6. calls = OpenCalls
  OBVIOUS
<1> HIDE DEF calls, z, R, T, F, bs
<1>7. TurnsInv(surface, Spoke("user", bs))
  BY <1>4, <1>5, <1>6, UserTurnSpoken
<1>8. SentInv'
  BY <1>1 DEF SentInv, Out
<1>9. QED
  BY <1>1, <1>3, <1>7, <1>8 DEF TalkInv

\* So does an answer: the turn before is the user's, because a request was out.
LEMMA AnswerKeeps ==
    ASSUME TalkInv, NEW says \in BOOLEAN, NEW signed \in BOOLEAN, NEW names \in AnswerCalls,
           Answer(says, names, signed)
    PROVE  TalkInv'
<1> DEFINE A == IF surface = "messages" THEN <<Thinking(<<NextTurn, 0>>)>> ELSE <<>>
<1> DEFINE T == IF says THEN <<Text(<<NextTurn, 1>>)>> ELSE <<>>
<1> DEFINE C == CallsMade(wire, NextTurn, names, signed)
<1> DEFINE bs == Cat(Cat(A, T), C)
<1>1. turns # <<>> /\ turns[Len(turns)].role = "user" /\ wire \in Wires
      /\ TurnsInv(surface, turns) /\ surface \in {"messages", "chat"}
  BY DEF Answer, TalkInv, SentInv, Out
<1>2. names \in Seq(Tools)
  BY ConversationAssumption DEF AnswerCalls
<1>3. turns' = Spoke("assistant", bs) /\ move' = "client" /\ surface' = surface
  BY DEF Answer, Spoke, Cat, CallsMade
<1>4. /\ A = IF surface = "messages" THEN <<Thinking(<<NextTurn, 0>>)>> ELSE <<>>
      /\ T = IF says THEN <<Text(<<NextTurn, 1>>)>> ELSE <<>>
      /\ C = CallsMade(wire, NextTurn, names, signed)
      /\ bs = Cat(Cat(A, T), C)
  OBVIOUS
<1> HIDE DEF A, T, C, bs
<1>5. TurnsInv(surface, Spoke("assistant", bs))
  BY <1>1, <1>2, <1>4, AnswerTurnSpoken
<1>6. SentInv'
  BY <1>3 DEF SentInv, Out
<1>7. QED
  BY <1>1, <1>3, <1>5, <1>6 DEF TalkInv

\* Sending keeps it: what goes out is the request of the turns as they are.
LEMMA SendKeeps ==
    ASSUME TalkInv, Requesting
    PROVE  TalkInv'
<1>1. PICK w \in Wires : \E stream \in Modes(w), a \in Shown(w, AllFiles(Common)), fetch \in FetchesBy(w, AllFiles(Common)) :
         Send(Common, w, stream, a, fetch)
  BY DEF Requesting
<1>2. PICK stream \in Modes(w), a \in Shown(w, AllFiles(Common)), fetch \in FetchesBy(w, AllFiles(Common)) :
         Send(Common, w, stream, a, fetch)
  BY <1>1
<1>3. turns # <<>> /\ turns[Len(turns)].role = "user"
  BY DEF Requesting, Last
<1>4. UNCHANGED <<surface, turns>>
  BY <1>2 DEF Send
<1>5. Common' = Common
  BY <1>4 DEF Common
<1>6. fetch \in Fetches
  BY DEF FetchesBy, Fetches
<1>7. /\ Out' => /\ Verdict(w, stream, a, AllFiles(Common), fetch) = "sent"
                 /\ sent' = Request(w, Common, fetch) /\ wire' = w
  BY <1>2 DEF Send, Out
<1>8. SentInv'
  <2> SUFFICES ASSUME Out'
               PROVE  /\ (turns # <<>> /\ turns[Len(turns)].role = "user" /\ wire \in Wires)'
                      /\ (\E st \in Modes(wire), b \in Shown(wire, AllFiles(Common)), fe \in Fetches :
                            /\ Verdict(wire, st, b, AllFiles(Common), fe) = "sent"
                            /\ sent = Request(wire, Common, fe))'
    BY DEF SentInv
  <2>1. wire' = w /\ sent' = Request(w, Common, fetch) /\ Verdict(w, stream, a, AllFiles(Common), fetch) = "sent"
    BY <1>7
  <2>2. (turns # <<>> /\ turns[Len(turns)].role = "user" /\ wire \in Wires)'
    BY <1>3, <1>4, <2>1
  <2>3. Verdict(wire', stream, a, AllFiles(Common'), fetch) = "sent" /\ sent' = Request(wire', Common', fetch)
    BY <1>5, <2>1
  <2>4. stream \in Modes(wire') /\ a \in Shown(wire', AllFiles(Common'))
    BY <1>5, <2>1
  <2>5. QED
    BY <1>6, <2>2, <2>3, <2>4
<1>9. QED
  BY <1>4, <1>8 DEF TalkInv, TurnsInv, TurnAt, UserTurn

\* A provider's error leaves the turns alone.
LEMMA FailKeeps ==
    ASSUME TalkInv, Fail
    PROVE  TalkInv'
BY DEF Fail, TalkInv, SentInv, Out

\* Every step of a conversation keeps the invariant.
LEMMA TalkStep ==
    ASSUME TalkInv, TalkNext
    PROVE  TalkInv'
<1>1. ASSUME NEW says \in BOOLEAN, NEW f \in Attachments(surface) \cup {NoFile}, Ask(says, f)
      PROVE  TalkInv'
  BY <1>1, AskKeeps
<1>2. ASSUME NEW says \in BOOLEAN, NEW f \in Attachments(surface) \cup {NoFile}, NEW shown \in BOOLEAN,
             Return(shown, says, f)
      PROVE  TalkInv'
  BY <1>2, ReturnKeeps
<1>3. ASSUME NEW says \in BOOLEAN, NEW signed \in BOOLEAN, NEW names \in AnswerCalls,
             Answer(says, names, signed)
      PROVE  TalkInv'
  BY <1>3, AnswerKeeps
<1>4. QED
  BY <1>1, <1>2, <1>3, SendKeeps, FailKeeps DEF TalkNext

\* So does a step of another component.
LEMMA TalkStands ==
    ASSUME TalkInv, UNCHANGED talkVars
    PROVE  TalkInv'
<1>1. UNCHANGED <<surface, turns, move, wire, sent>> /\ Common' = Common
  BY DEF talkVars, Common
<1>2. SentInv'
  BY <1>1 DEF SentInv, Out, TalkInv
<1>3. QED
  BY <1>1, <1>2 DEF TalkInv

-----------------------------------------------------------------------------
(* Where the parts of a turn are.                                          *)

\* u has the members of s first and those of t next.
Joins(u, s, t) ==
    /\ Len(u) = Len(s) + Len(t) /\ Len(s) \in Nat /\ Len(t) \in Nat
    /\ \A i \in 1 .. Len(s) : u[i] = s[i]
    /\ \A i \in 1 .. Len(t) : u[Len(s) + i] = t[i]

\* Where the members of two joined sequences are.
LEMMA CatAt ==
    ASSUME NEW X, NEW s \in Seq(X), NEW t \in Seq(X)
    PROVE  Joins(Cat(s, t), s, t)
<1>1. Len(s) \in Nat /\ Len(t) \in Nat
  BY LenProperties
<1>2. ASSUME NEW i \in 1 .. Len(t) PROVE (s \o t)[Len(s) + i] = t[i]
  <2>1. Len(s) + i \in 1 .. Len(s) + Len(t) /\ ~(Len(s) + i <= Len(s)) /\ Len(s) + i - Len(s) = i
    BY <1>1
  <2>2. QED
    BY <2>1, ConcatProperties
<1>3. ASSUME NEW i \in 1 .. Len(s) PROVE (s \o t)[i] = s[i]
  <2>1. i \in 1 .. Len(s) + Len(t) /\ i <= Len(s)
    BY <1>1
  <2>2. QED
    BY <2>1, ConcatProperties
<1>4. Len(s \o t) = Len(s) + Len(t)
  BY ConcatProperties
<1>5. QED
  BY <1>1, <1>2, <1>3, <1>4 DEF Cat, Joins

\* Where the parts of an answer are.
AnswerPlaces(w, ps, t, calls, a) ==
    /\ a \in {0, 1} /\ Len(calls) \in Nat /\ Len(ps) = a + Len(calls)
    /\ a = 1 => ps[1] = [kind |-> "text", tag |-> <<t, 1>>]
    /\ \A c \in 1 .. Len(calls) :
          /\ ps[a + c].kind = "call" /\ ps[a + c].tag = calls[c].tag
          /\ w # "gemini" => ps[a + c].key = calls[c].id
          /\ w = "gemini" => ps[a + c].sig = IF calls[c].sig # NoSig THEN calls[c].sig ELSE NotOurs
          /\ calls[c].tag = <<t, 1 + c>> /\ calls[c].id.nth = c

\* Where the parts of a user's turn are: the words and the file from e on, the results from d.
UserPlaces(w, ps, t, calls, a, f, d, e) ==
    /\ a \in {0, 1} /\ f \in {0, 1} /\ Len(calls) \in Nat /\ Len(ps) = (a + f) + Len(calls)
    /\ (d = a + f /\ e = 0) \/ (d = 0 /\ e = Len(calls))
    /\ a = 1 => ps[e + 1].kind = "text" /\ ps[e + 1].tag = <<t, Len(calls) + 1>>
    /\ f = 1 => /\ ps[e + (a + 1)].kind = "file"
                /\ ps[e + (a + 1)].tag \in {<<t, 0>>, <<t, Len(calls) + 2>>}
    /\ \A c \in 1 .. Len(calls) :
          /\ ps[d + c].kind = "result" /\ ps[d + c].tag = <<t, c>> /\ ps[d + c].of = calls[c].tag
          /\ w # "gemini" => ps[d + c].key = calls[c].id

\* The file of a turn, if it has one, is shown when the adapter places it.
FilePlace(w, fetch, ps, files, a, f, e) ==
    \/ files = <<>> /\ f = 0
    \/ \E b \in FileSet :
          /\ files = <<b>>
          /\ FilePart(w, b, fetch) = "part" => f = 1 /\ ps[e + (a + 1)].tag = b.tag

\* No calls, no call parts.
LEMMA NoCalls ==
    ASSUME NEW w
    PROVE  CallsSaid(w, CommonCalls(<<>>)) = <<>>
BY DEF CallsSaid, CommonCalls

\* At most one text, at most one text part.
LEMMA OneText ==
    ASSUME NEW bs \in Seq(BlockSet), NEW t \in Nat, NEW n \in Nat,
           OfKind(bs, "text") = <<>> \/ OfKind(bs, "text") = <<Text(<<t, n>>)>>
    PROVE  \/ TextParts(Tags(OfKind(bs, "text"))) = <<>>
           \/ TextParts(Tags(OfKind(bs, "text"))) = <<[kind |-> "text", tag |-> <<t, n>>]>>
<1>1. CASE OfKind(bs, "text") = <<>>
  BY <1>1 DEF TextParts, Tags
<1>2. CASE OfKind(bs, "text") = <<Text(<<t, n>>)>>
  <2>1. Tags(<<Text(<<t, n>>)>>) = <<<<t, n>>>>
    BY DEF Tags, Text
  <2>2. TextParts(<<<<t, n>>>>) = <<[kind |-> "text", tag |-> <<t, n>>]>>
    BY DEF TextParts
  <2>3. QED
    BY <1>2, <2>1, <2>2
<1>3. QED
  BY <1>1, <1>2

\* The parts of an answer are where AnswerPlaces says.
LEMMA AnswerSaid ==
    ASSUME NEW w \in Wires, NEW fetch, NEW s \in {"messages", "chat"}, NEW ts, NEW turn \in TurnSet,
           NEW t \in Nat, AnswerTurn(turn, t)
    PROVE  \E a \in {0, 1} : AnswerPlaces(w, TurnSaid(w, fetch, s, ts, turn), t, OfKind(turn.blocks, "tool_use"), a)
<1> DEFINE N == Names(ts)
<1> DEFINE calls == OfKind(turn.blocks, "tool_use")
<1> DEFINE T == TextParts(Tags(OfKind(turn.blocks, "text")))
<1> DEFINE C == CallsSaid(w, CommonCalls(calls))
<1> DEFINE ps == TurnSaid(w, fetch, s, ts, turn)
<1>1. turn.blocks \in Seq(BlockSet)
  BY DEF TurnSet
<1>2. T = <<>> \/ T = <<[kind |-> "text", tag |-> <<t, 1>>]>>
  <2>1. OfKind(turn.blocks, "text") = <<>> \/ OfKind(turn.blocks, "text") = <<Text(<<t, 1>>)>>
    BY DEF AnswerTurn
  <2>2. QED
    BY <1>1, <2>1, OneText
<1>3. T \in Seq(PartSet(N))
  <2>1. Tags(OfKind(turn.blocks, "text")) \in Seq(TagSet)
    BY <1>1, BlocksOf
  <2>2. T \in Seq(TextPartSet)
    BY <2>1, TextPartsAre
  <2>3. QED
    BY <2>2, Wider DEF PartSet
<1>4. calls \in Seq(CallBlocks) /\ Len(calls) \in Nat
  BY <1>1, BlocksOf, LenProperties
<1>5. PICK v \in Wires, names \in Seq(Tools), signed \in BOOLEAN : calls = CallsMade(v, t, names, signed)
  BY DEF AnswerTurn
<1>6. \A c \in 1 .. Len(calls) : calls[c].tag = <<t, 1 + c>> /\ calls[c].id.nth = c
  <2>1. DOMAIN calls = 1 .. Len(calls) /\ DOMAIN calls = DOMAIN names
    BY <1>4, <1>5, LenProperties DEF CallsMade
  <2>2. \A c \in DOMAIN names : calls[c] = Call(<<t, 1 + c>>, Issued(v, t, c), names[c],
                                                 IF signed /\ c = 1 THEN <<t, 1 + c>> ELSE NoSig)
    BY <1>5 DEF CallsMade
  <2>3. \A c \in DOMAIN names : Issued(v, t, c).nth = c
    BY DEF Issued, GeminiId, ProviderId
  <2>4. ASSUME NEW c \in DOMAIN names PROVE calls[c].tag = <<t, 1 + c>> /\ calls[c].id.nth = c
    <3> DEFINE sig == IF signed /\ c = 1 THEN <<t, 1 + c>> ELSE NoSig
    <3> DEFINE id == Issued(v, t, c)
    <3>1. calls[c] = [kind |-> "tool_use", tag |-> <<t, 1 + c>>, id |-> id, name |-> names[c], sig |-> sig]
      BY <2>2 DEF Call
    <3>2. id.nth = c
      BY <2>3
    <3> HIDE DEF sig, id, calls
    <3>3. QED
      BY <3>1, <3>2
  <2>5. QED
    BY <2>1, <2>4
<1>7. /\ C \in Seq(CallPartSet(N)) /\ Len(C) = Len(calls)
      /\ \A c \in 1 .. Len(calls) :
           LET m == [id |-> calls[c].id, name |-> calls[c].name, sig |-> calls[c].sig, tag |-> calls[c].tag]
           IN  C[c] = IF w = "gemini" THEN GeminiCall(m) ELSE IdCall(m)
  <2>1. Tools \subseteq N
    BY DEF Names
  <2>2. CommonCalls(calls) \in Seq(CallSet(N)) /\ Len(CommonCalls(calls)) = Len(calls)
        /\ \A c \in 1 .. Len(calls) : CommonCalls(calls)[c]
             = [id |-> calls[c].id, name |-> calls[c].name, sig |-> calls[c].sig, tag |-> calls[c].tag]
    BY <1>4, <2>1, CommonCallsAre
  <2>3. C \in Seq(CallPartSet(N)) /\ Len(C) = Len(CommonCalls(calls))
        /\ \A c \in 1 .. Len(CommonCalls(calls)) :
             C[c] = IF w = "gemini" THEN GeminiCall(CommonCalls(calls)[c]) ELSE IdCall(CommonCalls(calls)[c])
    <3> DEFINE cs == CommonCalls(calls)
    <3>1. cs \in Seq(CallSet(N))
      BY <2>2
    <3> HIDE DEF N, cs, calls, C, T, ps
    <3>2. CallsShown(w, N, cs, CallsSaid(w, cs))
      BY <3>1, CallsSaidShown
    <3> HIDE DEF C
    <3>3. C = CallsSaid(w, cs)
      BY DEF C, cs
    <3>4. QED
      BY <3>2, <3>3 DEF CallsShown, cs
  <2>4. QED
    BY <2>2, <2>3
<1>8. C \in Seq(PartSet(N))
  BY <1>7, Wider DEF PartSet
<1>9. ps = Cat(T, C)
  <2>1. OfKind(turn.blocks, "file") = <<>> /\ OfKind(turn.blocks, "tool_result") = <<>>
    BY DEF AnswerTurn
  <2>2. FileParts(w, <<>>, fetch) = <<>>
    BY EmptySeq, FilePartsAre
  <2>3. BackSaid(w, s, ts, <<>>) = <<>>
    BY DEF BackSaid
  <2>4. ps = Cat(Cat(Cat(T, C), <<>>), <<>>) \/ ps = Cat(<<>>, Cat(Cat(T, C), <<>>))
    BY <2>1, <2>2, <2>3 DEF TurnSaid, HeadSaid
  <2> HIDE DEF T, C, ps
  <2>5. Cat(T, C) \in Seq(PartSet(N))
    BY <1>3, <1>8, CatTyped
  <2>6. QED
    BY <2>4, <2>5, CatNone
<1> HIDE DEF N, calls, T, C, ps
<1>10. /\ Len(ps) = Len(T) + Len(calls)
       /\ \A i \in 1 .. Len(T) : ps[i] = T[i]
       /\ \A i \in 1 .. Len(calls) : ps[Len(T) + i] = C[i]
  <2>1. Joins(ps, T, C)
    BY <1>3, <1>8, <1>9, CatAt
  <2>2. Len(C) = Len(calls)
    BY <1>7
  <2>3. QED
    BY <2>1, <2>2 DEF Joins
<1>11. Len(T) \in {0, 1} /\ (Len(T) = 1 => T[1] = [kind |-> "text", tag |-> <<t, 1>>])
  BY <1>2
<1>12. \A c \in 1 .. Len(calls) :
          /\ C[c].kind = "call" /\ C[c].tag = calls[c].tag
          /\ w # "gemini" => C[c].key = calls[c].id
          /\ w = "gemini" => C[c].sig = IF calls[c].sig # NoSig THEN calls[c].sig ELSE NotOurs
  <2> TAKE c \in 1 .. Len(calls)
  <2> DEFINE m == [id |-> calls[c].id, name |-> calls[c].name, sig |-> calls[c].sig, tag |-> calls[c].tag]
  <2>1. C[c] = IF w = "gemini" THEN GeminiCall(m) ELSE IdCall(m)
    BY <1>7
  <2>2. m.id = calls[c].id /\ m.sig = calls[c].sig /\ m.tag = calls[c].tag
    OBVIOUS
  <2> HIDE DEF m
  <2>3. QED
    BY <2>1, <2>2 DEF GeminiCall, IdCall
<1>13. AnswerPlaces(w, ps, t, calls, Len(T))
  <2>1. Len(T) = 1 => ps[1] = [kind |-> "text", tag |-> <<t, 1>>]
    BY <1>10, <1>11
  <2>2. QED
    BY <1>4, <1>6, <1>10, <1>11, <1>12, <2>1 DEF AnswerPlaces
<1>14. QED
  BY <1>11, <1>13 DEF ps, calls

\* p has T, F and R in this order, q has R in front.
ThreeJoined(p, q, T, F, R) ==
    /\ Len(p) = Len(T) + Len(F) + Len(R) /\ Len(q) = Len(T) + Len(F) + Len(R)
    /\ \A i \in 1 .. Len(T) : p[i] = T[i] /\ q[Len(R) + i] = T[i]
    /\ \A i \in 1 .. Len(F) : p[Len(T) + i] = F[i] /\ q[Len(R) + (Len(T) + i)] = F[i]
    /\ \A i \in 1 .. Len(R) : p[Len(T) + Len(F) + i] = R[i] /\ q[i] = R[i]

\* Texts and files on one side of the results or the other: where each is.
LEMMA ThreeAt ==
    ASSUME NEW X, NEW T \in Seq(X), NEW F \in Seq(X), NEW R \in Seq(X)
    PROVE  ThreeJoined(Cat(Cat(T, F), R), Cat(R, Cat(T, F)), T, F, R)
<1> DEFINE h == Cat(T, F)
<1> DEFINE p == Cat(h, R)
<1> DEFINE q == Cat(R, h)
<1>0. h \in Seq(X) /\ Joins(h, T, F)
  BY CatAt, CatTyped
<1> HIDE DEF h
<1>1. Len(h) = Len(T) + Len(F) /\ Len(T) \in Nat /\ Len(F) \in Nat
      /\ (\A i \in 1 .. Len(T) : h[i] = T[i]) /\ \A i \in 1 .. Len(F) : h[Len(T) + i] = F[i]
  BY <1>0 DEF Joins
<1>2. /\ Len(p) = Len(h) + Len(R) /\ Len(R) \in Nat
      /\ (\A i \in 1 .. Len(h) : p[i] = h[i]) /\ \A i \in 1 .. Len(R) : p[Len(h) + i] = R[i]
  <2>1. Joins(p, h, R)
    BY <1>0, CatAt
  <2> HIDE DEF p
  <2>2. QED
    BY <2>1 DEF Joins
<1>3. /\ Len(q) = Len(R) + Len(h)
      /\ (\A i \in 1 .. Len(R) : q[i] = R[i]) /\ \A i \in 1 .. Len(h) : q[Len(R) + i] = h[i]
  <2>1. Joins(q, R, h)
    BY <1>0, CatAt
  <2> HIDE DEF q
  <2>2. QED
    BY <2>1 DEF Joins
<1> HIDE DEF p, q
<1>4. \A i \in 1 .. Len(T) : i \in 1 .. Len(h)
  BY <1>1
<1>5. \A i \in 1 .. Len(F) : Len(T) + i \in 1 .. Len(h)
  BY <1>1
<1>6. Len(h) = Len(T) + Len(F)
  BY <1>1
<1>7. /\ Len(p) = Len(T) + Len(F) + Len(R) /\ Len(q) = Len(T) + Len(F) + Len(R)
      /\ \A i \in 1 .. Len(T) : p[i] = T[i] /\ q[Len(R) + i] = T[i]
      /\ \A i \in 1 .. Len(F) : p[Len(T) + i] = F[i] /\ q[Len(R) + (Len(T) + i)] = F[i]
      /\ \A i \in 1 .. Len(R) : p[Len(T) + Len(F) + i] = R[i] /\ q[i] = R[i]
  <2>1. Len(p) = Len(T) + Len(F) + Len(R) /\ Len(q) = Len(T) + Len(F) + Len(R)
    BY <1>1, <1>2, <1>3
  <2>2. \A i \in 1 .. Len(T) : p[i] = T[i] /\ q[Len(R) + i] = T[i]
    BY <1>1, <1>2, <1>3, <1>4
  <2>3. ASSUME NEW i \in 1 .. Len(F) PROVE p[Len(T) + i] = F[i] /\ q[Len(R) + (Len(T) + i)] = F[i]
    <3> DEFINE k == Len(T) + i
    <3>1. k \in 1 .. Len(h) /\ h[k] = F[i]
      BY <1>1, <1>5
    <3> HIDE DEF k
    <3>2. p[k] = F[i] /\ q[Len(R) + k] = F[i]
      BY <1>2, <1>3, <3>1
    <3>3. QED
      BY <3>2 DEF k
  <2>4. \A i \in 1 .. Len(R) : p[Len(T) + Len(F) + i] = R[i] /\ q[i] = R[i]
    BY <1>2, <1>3, <1>6
  <2>5. QED
    BY <2>1, <2>2, <2>3, <2>4
<1>8. ThreeJoined(p, q, T, F, R)
  BY <1>7 DEF ThreeJoined
<1>9. QED
  BY <1>8 DEF p, q, h

\* R holds one result part for each call, with its id.
ResultsFor(w, R, t, calls) ==
    /\ Len(R) = Len(calls)
    /\ \A c \in 1 .. Len(calls) :
          /\ R[c].kind = "result" /\ R[c].tag = <<t, c>> /\ R[c].of = calls[c].tag
          /\ w # "gemini" => R[c].key = calls[c].id

\* The parts of returned results answer the calls, in their order.
LEMMA BackAre ==
    ASSUME NEW w \in Wires, NEW s \in {"messages", "chat"}, NEW ts, NEW t \in Nat,
           NEW calls \in Seq(CallBlocks), NEW shown \in BOOLEAN, NEW rs, rs = ResultsBack(t, calls, shown)
    PROVE  BackSaid(w, s, ts, rs) \in Seq(ResultPartSet(Names(ts))) /\ ResultsFor(w, BackSaid(w, s, ts, rs), t, calls)
<1> DEFINE R == BackSaid(w, s, ts, rs)
<1>1. rs \in Seq(ResultBlocks)
  BY ResultsPure
<1>2. R \in Seq(ResultPartSet(Names(ts))) /\ Len(R) = Len(rs)
  <2>1. "ok" \in Fetches
    BY DEF Fetches
  <2>2. QED
    BY <1>1, BackOut
<1>3. DOMAIN rs = 1 .. Len(rs) /\ DOMAIN calls = 1 .. Len(calls) /\ DOMAIN rs = DOMAIN calls
      /\ Len(rs) \in Nat /\ Len(calls) \in Nat
  BY <1>1, LenProperties DEF ResultsBack
<1>4. Len(rs) = Len(calls)
  <2> DEFINE a == Len(rs)
  <2> DEFINE b == Len(calls)
  <2>1. a \in Nat /\ b \in Nat /\ 1 .. a = 1 .. b
    BY <1>3
  <2> HIDE DEF a, b
  <2>2. \A i \in Int : i \in 1 .. a <=> i \in 1 .. b
    BY <2>1
  <2>3. a = b
    BY <2>1, <2>2
  <2>4. QED
    BY <2>3 DEF a, b
<1>5. ASSUME NEW c \in 1 .. Len(calls)
      PROVE  /\ R[c].kind = "result" /\ R[c].tag = <<t, c>> /\ R[c].of = calls[c].tag
             /\ w # "gemini" => R[c].key = calls[c].id
  <2> DEFINE sh == (c = 1 /\ shown)
  <2> DEFINE n == NameFor(s, ts, rs[c].id)
  <2> DEFINE m == ToolMessage(rs[c], n)
  <2>1. rs[c] = [kind |-> "tool_result", tag |-> <<t, c>>, id |-> calls[c].id, sig |-> calls[c].sig,
                 name |-> calls[c].name, of |-> calls[c].tag, shown |-> sh]
    BY <1>3 DEF ResultsBack, Result
  <2>2. R[c] = ResultSaid(w, m)
    BY <1>3, <1>4 DEF BackSaid, ToolMessages
  <2> HIDE DEF sh
  <2>3. rs[c].tag = <<t, c>> /\ rs[c].id = calls[c].id /\ rs[c].of = calls[c].tag
    BY <2>1
  <2> HIDE DEF n, R
  <2>4. m.tag = rs[c].tag /\ m.id = rs[c].id /\ m.of = rs[c].of
    BY DEF ToolMessage
  <2> HIDE DEF m
  <2>5. QED
    BY <2>2, <2>3, <2>4 DEF ResultSaid, GeminiResult, IdResult
<1> HIDE DEF R
<1>6. QED
  BY <1>2, <1>4, <1>5 DEF R, ResultsFor

\* A user attaches one file, if any; its part is there when it is placed.
Attached(s, files, t, n) ==
    files = <<>> \/ \E f \in Attachments(s), z \in {0, n + 2} : files = <<File(<<t, z>>, f)>>

\* F is the part of the file of a turn, if it is placed.
FileShown(w, fetch, files, F, t, n) ==
    /\ F \in Seq(FilePartSet) /\ Len(F) \in {0, 1}
    /\ Len(F) = 1 => F[1].kind = "file" /\ F[1].tag \in {<<t, 0>>, <<t, n + 2>>}
    /\ \/ files = <<>> /\ Len(F) = 0
       \/ \E b \in FileSet : /\ files = <<b>>
                             /\ FilePart(w, b, fetch) = "part" => Len(F) = 1 /\ F[1].tag = b.tag

\* The file of a turn is shown when the adapter places it, and not otherwise.
LEMMA FilesShown ==
    ASSUME NEW w, NEW fetch, NEW s \in {"messages", "chat"}, NEW bs \in Seq(BlockSet), NEW t \in Nat, NEW n \in Nat,
           Attached(s, OfKind(bs, "file"), t, n)
    PROVE  FileShown(w, fetch, OfKind(bs, "file"), FileParts(w, OfKind(bs, "file"), fetch), t, n)
<1> DEFINE files == OfKind(bs, "file")
<1> DEFINE F == FileParts(w, files, fetch)
<1>1. files \in Seq(FileSet)
  BY BlocksOf
<1>2. F \in Seq(FilePartSet) /\ F = Gather(FilePlaced(w, fetch), files) /\ FileParts(w, <<>>, fetch) = <<>>
  BY <1>1, FilePartsAre
<1>3. CASE files = <<>>
  <2>1. F = <<>>
    BY <1>2, <1>3
  <2>2. Len(F) = 0
    BY <2>1
  <2> HIDE DEF F, files
  <2>3. QED
    BY <1>2, <1>3, <2>2 DEF F, files, FileShown
<1>4. CASE files # <<>>
  <2>1. PICK f \in Attachments(s), z \in {0, n + 2} : files = <<File(<<t, z>>, f)>>
    BY <1>4 DEF Attached
  <2> DEFINE b == File(<<t, z>>, f)
  <2>2. b \in FileSet
    <3>1. z \in Nat
      OBVIOUS
    <3>2. QED
      BY <3>1, PiecesPure
  <2>3. b.tag = <<t, z>> /\ b.tag \in {<<t, 0>>, <<t, n + 2>>}
    BY DEF File
  <2>4. files = <<b>>
    BY <2>1
  <2> HIDE DEF b, F, files
  <2>5. F = FilePlaced(w, fetch)[b]
    BY <1>2, <2>2, <2>4, FilePlacedTyped, GatherOne
  <2>6. F = IF FilePart(w, b, fetch) = "part" THEN <<[kind |-> "file", tag |-> b.tag]>> ELSE <<>>
    BY <2>2, <2>5 DEF FilePlaced
  <2>7. CASE FilePart(w, b, fetch) = "part"
    <3>1. Len(F) = 1 /\ F[1].kind = "file" /\ F[1].tag = b.tag
      BY <2>6, <2>7
    <3>2. QED
      BY <1>2, <2>2, <2>3, <2>4, <3>1 DEF F, files, FileShown
  <2>8. CASE FilePart(w, b, fetch) # "part"
    <3>1. Len(F) = 0
      BY <2>6, <2>8
    <3>2. QED
      BY <1>2, <2>2, <2>4, <2>8, <3>1 DEF F, files, FileShown
  <2>9. QED
    BY <2>7, <2>8
<1>5. QED
  BY <1>3, <1>4

\* Where the parts of a user's turn are, for some places.
UserLaid(w, fetch, ps, t, calls, files) ==
    \E a \in {0, 1}, f \in {0, 1}, d \in Nat, e \in Nat :
        UserPlaces(w, ps, t, calls, a, f, d, e) /\ FilePlace(w, fetch, ps, files, a, f, e)

\* The parts of a user's turn are where UserPlaces says.
LEMMA UserSaid ==
    ASSUME NEW w \in Wires, NEW fetch, NEW s \in {"messages", "chat"}, NEW ts, NEW turn \in TurnSet,
           NEW t \in Nat, NEW calls \in Seq(CallBlocks), UserTurn(s, turn, t, calls)
    PROVE  UserLaid(w, fetch, TurnSaid(w, fetch, s, ts, turn), t, calls, OfKind(turn.blocks, "file"))
<1> DEFINE N == Names(ts)
<1> DEFINE bs == turn.blocks
<1> DEFINE files == OfKind(bs, "file")
<1> DEFINE rs == OfKind(bs, "tool_result")
<1> DEFINE T == TextParts(Tags(OfKind(bs, "text")))
<1> DEFINE F == FileParts(w, files, fetch)
<1> DEFINE R == BackSaid(w, s, ts, rs)
<1> DEFINE ps == TurnSaid(w, fetch, s, ts, turn)
<1> DEFINE n == Len(calls)
<1>1. bs \in Seq(BlockSet)
  BY DEF TurnSet
<1>2. n \in Nat
  BY LenProperties
<1>3. T = <<>> \/ T = <<[kind |-> "text", tag |-> <<t, n + 1>>]>>
  <2>1. OfKind(bs, "text") = <<>> \/ OfKind(bs, "text") = <<Text(<<t, n + 1>>)>>
    BY DEF UserTurn
  <2>2. n + 1 \in Nat
    BY <1>2
  <2> HIDE DEF n, bs, T
  <2>3. QED
    BY <1>1, <2>1, <2>2, OneText DEF T
<1>4. T \in Seq(TextPartSet)
  <2>1. Tags(OfKind(bs, "text")) \in Seq(TagSet)
    BY <1>1, BlocksOf
  <2>2. QED
    BY <2>1, TextPartsAre
<1>5. FileShown(w, fetch, files, F, t, n)
  <2>1. Attached(s, files, t, n)
    BY DEF UserTurn, Attached
  <2> HIDE DEF n, bs
  <2>2. QED
    BY <1>1, <1>2, <2>1, FilesShown
<1>6. PICK shown \in BOOLEAN : rs = ResultsBack(t, calls, shown)
  BY DEF UserTurn
<1>7. R \in Seq(ResultPartSet(N)) /\ ResultsFor(w, R, t, calls)
  <2> HIDE DEF rs
  <2>1. QED
    BY <1>6, BackAre
<1>8. ps = IF s = "messages" THEN Cat(Cat(Cat(T, <<>>), F), R) ELSE Cat(R, Cat(Cat(T, <<>>), F))
  <2>1. OfKind(bs, "tool_use") = <<>>
    BY DEF UserTurn
  <2>2. QED
    BY <2>1, NoCalls DEF TurnSaid, HeadSaid
<1>9. T \in Seq(PartSet(N)) /\ F \in Seq(PartSet(N)) /\ R \in Seq(PartSet(N))
  <2> HIDE DEF T, F, R
  <2>1. QED
    BY <1>4, <1>5, <1>7, Wider DEF PartSet, FileShown
<1> HIDE DEF N, bs, files, rs, T, F, R, ps
<1>10. ps = IF s = "messages" THEN Cat(Cat(T, F), R) ELSE Cat(R, Cat(T, F))
  BY <1>8, <1>9, CatNone
<1>22. Len(R) = n /\ Len(F) \in {0, 1}
  BY <1>5, <1>7 DEF ResultsFor, FileShown
<1>11. Len(T) \in {0, 1} /\ (Len(T) = 1 => T[1].kind = "text" /\ T[1].tag = <<t, n + 1>>)
  BY <1>3
<1> DEFINE p == Cat(Cat(T, F), R)
<1> DEFINE q == Cat(R, Cat(T, F))
<1>12. /\ Len(p) = Len(T) + Len(F) + Len(R) /\ Len(q) = Len(T) + Len(F) + Len(R)
       /\ \A i \in 1 .. Len(T) : p[i] = T[i] /\ q[Len(R) + i] = T[i]
       /\ \A i \in 1 .. Len(F) : p[Len(T) + i] = F[i] /\ q[Len(R) + (Len(T) + i)] = F[i]
       /\ \A i \in 1 .. Len(R) : p[Len(T) + Len(F) + i] = R[i] /\ q[i] = R[i]
  <2>1. ThreeJoined(p, q, T, F, R)
    BY <1>9, ThreeAt
  <2> HIDE DEF p, q
  <2>2. QED
    BY <2>1 DEF ThreeJoined
<1>13. ps = IF s = "messages" THEN p ELSE q
  BY <1>10
<1> HIDE DEF p, q
<1> DEFINE d == IF s = "messages" THEN Len(T) + Len(F) ELSE 0
<1> DEFINE e == IF s = "messages" THEN 0 ELSE n
<1>14. d \in Nat /\ e \in Nat
  BY <1>2, <1>11, <1>22
<1>15. Len(ps) = (Len(T) + Len(F)) + n
  BY <1>12, <1>13, <1>22
<1>16. /\ Len(T) = 1 => ps[e + 1] = T[1]
       /\ Len(F) = 1 => ps[e + (Len(T) + 1)] = F[1]
  <2>1. CASE s = "messages"
    <3>1. ps = p /\ e = 0 /\ 0 + 1 = 1 /\ 0 + (Len(T) + 1) = Len(T) + 1
      BY <1>11, <1>13, <2>1
    <3>2. (Len(T) = 1 => p[1] = T[1]) /\ (Len(F) = 1 => p[Len(T) + 1] = F[1])
      BY <1>12
    <3> HIDE DEF e
    <3>3. QED
      BY <3>1, <3>2
  <2>2. CASE s # "messages"
    <3>1. ps = q /\ e = Len(R)
      BY <1>13, <1>22, <2>2
    <3>2. (Len(T) = 1 => q[Len(R) + 1] = T[1]) /\ (Len(F) = 1 => q[Len(R) + (Len(T) + 1)] = F[1])
      BY <1>12
    <3> HIDE DEF e
    <3>3. QED
      BY <3>1, <3>2
  <2>3. QED
    BY <2>1, <2>2
<1>17. \A c \in 1 .. n : ps[d + c] = R[c]
  <2>1. CASE s = "messages"
    <3>1. ps = p /\ d = Len(T) + Len(F)
      BY <1>13, <2>1
    <3>2. QED
      BY <1>12, <1>22, <3>1
  <2>2. CASE s # "messages"
    <3>1. ps = q /\ \A c \in 1 .. n : d + c = c
      BY <1>13, <2>2
    <3>2. QED
      BY <1>12, <1>22, <3>1
  <2>3. QED
    BY <2>1, <2>2
<1>18. (d = Len(T) + Len(F) /\ e = 0) \/ (d = 0 /\ e = n)
  OBVIOUS
<1> HIDE DEF d, e
<1>19. UserPlaces(w, ps, t, calls, Len(T), Len(F), d, e)
  <2>1. \A c \in 1 .. n :
           /\ ps[d + c].kind = "result" /\ ps[d + c].tag = <<t, c>> /\ ps[d + c].of = calls[c].tag
           /\ w # "gemini" => ps[d + c].key = calls[c].id
    BY <1>7, <1>17 DEF ResultsFor
  <2>2. Len(T) = 1 => ps[e + 1].kind = "text" /\ ps[e + 1].tag = <<t, n + 1>>
    BY <1>11, <1>16
  <2>3. Len(F) = 1 => /\ ps[e + (Len(T) + 1)].kind = "file"
                      /\ ps[e + (Len(T) + 1)].tag \in {<<t, 0>>, <<t, n + 2>>}
    BY <1>5, <1>16 DEF FileShown
  <2>4. Len(T) \in {0, 1} /\ Len(F) \in {0, 1} /\ n \in Nat /\ Len(ps) = (Len(T) + Len(F)) + n
    BY <1>2, <1>11, <1>15, <1>22
  <2>5. QED
    BY <1>18, <2>1, <2>2, <2>3, <2>4 DEF UserPlaces
<1>20. FilePlace(w, fetch, ps, files, Len(T), Len(F), e)
  BY <1>5, <1>16 DEF FilePlace, FileShown
<1>21. QED
  BY <1>11, <1>22, <1>14, <1>19, <1>20 DEF ps, files, bs, UserLaid

-----------------------------------------------------------------------------
(* Where the parts of a conversation are.                                  *)

\* What a provider is told are the parts of the turns and the system prompt.
Told(fetch) ==
    /\ SentParts = Gather(SaidAll(wire, fetch, surface, turns), turns)
    /\ Instructions = SystemMessage.text

\* While a request is out, it is the request of the turns as they are.
LEMMA SentIs ==
    ASSUME TalkInv, Out
    PROVE  /\ surface \in {"messages", "chat"} /\ TurnsInv(surface, turns) /\ turns \in Seq(TurnSet)
           /\ turns # <<>> /\ turns[Len(turns)].role = "user" /\ wire \in Wires
           /\ \E stream \in Modes(wire), a \in Shown(wire, AllFiles(Common)), fetch \in Fetches :
                 Verdict(wire, stream, a, AllFiles(Common), fetch) = "sent" /\ Told(fetch)
<1>1. /\ surface \in {"messages", "chat"} /\ TurnsInv(surface, turns) /\ turns \in Seq(TurnSet)
      /\ turns # <<>> /\ turns[Len(turns)].role = "user" /\ wire \in Wires
  BY DEF TalkInv, TurnsInv, SentInv
<1>2. PICK stream \in Modes(wire), a \in Shown(wire, AllFiles(Common)), fetch \in Fetches :
         Verdict(wire, stream, a, AllFiles(Common), fetch) = "sent" /\ sent = Request(wire, Common, fetch)
  BY DEF TalkInv, SentInv
<1>3. Common = CommonOf(surface, turns)
  BY DEF Common, CommonOf
<1>4. /\ Heard(sent.messages) = Gather(SaidAll(wire, fetch, surface, turns), turns)
      /\ sent.system \o Tags(Prompted(sent.messages)) = SystemMessage.text
  BY <1>1, <1>2, <1>3, TurnsHeard
<1>5. SentParts = Heard(sent.messages) /\ Instructions = sent.system \o Tags(Prompted(sent.messages))
  BY DEF SentParts, Heard, Instructions, SystemParts, Prompted
<1>6. Told(fetch)
  BY <1>4, <1>5 DEF Told
<1>7. QED
  BY <1>1, <1>2, <1>6

\* Of the invariant: every word reaches the provider once, in order.
LEMMA WordsReach ==
    ASSUME TalkInv
    PROVE  WordsKept
<1> SUFFICES ASSUME Out
             PROVE  /\ Instructions = SystemMessage.text
                    /\ TagsOf("text") = Said("text")
                    /\ TagsOf("call") = Said("tool_use")
                    /\ TagsOf("result") = Said("tool_result")
  BY DEF WordsKept
<1>1. /\ surface \in {"messages", "chat"} /\ turns \in Seq(TurnSet) /\ wire \in Wires
      /\ \E fetch \in Fetches : Told(fetch)
  BY SentIs
<1>2. PICK fetch \in Fetches : Told(fetch)
  BY <1>1
<1>3. \A k : TagsOf(k) = Tags(OfKind(Gather(SaidAll(wire, fetch, surface, turns), turns), k))
  BY <1>2 DEF TagsOf, Told
<1>4. \A b : Said(b) = WordsOf(turns, b)
  BY DEF Said, WordsOf
<1>5. Tags(OfKind(Gather(SaidAll(wire, fetch, surface, turns), turns), "text")) = WordsOf(turns, "text")
  BY <1>1, WordsSaid DEF BlockFor
<1>6. Tags(OfKind(Gather(SaidAll(wire, fetch, surface, turns), turns), "call")) = WordsOf(turns, "tool_use")
  BY <1>1, WordsSaid DEF BlockFor
<1>7. Tags(OfKind(Gather(SaidAll(wire, fetch, surface, turns), turns), "result")) = WordsOf(turns, "tool_result")
  BY <1>1, WordsSaid DEF BlockFor
<1>8. QED
  BY <1>2, <1>3, <1>4, <1>5, <1>6, <1>7 DEF Told

\* The parts sent, turn by turn.
PartsByTurn(fetch) == [t \in DOMAIN turns |-> SaidAll(wire, fetch, surface, turns)[turns[t]]]

\* ss are the parts sent, turn by turn.
Layout(fetch, ss) ==
    /\ ss \in Seq(Seq(PartSet(Names(turns)))) /\ Len(ss) = Len(turns) /\ Len(turns) \in Nat
    /\ SentParts = FlattenSeq(ss) /\ SentParts \in Seq(PartSet(Names(turns)))
    /\ \A t \in 1 .. Len(turns) : ss[t] = TurnSaid(wire, fetch, surface, turns, turns[t])

\* What is sent is laid out turn by turn.
LEMMA LaidOut ==
    ASSUME TalkInv, Out, NEW fetch, Told(fetch)
    PROVE  Layout(fetch, PartsByTurn(fetch))
<1> DEFINE P == PartSet(Names(turns))
<1> DEFINE g == SaidAll(wire, fetch, surface, turns)
<1> DEFINE ss == PartsByTurn(fetch)
<1>1. surface \in {"messages", "chat"} /\ turns \in Seq(TurnSet) /\ wire \in Wires
  BY SentIs
<1>2. GivesSeqs(g, TurnSet, P)
  BY <1>1, SaidAllTyped
<1>3. SentParts = Gather(g, turns)
  BY DEF Told
<1>4. \A t \in 1 .. Len(turns) : turns[t] \in TurnSet
  BY <1>1, ElementOfSeq
<1>5. DOMAIN turns = 1 .. Len(turns) /\ Len(turns) \in Nat
  BY <1>1, LenProperties
<1>6. \A t \in 1 .. Len(turns) : ss[t] = TurnSaid(wire, fetch, surface, turns, turns[t])
  BY <1>4, <1>5 DEF PartsByTurn, SaidAll
<1> HIDE DEF P, g
<1>7. SentParts \in Seq(P)
  BY <1>1, <1>2, <1>3, GatherTyped
<1>8. ss = Row(g, turns)
  BY DEF PartsByTurn, g, Row
<1>10. ss \in Seq(Seq(P)) /\ Len(ss) = Len(turns)
  <2>1. Row(g, turns) \in Seq(Seq(P)) /\ Len(Row(g, turns)) = Len(turns)
    BY <1>1, <1>2, RowTyped
  <2>2. QED
    BY <1>8, <2>1
<1>11. SentParts = FlattenSeq(ss)
  BY <1>3, <1>8 DEF Gather, Row
<1> HIDE DEF ss
<1>12. QED
  BY <1>5, <1>6, <1>7, <1>10, <1>11 DEF Layout, ss, P

\* Every turn is the user's or an answer, and its parts are where they are.
LEMMA TurnPlaces ==
    ASSUME TalkInv, Out, NEW fetch, NEW ss, Layout(fetch, ss), NEW t \in 1 .. Len(turns)
    PROVE  /\ turns[t].blocks \in Seq(BlockSet) /\ CallsBefore(turns, t) \in Seq(CallBlocks)
           /\ \/ /\ turns[t].role = "user" /\ (t # 1 => turns[t - 1].role = "assistant")
                 /\ UserTurn(surface, turns[t], t, CallsBefore(turns, t))
                 /\ UserLaid(wire, fetch, ss[t], t, CallsBefore(turns, t), OfKind(turns[t].blocks, "file"))
              \/ /\ turns[t].role = "assistant" /\ t # 1 /\ turns[t - 1].role = "user"
                 /\ AnswerTurn(turns[t], t)
                 /\ \E a \in {0, 1} :
                       AnswerPlaces(wire, ss[t], t, OfKind(turns[t].blocks, "tool_use"), a)
<1>1. surface \in {"messages", "chat"} /\ TurnsInv(surface, turns) /\ turns \in Seq(TurnSet) /\ wire \in Wires
  BY SentIs
<1>2. TurnAt(surface, turns, t) /\ turns[t] \in TurnSet /\ (t # 1 => turns[t - 1] \in TurnSet)
  BY <1>1, ElementOfSeq DEF TurnsInv, Layout
<1>3. turns[t].blocks \in Seq(BlockSet) /\ (t # 1 => turns[t - 1].blocks \in Seq(BlockSet))
  BY <1>2 DEF TurnSet
<1>4. CallsBefore(turns, t) \in Seq(CallBlocks)
  BY <1>3, BlocksOf, EmptySeq DEF CallsBefore
<1>5. ss[t] = TurnSaid(wire, fetch, surface, turns, turns[t]) /\ t \in Nat
  BY DEF Layout
<1>6. CASE UserTurn(surface, turns[t], t, CallsBefore(turns, t)) /\ (t # 1 => turns[t - 1].role = "assistant")
  <2>1. turns[t].role = "user"
    BY <1>6 DEF UserTurn
  <2>2. UserLaid(wire, fetch, ss[t], t, CallsBefore(turns, t), OfKind(turns[t].blocks, "file"))
    <3> DEFINE turn == turns[t]
    <3> DEFINE calls == CallsBefore(turns, t)
    <3>1. turn \in TurnSet /\ calls \in Seq(CallBlocks) /\ UserTurn(surface, turn, t, calls)
      BY <1>2, <1>4, <1>6
    <3> HIDE DEF turn, calls
    <3>2. UserLaid(wire, fetch, TurnSaid(wire, fetch, surface, turns, turn), t, calls, OfKind(turn.blocks, "file"))
      BY <1>1, <1>5, <3>1, UserSaid
    <3>3. QED
      BY <1>5, <3>2 DEF turn, calls
  <2>3. QED
    BY <1>3, <1>4, <1>6, <2>1, <2>2
<1>7. CASE AnswerTurn(turns[t], t) /\ t # 1 /\ turns[t - 1].role = "user"
  <2>1. turns[t].role = "assistant"
    BY <1>7 DEF AnswerTurn
  <2>2. \E a \in {0, 1} : AnswerPlaces(wire, ss[t], t, OfKind(turns[t].blocks, "tool_use"), a)
    <3> DEFINE turn == turns[t]
    <3>1. turn \in TurnSet /\ AnswerTurn(turn, t)
      BY <1>2, <1>7
    <3> HIDE DEF turn
    <3>2. \E a \in {0, 1} : AnswerPlaces(wire, TurnSaid(wire, fetch, surface, turns, turn), t, OfKind(turn.blocks, "tool_use"), a)
      BY <1>1, <1>5, <3>1, AnswerSaid
    <3>3. QED
      BY <1>5, <3>2 DEF turn
  <2>3. QED
    BY <1>3, <1>4, <1>7, <2>1, <2>2
<1>8. QED
  BY <1>2, <1>6, <1>7 DEF TurnAt

\* A part of what is sent is a part of one turn.
LEMMA PartOfTurn ==
    ASSUME NEW fetch, NEW ss, Layout(fetch, ss), NEW i \in DOMAIN SentParts
    PROVE  \E t \in 1 .. Len(turns) : \E l \in 1 .. Len(ss[t]) :
               i = Before(ss, t) + l /\ SentParts[i] = ss[t][l]
<1> DEFINE P == PartSet(Names(turns))
<1>1. ss \in Seq(Seq(P)) /\ Len(ss) = Len(turns) /\ SentParts = FlattenSeq(ss) /\ SentParts \in Seq(P)
  BY DEF Layout
<1> HIDE DEF P
<1>2. i \in 1 .. Len(FlattenSeq(ss))
  BY <1>1, LenProperties
<1>3. \E t \in 1 .. Len(ss) : \E l \in 1 .. Len(ss[t]) : i = Before(ss, t) + l /\ FlattenSeq(ss)[i] = ss[t][l]
  BY <1>1, <1>2, PlaceOf
<1>4. QED
  BY <1>1, <1>3

\* And the parts of a turn are parts of what is sent, after those of the turns before.
LEMMA PartOfAll ==
    ASSUME NEW fetch, NEW ss, Layout(fetch, ss), NEW t \in 1 .. Len(turns)
    PROVE  /\ Before(ss, t) \in Nat /\ Len(ss[t]) \in Nat /\ Before(ss, t + 1) = Before(ss, t) + Len(ss[t])
           /\ \A l \in 1 .. Len(ss[t]) : Before(ss, t) + l \in DOMAIN SentParts /\ SentParts[Before(ss, t) + l] = ss[t][l]
<1> DEFINE P == PartSet(Names(turns))
<1>1. ss \in Seq(Seq(P)) /\ Len(ss) = Len(turns) /\ SentParts = FlattenSeq(ss) /\ SentParts \in Seq(P)
  BY DEF Layout
<1> HIDE DEF P
<1>2. ss[t] \in Seq(P) /\ t \in 1 .. Len(ss)
  BY <1>1, ElementOfSeq
<1>3. Len(ss[t]) \in Nat
  BY <1>2, LenProperties
<1>4. Before(ss, t) \in Nat /\ Before(ss, t + 1) = Before(ss, t) + Len(ss[t])
  BY <1>1, <1>2, BeforeNext
<1>5. DOMAIN SentParts = 1 .. Len(FlattenSeq(ss))
  BY <1>1, LenProperties
<1>6. \A l \in 1 .. Len(ss[t]) : Before(ss, t) + l \in 1 .. Len(FlattenSeq(ss)) /\ FlattenSeq(ss)[Before(ss, t) + l] = ss[t][l]
  BY <1>1, <1>2, PlacedAt
<1>7. QED
  BY <1>1, <1>3, <1>4, <1>5, <1>6

-----------------------------------------------------------------------------
(* Calls carry their own signatures.                                       *)

\* The blocks of a turn, and those of one kind.
BlocksIn == [turn \in TurnSet |-> turn.blocks]
KindIn(k) == [turn \in TurnSet |-> OfKind(turn.blocks, k)]

\* A block of the conversation is a block of one of its turns.
LEMMA BlockPlace ==
    ASSUME turns \in Seq(TurnSet), NEW k, NEW b \in Range(OfKind(AllBlocks, k))
    PROVE  \E t \in 1 .. Len(turns) : \E c \in 1 .. Len(OfKind(turns[t].blocks, k)) :
               b = OfKind(turns[t].blocks, k)[c]
<1> DEFINE g == KeepKind(k, BlockSet)
<1> DEFINE h == KindIn(k)
<1> DEFINE f == BlocksIn
<1>1. GivesSeqs(f, TurnSet, BlockSet)
  BY DEF BlocksIn, TurnSet, GivesSeqs
<1>2. \A turn \in TurnSet : OfKind(turn.blocks, k) \in Seq(BlockSet) /\ OfKind(turn.blocks, k) = Gather(g, turn.blocks)
  <2> TAKE turn \in TurnSet
  <2>1. turn.blocks \in Seq(BlockSet)
    BY DEF TurnSet
  <2>2. OfKind(turn.blocks, k) \in Seq({p \in BlockSet : p.kind = k})
    BY <2>1, OfKindTyped
  <2>3. OfKind(turn.blocks, k) \in Seq(BlockSet)
    <3> DEFINE S == {p \in BlockSet : p.kind = k}
    <3>1. S \subseteq BlockSet
      OBVIOUS
    <3> HIDE DEF S
    <3>2. QED
      BY <2>2, <3>1, Wider DEF S
  <2>4. QED
    BY <2>1, <2>3, OfKindIs
<1>3. GivesSeqs(h, TurnSet, BlockSet)
  BY <1>2 DEF KindIn, GivesSeqs
<1>4. Composed(h, g, f, TurnSet)
  BY <1>2 DEF KindIn, BlocksIn, Composed
<1>5. GivesSeqs(g, BlockSet, BlockSet)
  <2>1. \A p \in BlockSet : <<p>> \in Seq(BlockSet) /\ <<>> \in Seq(BlockSet)
    BY EmptySeq
  <2>2. QED
    BY <2>1 DEF KeepKind, GivesSeqs
<1>6. AllBlocks = Gather(f, turns)
  <2>1. \A t \in DOMAIN turns : turns[t] \in TurnSet
    BY ElementOfSeq, LenProperties
  <2>2. [t \in DOMAIN turns |-> turns[t].blocks] = [t \in DOMAIN turns |-> BlocksIn[turns[t]]]
    BY <2>1 DEF BlocksIn
  <2>3. QED
    BY <2>2 DEF AllBlocks, Each, Gather
<1> DEFINE ss == Row(h, turns)
<1>7. \A t \in 1 .. Len(turns) : ss[t] = OfKind(turns[t].blocks, k)
  <2>1. DOMAIN turns = 1 .. Len(turns) /\ \A t \in 1 .. Len(turns) : turns[t] \in TurnSet
    BY ElementOfSeq, LenProperties
  <2>2. QED
    BY <2>1 DEF Row, KindIn
<1> HIDE DEF f, g, h
<1>8. Gather(f, turns) \in Seq(BlockSet)
  BY <1>1, GatherTyped
<1>9. OfKind(AllBlocks, k) = Gather(h, turns)
  <2>1. OfKind(AllBlocks, k) = Gather(g, AllBlocks)
    BY <1>6, <1>8, OfKindIs DEF g
  <2>2. Gather(g, Gather(f, turns)) = Gather(h, turns)
    BY <1>1, <1>4, <1>5, GatherThrough
  <2>3. QED
    BY <1>6, <2>1, <2>2
<1>10. ss \in Seq(Seq(BlockSet)) /\ Len(ss) = Len(turns)
  BY <1>3, RowTyped
<1>11. Gather(h, turns) = FlattenSeq(ss)
  BY DEF Gather, Row
<1> HIDE DEF ss
<1>12. FlattenSeq(ss) \in Seq(BlockSet)
  BY <1>10, FlattenTyped
<1>13. PICK i \in 1 .. Len(FlattenSeq(ss)) : b = FlattenSeq(ss)[i]
  BY <1>9, <1>11, <1>12, LenProperties DEF Range
<1>14. \E t \in 1 .. Len(ss) : \E l \in 1 .. Len(ss[t]) :
         i = Before(ss, t) + l /\ FlattenSeq(ss)[i] = ss[t][l]
  BY <1>10, PlaceOf
<1>15. QED
  BY <1>7, <1>10, <1>13, <1>14

\* The places of an answer are all its places.
LEMMA AnswerAt ==
    ASSUME NEW w, NEW ps, NEW t, NEW calls, NEW a, AnswerPlaces(w, ps, t, calls, a), NEW l \in 1 .. Len(ps)
    PROVE  (a = 1 /\ l = 1) \/ \E c \in 1 .. Len(calls) : l = a + c
<1>1. a \in {0, 1} /\ Len(calls) \in Nat /\ Len(ps) = a + Len(calls)
  BY DEF AnswerPlaces
<1>2. CASE l = 1 /\ a = 1
  BY <1>2
<1>3. CASE ~(l = 1 /\ a = 1)
  <2>1. l - a \in 1 .. Len(calls) /\ l = a + (l - a)
    BY <1>1, <1>3
  <2>2. QED
    BY <2>1
<1>4. QED
  BY <1>2, <1>3

\* So are those of a user's turn.
LEMMA UserAt ==
    ASSUME NEW w, NEW ps, NEW t, NEW calls, NEW a, NEW f, NEW d, NEW e,
           UserPlaces(w, ps, t, calls, a, f, d, e), NEW l \in 1 .. Len(ps)
    PROVE  (a = 1 /\ l = e + 1) \/ (f = 1 /\ l = e + (a + 1)) \/ \E c \in 1 .. Len(calls) : l = d + c
<1>1. a \in {0, 1} /\ f \in {0, 1} /\ Len(calls) \in Nat /\ Len(ps) = (a + f) + Len(calls)
      /\ ((d = a + f /\ e = 0) \/ (d = 0 /\ e = Len(calls)))
  BY DEF UserPlaces
<1>2. CASE l - d \in 1 .. Len(calls)
  <2>1. l = d + (l - d)
    BY <1>1
  <2>2. QED
    BY <1>2, <2>1
<1>3. CASE l - d \notin 1 .. Len(calls)
  <2>1. l - e \in 1 .. (a + f)
    BY <1>1, <1>3
  <2>2. QED
    BY <1>1, <2>1
<1>4. QED
  BY <1>2, <1>3

\* Every part says which turn it is of.
LEMMA PartTags ==
    ASSUME TalkInv, Out, NEW fetch, NEW ss, Layout(fetch, ss), NEW t \in 1 .. Len(turns), NEW l \in 1 .. Len(ss[t])
    PROVE  \E z : ss[t][l].tag = <<t, z>>
<1>1. CASE /\ turns[t].role = "user"
           /\ UserLaid(wire, fetch, ss[t], t, CallsBefore(turns, t), OfKind(turns[t].blocks, "file"))
  <2> DEFINE calls == CallsBefore(turns, t)
  <2> DEFINE ps == ss[t]
  <2>1. PICK a \in {0, 1}, f \in {0, 1}, d \in Nat, e \in Nat : UserPlaces(wire, ps, t, calls, a, f, d, e)
    BY <1>1 DEF UserLaid
  <2> HIDE DEF calls, ps
  <2>2. l \in 1 .. Len(ps)
    BY DEF ps
  <2>3. (a = 1 /\ l = e + 1) \/ (f = 1 /\ l = e + (a + 1)) \/ \E c \in 1 .. Len(calls) : l = d + c
    BY <2>1, <2>2, UserAt
  <2>4. \E z : ps[l].tag = <<t, z>>
    <3>1. CASE a = 1 /\ l = e + 1
      BY <2>1, <3>1 DEF UserPlaces
    <3>2. CASE f = 1 /\ l = e + (a + 1)
      <4>1. ps[e + (a + 1)].tag \in {<<t, 0>>, <<t, Len(calls) + 2>>}
        BY <2>1, <3>2 DEF UserPlaces
      <4>2. QED
        BY <3>2, <4>1
    <3>3. CASE \E c \in 1 .. Len(calls) : l = d + c
      <4>1. \A c \in 1 .. Len(calls) : ps[d + c].tag = <<t, c>>
        BY <2>1 DEF UserPlaces
      <4>2. QED
        BY <3>3, <4>1
    <3>4. QED
      BY <2>3, <3>1, <3>2, <3>3
  <2>5. QED
    BY <2>4 DEF ps
<1>2. CASE /\ turns[t].role = "assistant"
           /\ \E a \in {0, 1} : AnswerPlaces(wire, ss[t], t, OfKind(turns[t].blocks, "tool_use"), a)
  <2> DEFINE calls == OfKind(turns[t].blocks, "tool_use")
  <2> DEFINE ps == ss[t]
  <2>1. PICK a \in {0, 1} : AnswerPlaces(wire, ps, t, calls, a)
    BY <1>2
  <2> HIDE DEF calls, ps
  <2>2. l \in 1 .. Len(ps)
    BY DEF ps
  <2>3. (a = 1 /\ l = 1) \/ \E c \in 1 .. Len(calls) : l = a + c
    BY <2>1, <2>2, AnswerAt
  <2>4. \E z : ps[l].tag = <<t, z>>
    BY <2>1, <2>3 DEF AnswerPlaces
  <2>5. QED
    BY <2>4 DEF ps
<1>3. QED
  BY <1>1, <1>2, TurnPlaces

\* So a part of one turn has no tag of another.
LEMMA TagsApart ==
    ASSUME TalkInv, Out, NEW fetch, NEW ss, Layout(fetch, ss), NEW t \in 1 .. Len(turns), NEW l \in 1 .. Len(ss[t]),
           NEW u, NEW z, ss[t][l].tag = <<u, z>>
    PROVE  t = u
<1>1. PICK y : ss[t][l].tag = <<t, y>>
  BY PartTags
<1>2. QED
  BY <1>1

\* Of the invariant: a call on its way to Gemini carries its own signature.
LEMMA SignaturesOwn ==
    ASSUME TalkInv
    PROVE  OwnSignature
<1> SUFFICES ASSUME Out, wire = "gemini", NEW b \in Range(OfKind(AllBlocks, "tool_use")),
                    NEW i \in DOMAIN SentParts, SentParts[i].tag = b.tag
             PROVE  SentParts[i].sig = IF b.sig # NoSig THEN b.sig ELSE NotOurs
  BY DEF OwnSignature
<1>1. turns \in Seq(TurnSet) /\ \E fetch \in Fetches : Told(fetch)
  BY SentIs
<1>2. PICK fetch \in Fetches : Told(fetch)
  BY <1>1
<1> DEFINE ss == PartsByTurn(fetch)
<1>3. Layout(fetch, ss)
  BY <1>2, LaidOut
<1> HIDE DEF ss
<1>4. PICK t \in 1 .. Len(turns) : \E c \in 1 .. Len(OfKind(turns[t].blocks, "tool_use")) :
         b = OfKind(turns[t].blocks, "tool_use")[c]
  BY <1>1, BlockPlace
<1> DEFINE calls == OfKind(turns[t].blocks, "tool_use")
<1> DEFINE ps == ss[t]
<1>5. PICK c \in 1 .. Len(calls) : b = calls[c]
  BY <1>4
<1>6. \E a \in {0, 1} : AnswerPlaces(wire, ps, t, calls, a)
  <2>1. CASE UserTurn(surface, turns[t], t, CallsBefore(turns, t))
    <3>1. Len(calls) = 0
      BY <2>1 DEF UserTurn
    <3>2. QED
      BY <1>5, <3>1
  <2>2. QED
    BY <1>3, <2>1, TurnPlaces
<1>7. PICK u \in 1 .. Len(turns) : \E l \in 1 .. Len(ss[u]) : SentParts[i] = ss[u][l]
  BY <1>3, PartOfTurn
<1>8. PICK l \in 1 .. Len(ss[u]) : SentParts[i] = ss[u][l]
  BY <1>7
<1> HIDE DEF calls
<1>9. PICK a \in {0, 1} : AnswerPlaces(wire, ps, t, calls, a)
  BY <1>6
<1>10. b.tag = <<t, 1 + c>> /\ c >= 1
  <2>1. \A x \in 1 .. Len(calls) : calls[x].tag = <<t, 1 + x>>
    BY <1>9 DEF AnswerPlaces
  <2>2. QED
    BY <1>5, <2>1
<1>11. u = t
  <2>1. ss[u][l].tag = <<t, 1 + c>>
    BY <1>8, <1>10
  <2>2. QED
    BY <1>3, <1>8, <2>1, TagsApart
<1>12. l \in 1 .. Len(ps) /\ ps[l] = SentParts[i]
  BY <1>8, <1>11
<1> HIDE DEF ps
<1>13. (a = 1 /\ l = 1) \/ \E x \in 1 .. Len(calls) : l = a + x
  BY <1>9, <1>12, AnswerAt
<1>14. CASE a = 1 /\ l = 1
  BY <1>9, <1>10, <1>12, <1>14 DEF AnswerPlaces
<1>15. CASE \E x \in 1 .. Len(calls) : l = a + x
  <2>1. PICK x \in 1 .. Len(calls) : l = a + x
    BY <1>15
  <2>2. ps[l].tag = <<t, 1 + x>> /\ ps[l].sig = IF calls[x].sig # NoSig THEN calls[x].sig ELSE NotOurs
    BY <1>9, <2>1 DEF AnswerPlaces
  <2>3. x = c
    BY <1>10, <1>12, <2>2
  <2>4. QED
    BY <1>5, <1>12, <2>2, <2>3
<1>16. QED
  BY <1>13, <1>14, <1>15

-----------------------------------------------------------------------------
(* Calls meet their own results.                                           *)

\* The call at m of ps meets its own result at n of qs, and no other with its key before.
Meets(ps, m, qs, n) ==
    /\ n \in 1 .. Len(qs) /\ qs[n].kind = "result" /\ qs[n].key = ps[m].key /\ qs[n].of = ps[m].tag
    /\ \A l \in 1 .. Len(ps) : l > m => ps[l].kind # "result"
    /\ \A l \in 1 .. Len(qs) : l < n /\ qs[l].kind = "result" => qs[l].key # ps[m].key

\* The turn after an answer brings back the results of its calls in their order, and
\* the ids of the calls of one answer differ.
LEMMA CallsMeet ==
    ASSUME NEW w, w # "gemini", NEW ps, NEW t, NEW calls, NEW a, AnswerPlaces(w, ps, t, calls, a),
           NEW qs, NEW u, NEW b, NEW f, NEW d, NEW e, UserPlaces(w, qs, u, calls, b, f, d, e),
           NEW c \in 1 .. Len(calls)
    PROVE  Meets(ps, a + c, qs, d + c)
<1>1. a \in {0, 1} /\ Len(calls) \in Nat /\ Len(ps) = a + Len(calls)
      /\ b \in {0, 1} /\ f \in {0, 1} /\ Len(qs) = (b + f) + Len(calls)
      /\ ((d = b + f /\ e = 0) \/ (d = 0 /\ e = Len(calls)))
  BY DEF AnswerPlaces, UserPlaces
<1>2. d + c \in 1 .. Len(qs)
  BY <1>1
<1>3. \A x \in 1 .. Len(calls) : ps[a + x].kind = "call" /\ ps[a + x].key = calls[x].id
                                 /\ ps[a + x].tag = calls[x].tag /\ calls[x].id.nth = x
  BY DEF AnswerPlaces
<1>4. \A x \in 1 .. Len(calls) : qs[d + x].kind = "result" /\ qs[d + x].key = calls[x].id
                                 /\ qs[d + x].of = calls[x].tag
  BY DEF UserPlaces
<1>5. ASSUME NEW l \in 1 .. Len(ps), l > a + c PROVE ps[l].kind # "result"
  <2>1. l - a \in 1 .. Len(calls) /\ l = a + (l - a)
    BY <1>1, <1>5
  <2>2. QED
    BY <1>3, <2>1
<1>6. ASSUME NEW l \in 1 .. Len(qs), l < d + c, qs[l].kind = "result" PROVE qs[l].key # ps[a + c].key
  <2>1. (b = 1 /\ l = e + 1) \/ (f = 1 /\ l = e + (b + 1)) \/ \E x \in 1 .. Len(calls) : l = d + x
    BY UserAt
  <2>2. b = 1 => qs[e + 1].kind = "text"
    BY DEF UserPlaces
  <2>3. f = 1 => qs[e + (b + 1)].kind = "file"
    BY DEF UserPlaces
  <2>4. PICK x \in 1 .. Len(calls) : l = d + x
    BY <1>6, <2>1, <2>2, <2>3
  <2>5. x # c
    BY <1>1, <1>6, <2>4
  <2>6. QED
    BY <1>3, <1>4, <2>4, <2>5
<1>7. QED
  BY <1>2, <1>3, <1>4, <1>5, <1>6 DEF Meets

\* Of the invariant: a call meets its own result first.
LEMMA CallsGetResults ==
    ASSUME TalkInv
    PROVE  ResultsMeetCalls
<1> SUFFICES ASSUME Out, wire # "gemini", NEW i \in DOMAIN SentParts, SentParts[i].kind = "call"
             PROVE  \E j \in DOMAIN SentParts :
                       /\ j > i /\ SentParts[j].kind = "result"
                       /\ SentParts[j].key = SentParts[i].key /\ SentParts[j].of = SentParts[i].tag
                       /\ \A k \in i + 1 .. j - 1 :
                             SentParts[k].kind = "result" => SentParts[k].key # SentParts[i].key
  BY DEF ResultsMeetCalls
<1>1. turns # <<>> /\ turns[Len(turns)].role = "user" /\ \E fetch \in Fetches : Told(fetch)
  BY SentIs
<1>2. PICK fetch \in Fetches : Told(fetch)
  BY <1>1
<1> DEFINE ss == PartsByTurn(fetch)
<1>3. Layout(fetch, ss) /\ Len(turns) \in Nat
  BY <1>2, LaidOut DEF Layout
<1> HIDE DEF ss
<1>4. PICK t \in 1 .. Len(turns) : \E l \in 1 .. Len(ss[t]) : i = Before(ss, t) + l /\ SentParts[i] = ss[t][l]
  BY <1>3, PartOfTurn
<1>5. PICK m \in 1 .. Len(ss[t]) : i = Before(ss, t) + m /\ SentParts[i] = ss[t][m]
  BY <1>4
<1> DEFINE calls == OfKind(turns[t].blocks, "tool_use")
<1> DEFINE ps == ss[t]
<1> DEFINE qs == ss[t + 1]
<1>6. turns[t].role = "assistant" /\ \E a \in {0, 1} : AnswerPlaces(wire, ps, t, calls, a)
  <2>1. CASE UserLaid(wire, fetch, ps, t, CallsBefore(turns, t), OfKind(turns[t].blocks, "file"))
    <3> DEFINE back == CallsBefore(turns, t)
    <3>1. PICK a \in {0, 1}, f \in {0, 1}, d \in Nat, e \in Nat : UserPlaces(wire, ps, t, back, a, f, d, e)
      BY <2>1 DEF UserLaid
    <3>2. m \in 1 .. Len(ps) /\ ps[m].kind = "call"
      BY <1>5
    <3> HIDE DEF back, ps
    <3>3. (a = 1 /\ m = e + 1) \/ (f = 1 /\ m = e + (a + 1)) \/ \E c \in 1 .. Len(back) : m = d + c
      BY <3>1, <3>2, UserAt
    <3>4. (a = 1 => ps[e + 1].kind = "text") /\ (f = 1 => ps[e + (a + 1)].kind = "file")
          /\ \A c \in 1 .. Len(back) : ps[d + c].kind = "result"
      BY <3>1 DEF UserPlaces
    <3>5. QED
      BY <3>2, <3>3, <3>4
  <2>2. QED
    BY <1>3, <2>1, TurnPlaces
<1>7. t + 1 \in 1 .. Len(turns)
  <2>1. t # Len(turns)
    BY <1>1, <1>6
  <2>2. QED
    BY <1>3, <2>1
<1>8. UserLaid(wire, fetch, qs, t + 1, calls, OfKind(turns[t + 1].blocks, "file"))
  <2>1. t + 1 # 1 /\ (t + 1) - 1 = t
    BY <1>3
  <2>2. CallsBefore(turns, t + 1) = calls
    BY <2>1 DEF CallsBefore
  <2>3. turns[(t + 1) - 1].role # "user"
    BY <1>6, <2>1
  <2> DEFINE u == t + 1
  <2>4. u \in 1 .. Len(turns) /\ turns[u - 1].role # "user" /\ CallsBefore(turns, u) = calls
    BY <1>7, <2>2, <2>3
  <2> HIDE DEF u, calls
  <2>5. UserLaid(wire, fetch, ss[u], u, calls, OfKind(turns[u].blocks, "file"))
    BY <1>3, <2>4, TurnPlaces
  <2>6. QED
    BY <2>5 DEF u
<1> HIDE DEF calls
<1>9. PICK a \in {0, 1} : AnswerPlaces(wire, ps, t, calls, a)
  BY <1>6
<1>10. PICK b \in {0, 1}, f \in {0, 1}, d \in Nat, e \in Nat : UserPlaces(wire, qs, t + 1, calls, b, f, d, e)
  BY <1>8 DEF UserLaid
<1>11. /\ Before(ss, t) \in Nat /\ Len(ps) \in Nat /\ Before(ss, t + 1) = Before(ss, t) + Len(ps)
       /\ \A l \in 1 .. Len(ps) : Before(ss, t) + l \in DOMAIN SentParts /\ SentParts[Before(ss, t) + l] = ps[l]
  BY <1>3, PartOfAll
<1>12. /\ Before(ss, t + 1) \in Nat /\ Len(qs) \in Nat
       /\ \A l \in 1 .. Len(qs) : Before(ss, t + 1) + l \in DOMAIN SentParts /\ SentParts[Before(ss, t + 1) + l] = qs[l]
  <2> DEFINE u == t + 1
  <2>1. u \in 1 .. Len(turns)
    BY <1>7
  <2> HIDE DEF u
  <2>2. /\ Before(ss, u) \in Nat /\ Len(ss[u]) \in Nat
        /\ \A l \in 1 .. Len(ss[u]) : Before(ss, u) + l \in DOMAIN SentParts /\ SentParts[Before(ss, u) + l] = ss[u][l]
    BY <1>3, <2>1, PartOfAll
  <2>3. QED
    BY <2>2 DEF u
<1> DEFINE p == Before(ss, t)
<1> DEFINE q == Before(ss, t + 1)
<1> HIDE DEF ps, qs, p, q
<1>13. m \in 1 .. Len(ps) /\ i = p + m /\ SentParts[i] = ps[m] /\ ps[m].kind = "call"
  BY <1>5 DEF ps, p
<1>14. PICK c \in 1 .. Len(calls) : m = a + c
  <2>1. (a = 1 /\ m = 1) \/ \E x \in 1 .. Len(calls) : m = a + x
    BY <1>9, <1>13, AnswerAt
  <2>2. a = 1 => ps[1].kind = "text"
    BY <1>9 DEF AnswerPlaces
  <2>3. QED
    BY <1>13, <2>1, <2>2
<1> DEFINE n == d + c
<1>15. Meets(ps, m, qs, n)
  BY <1>9, <1>10, <1>14, CallsMeet
<1> HIDE DEF n
<1>16. p \in Nat /\ q = p + Len(ps) /\ Len(ps) \in Nat /\ Len(qs) \in Nat
       /\ (\A l \in 1 .. Len(ps) : SentParts[p + l] = ps[l])
       /\ (\A l \in 1 .. Len(qs) : q + l \in DOMAIN SentParts /\ SentParts[q + l] = qs[l])
  BY <1>11, <1>12 DEF p, q, ps, qs
<1> DEFINE j == q + n
<1>17. j \in DOMAIN SentParts /\ SentParts[j] = qs[n] /\ n \in 1 .. Len(qs)
  BY <1>15, <1>16 DEF Meets
<1>18. j > i
  BY <1>13, <1>16, <1>17
<1>19. ASSUME NEW k \in i + 1 .. j - 1, SentParts[k].kind = "result" PROVE SentParts[k].key # SentParts[i].key
  <2>1. CASE k <= q
    <3>1. k - p \in 1 .. Len(ps) /\ k - p > m /\ k = p + (k - p)
      BY <1>13, <1>16, <1>17, <2>1
    <3>2. SentParts[k].kind # "result"
      BY <1>15, <1>16, <3>1 DEF Meets
    <3>3. QED
      BY <1>19, <3>2
  <2>2. CASE ~(k <= q)
    <3>1. k - q \in 1 .. Len(qs) /\ k - q < n /\ k = q + (k - q)
      <4> DEFINE w == Len(qs)
      <4>1. i \in Int /\ q \in Nat /\ n \in Nat /\ w \in Nat /\ n <= w
        BY <1>13, <1>16, <1>17
      <4>2. k \in Int /\ k <= j - 1 /\ j = q + n
        BY <4>1
      <4> HIDE DEF j, w
      <4>3. k - q \in Int /\ k - q >= 1 /\ k - q < n /\ k = q + (k - q)
        BY <2>2, <4>1, <4>2
      <4>4. k - q \in 1 .. w
        BY <4>1, <4>3
      <4>5. QED
        BY <4>3, <4>4 DEF w
    <3>2. SentParts[k] = qs[k - q]
      BY <1>16, <3>1
    <3>3. QED
      BY <1>13, <1>15, <1>19, <3>1, <3>2 DEF Meets
  <2>3. QED
    BY <2>1, <2>2
<1>20. SentParts[j].kind = "result" /\ SentParts[j].key = SentParts[i].key /\ SentParts[j].of = SentParts[i].tag
  BY <1>13, <1>15, <1>17 DEF Meets
<1> HIDE DEF j
<1>21. QED
  BY <1>17, <1>18, <1>19, <1>20

-----------------------------------------------------------------------------
(* Inline files are shown once.                                            *)

\* A message of the common shape that carries the file.
Carrier(m, b) == m.role # "tool" /\ b \in Range(m.files)

\* The head of a turn with a file carries it, whatever the surface.
LEMMA HeadCarries ==
    ASSUME NEW s \in {"messages", "chat"}, NEW ts, NEW turn \in TurnSet, NEW b \in FileSet,
           OfKind(turn.blocks, "file") = <<b>>
    PROVE  /\ MessagesOf(s, ts, turn) \in Seq(BodySet(Names(ts)))
           /\ \E x \in 1 .. Len(MessagesOf(s, ts, turn)) : Carrier(MessagesOf(s, ts, turn)[x], b)
<1> DEFINE N == Names(ts)
<1> DEFINE bs == turn.blocks
<1> DEFINE rs == OfKind(bs, "tool_result")
<1> DEFINE text == Tags(OfKind(bs, "text"))
<1> DEFINE calls == CommonCalls(OfKind(bs, "tool_use"))
<1> DEFINE fs == OfKind(bs, "file")
<1> DEFINE tm == ToolMessages(s, ts, rs)
<1> DEFINE m == CommonMessage(turn.role, text, <<>>, fs)
<1> DEFINE ms == MessagesOf(s, ts, turn)
<1>1. turn.role \in {"user", "assistant"} /\ bs \in Seq(BlockSet) /\ fs = <<b>> /\ fs # <<>>
  BY DEF TurnSet
<1>2. OfKind(bs, "tool_use") = <<>>
  BY <1>1 DEF TurnSet
<1>3. calls = <<>>
  BY <1>2 DEF CommonCalls
<1>4. rs \in Seq(ResultBlocks)
  BY <1>1, BlocksOf
<1>5. tm \in Seq(BodySet(N))
  <2>1. "responses" \in Wires
    BY DEF Wires
  <2>2. QED
    BY <1>4, <2>1, BackOut
<1>6. ms \in Seq(BodySet(N))
  <2>1. "responses" \in Wires
    BY DEF Wires
  <2>2. QED
    BY <2>1, TurnOut
<1>7. ms = IF s = "messages" THEN Cat(<<m>>, tm) ELSE Cat(tm, <<m>>)
  <2>1. TurnMessage(turn.role, text, calls, fs, rs = <<>>) = <<m>>
    BY <1>1, <1>3 DEF TurnMessage
  <2>2. ~(text = <<>> /\ calls = <<>> /\ fs = <<>>) /\ CommonMessage(turn.role, text, calls, fs) = m
    BY <1>1, <1>3
  <2>3. CASE s = "messages"
    BY <2>1, <2>3 DEF MessagesOf, TranslateMessage, ToolMessages, NameFor, Cat
  <2>4. CASE s # "messages"
    BY <2>2, <2>4 DEF MessagesOf, ConvertMessage, ToolMessages, NameFor, Cat
  <2>5. QED
    BY <2>3, <2>4
<1>8. Carrier(m, b)
  <2>1. m.role = turn.role /\ m.files = <<b>>
    BY <1>1 DEF CommonMessage
  <2>2. b \in Range(<<b>>)
    <3>1. 1 \in DOMAIN <<b>> /\ <<b>>[1] = b
      OBVIOUS
    <3>2. QED
      BY <3>1 DEF Range
  <2> HIDE DEF m
  <2>3. m.role # "tool"
    BY <1>1, <2>1
  <2>4. QED
    BY <2>1, <2>2, <2>3 DEF Carrier
<1>9. \E x \in 1 .. Len(ms) : ms[x] = m
  <2> DEFINE X == BodySet(N) \cup {m}
  <2> DEFINE one == <<m>>
  <2>1. one \in Seq(X) /\ Len(one) = 1 /\ one[1] = m
    OBVIOUS
  <2>2. BodySet(N) \subseteq X
    OBVIOUS
  <2> HIDE DEF X, one, tm, m, ms, N
  <2>3. tm \in Seq(X)
    BY <1>5, <2>2, Wider
  <2>4. Joins(Cat(one, tm), one, tm) /\ Joins(Cat(tm, one), tm, one)
    BY <2>1, <2>3, CatAt
  <2>5. ms = Cat(one, tm) \/ ms = Cat(tm, one)
    BY <1>7 DEF one
  <2>6. CASE ms = Cat(one, tm)
    <3>1. Len(ms) = 1 + Len(tm) /\ Len(tm) \in Nat /\ ms[1] = m
      BY <2>1, <2>4, <2>6 DEF Joins
    <3>2. 1 \in 1 .. Len(ms)
      BY <3>1
    <3>3. QED
      BY <3>1, <3>2
  <2>7. CASE ms = Cat(tm, one)
    <3>1. Len(ms) = Len(tm) + 1 /\ Len(tm) \in Nat /\ ms[Len(tm) + 1] = m
      BY <2>1, <2>4, <2>7 DEF Joins
    <3>2. Len(tm) + 1 \in 1 .. Len(ms)
      BY <3>1
    <3>3. QED
      BY <3>1, <3>2
  <2>8. QED
    BY <2>5, <2>6, <2>7
<1> HIDE DEF m, ms
<1>10. QED
  BY <1>6, <1>8, <1>9 DEF ms

\* A file of a turn is among the files that are checked before anything is sent.
LEMMA FileChecked ==
    ASSUME NEW s \in {"messages", "chat"}, NEW ts \in Seq(TurnSet), NEW t \in 1 .. Len(ts), NEW b \in FileSet,
           OfKind(ts[t].blocks, "file") = <<b>>
    PROVE  b \in AllFiles(CommonOf(s, ts))
<1> DEFINE B == BodySet(Names(ts))
<1> DEFINE f == BodyOf(s, ts)
<1> DEFINE ss == Row(f, ts)
<1> DEFINE body == Gather(f, ts)
<1> DEFINE ms == CommonOf(s, ts)
<1>1. GivesSeqs(f, TurnSet, B) /\ ms = <<SystemMessage>> \o body /\ body \in Seq(B)
  BY BodyIs
<1>2. ts[t] \in TurnSet /\ ss[t] = MessagesOf(s, ts, ts[t])
  BY ElementOfSeq, LenProperties DEF Row, BodyOf
<1>3. \E x \in 1 .. Len(ss[t]) : Carrier(ss[t][x], b)
  <2> DEFINE turn == ts[t]
  <2>1. turn \in TurnSet /\ OfKind(turn.blocks, "file") = <<b>>
    BY <1>2
  <2> HIDE DEF turn
  <2>2. \E x \in 1 .. Len(MessagesOf(s, ts, turn)) : Carrier(MessagesOf(s, ts, turn)[x], b)
    BY <2>1, HeadCarries
  <2>3. QED
    BY <1>2, <2>2 DEF turn
<1>4. body = FlattenSeq(ss)
  BY DEF Gather, Row
<1> HIDE DEF B, f
<1>5. ss \in Seq(Seq(B)) /\ Len(ss) = Len(ts)
  BY <1>1, RowTyped
<1> HIDE DEF ss, body, ms
<1>6. PICK x \in 1 .. Len(ss[t]) : Carrier(ss[t][x], b)
  BY <1>3
<1>7. Before(ss, t) + x \in 1 .. Len(body) /\ body[Before(ss, t) + x] = ss[t][x]
  BY <1>4, <1>5, PlacedAt
<1> DEFINE n == Before(ss, t) + x
<1>8. n \in 1 .. Len(body) /\ Carrier(body[n], b)
  BY <1>6, <1>7
<1> HIDE DEF n
<1>9. 1 + n \in DOMAIN ms /\ ms[1 + n] = body[n]
  <2> DEFINE X == B \cup {SystemMessage}
  <2> DEFINE one == <<SystemMessage>>
  <2>1. one \in Seq(X) /\ Len(one) = 1 /\ B \subseteq X
    OBVIOUS
  <2>2. ms = Cat(one, body)
    BY <1>1 DEF Cat
  <2> HIDE DEF X, one
  <2>3. body \in Seq(X)
    BY <1>1, <2>1, Wider
  <2>4. Joins(ms, one, body) /\ ms \in Seq(X)
    BY <2>1, <2>2, <2>3, CatAt, CatTyped
  <2>5. DOMAIN ms = 1 .. Len(ms) /\ Len(ms) = 1 + Len(body) /\ ms[1 + n] = body[n] /\ Len(body) \in Nat
    BY <1>8, <2>1, <2>4, LenProperties DEF Joins
  <2>6. QED
    BY <1>8, <2>5
<1>10. ms[1 + n].role # "tool" /\ b \in Range(ms[1 + n].files)
  BY <1>8, <1>9 DEF Carrier
<1>11. b \in AllFiles(ms)
  BY <1>9, <1>10 DEF AllFiles
<1>12. QED
  BY <1>11 DEF ms

\* Where files have a place at all, an inline file that is let through is placed.
LEMMA InlinePlaced ==
    ASSUME NEW w \in Wires, w # "completions", NEW fs, NEW stream \in Modes(w), NEW a \in Shown(w, fs), NEW fetch,
           Verdict(w, stream, a, fs, fetch) = "sent", NEW b \in fs, b \in FileSet, b.source = "base64"
    PROVE  FilePart(w, b, fetch) = "part"
<1>1. Validates(w, stream)
  BY DEF Validates
<1>2. b.type = "text" \/ b.type \in a
  BY <1>1 DEF Verdict, Unsupported
<1>3. PICK o \in Models(w) : a = o \cap {f.type : f \in fs}
  BY DEF Shown
<1>4. b.type = "text" \/ b.type \in o
  BY <1>2, <1>3
<1> DEFINE y == b.type
<1>5. CASE w = "responses"
  <2>1. y \in {"text", "image", "pdf", "audio"}
    BY <1>4, <1>5 DEF Models, OpenAIModels
  <2>2. QED
    BY <1>5, <2>1 DEF FilePart, OpenAIFile, OpenAIImage, OpenAIAudio
<1>6. CASE w = "gemini"
  BY <1>6 DEF FilePart, GeminiFile, GeminiMedia
<1>7. CASE w = "converse"
  <2>1. y \in {"text", "image", "pdf"}
    BY <1>4, <1>7 DEF Models, ConverseModels
  <2>2. QED
    BY <1>7, <2>1 DEF FilePart, ConverseFile, ConverseImage, ConverseDocument
<1>8. CASE w = "anthropic"
  <2>1. y \in {"text", "image", "pdf"}
    BY <1>4, <1>8 DEF Models, AnthropicModels
  <2>2. QED
    BY <1>8, <2>1 DEF FilePart, AnthropicFile, AnthropicImage, AnthropicDocument
<1>9. QED
  BY <1>5, <1>6, <1>7, <1>8 DEF Wires

\* The one part of a user's turn that carries its file.
LEMMA FileOnce ==
    ASSUME NEW w, NEW ps, NEW t, NEW calls, NEW a, NEW d, NEW e, UserPlaces(w, ps, t, calls, a, 1, d, e),
           NEW z \in {0, Len(calls) + 2}, ps[e + (a + 1)].tag = <<t, z>>
    PROVE  /\ e + (a + 1) \in 1 .. Len(ps)
           /\ \A l \in 1 .. Len(ps) : ps[l].tag = <<t, z>> => l = e + (a + 1)
<1>1. a \in {0, 1} /\ Len(calls) \in Nat /\ Len(ps) = (a + 1) + Len(calls)
      /\ ((d = a + 1 /\ e = 0) \/ (d = 0 /\ e = Len(calls)))
  BY DEF UserPlaces
<1>2. ASSUME NEW l \in 1 .. Len(ps), ps[l].tag = <<t, z>> PROVE l = e + (a + 1)
  <2>1. (a = 1 /\ l = e + 1) \/ l = e + (a + 1) \/ \E c \in 1 .. Len(calls) : l = d + c
    BY UserAt
  <2>2. a = 1 => ps[e + 1].tag = <<t, Len(calls) + 1>>
    BY DEF UserPlaces
  <2>3. \A c \in 1 .. Len(calls) : ps[d + c].tag = <<t, c>>
    BY DEF UserPlaces
  <2>4. z # Len(calls) + 1 /\ z \notin 1 .. Len(calls)
    BY <1>1
  <2>5. QED
    BY <1>2, <2>1, <2>2, <2>3, <2>4
<1>3. QED
  BY <1>1, <1>2

\* Of the invariant: an inline file is shown once, wherever there is a place for files.
LEMMA InlineReach ==
    ASSUME TalkInv
    PROVE  InlineFilesReach
<1> SUFFICES ASSUME Out, wire # "completions", NEW b \in Range(OfKind(AllBlocks, "file")), b.source = "base64"
             PROVE  Cardinality({i \in DOMAIN SentParts : SentParts[i].tag = b.tag}) = 1
  BY DEF InlineFilesReach
<1>1. /\ surface \in {"messages", "chat"} /\ turns \in Seq(TurnSet) /\ wire \in Wires
      /\ \E stream \in Modes(wire), a \in Shown(wire, AllFiles(Common)), fetch \in Fetches :
            Verdict(wire, stream, a, AllFiles(Common), fetch) = "sent" /\ Told(fetch)
  BY SentIs
<1>2. PICK stream \in Modes(wire), x \in Shown(wire, AllFiles(Common)), fetch \in Fetches :
         Verdict(wire, stream, x, AllFiles(Common), fetch) = "sent" /\ Told(fetch)
  BY <1>1
<1> DEFINE ss == PartsByTurn(fetch)
<1>3. Layout(fetch, ss)
  BY <1>2, LaidOut
<1> HIDE DEF ss
<1>4. PICK t \in 1 .. Len(turns) : \E c \in 1 .. Len(OfKind(turns[t].blocks, "file")) :
         b = OfKind(turns[t].blocks, "file")[c]
  BY <1>1, BlockPlace
<1> DEFINE files == OfKind(turns[t].blocks, "file")
<1> DEFINE calls == CallsBefore(turns, t)
<1> DEFINE ps == ss[t]
<1>5. PICK c \in 1 .. Len(files) : b = files[c]
  BY <1>4
<1>6. UserTurn(surface, turns[t], t, calls) /\ UserLaid(wire, fetch, ps, t, calls, files)
  <2>1. CASE AnswerTurn(turns[t], t)
    <3>1. Len(files) = 0
      BY <2>1 DEF AnswerTurn
    <3>2. QED
      BY <1>5, <3>1
  <2>2. QED
    BY <1>3, <2>1, TurnPlaces
<1>7. PICK y \in Attachments(surface), z \in {0, Len(calls) + 2} : files = <<File(<<t, z>>, y)>>
  <2>1. files # <<>>
    BY <1>5
  <2>2. QED
    BY <1>6, <2>1 DEF UserTurn
<1>8. files = <<b>> /\ b.tag = <<t, z>>
  <2>1. Len(files) = 1 /\ files[1] = File(<<t, z>>, y)
    BY <1>7
  <2>2. b = files[1]
    BY <1>5, <2>1
  <2>3. QED
    BY <1>7, <2>1, <2>2 DEF File
<1>9. b \in FileSet
  <2>1. turns[t].blocks \in Seq(BlockSet)
    BY <1>3, TurnPlaces
  <2>2. files \in Seq(FileSet)
    BY <2>1, BlocksOf
  <2>3. QED
    BY <1>5, <2>2, ElementOfSeq
<1>10. b \in AllFiles(Common)
  <2>1. Common = CommonOf(surface, turns)
    BY DEF Common, CommonOf
  <2>2. QED
    BY <1>1, <1>8, <1>9, <2>1, FileChecked
<1>11. FilePart(wire, b, fetch) = "part"
  BY <1>1, <1>2, <1>9, <1>10, InlinePlaced
<1> HIDE DEF files, calls
<1>12. PICK a \in {0, 1}, f \in {0, 1}, d \in Nat, e \in Nat :
          UserPlaces(wire, ps, t, calls, a, f, d, e) /\ FilePlace(wire, fetch, ps, files, a, f, e)
  BY <1>6 DEF UserLaid
<1> DEFINE l == e + (a + 1)
<1>13. f = 1 /\ ps[l].tag = b.tag
  BY <1>8, <1>11, <1>12 DEF FilePlace
<1>14. l \in 1 .. Len(ps) /\ \A k \in 1 .. Len(ps) : ps[k].tag = b.tag => k = l
  <2>1. UserPlaces(wire, ps, t, calls, a, 1, d, e) /\ ps[e + (a + 1)].tag = <<t, z>>
    BY <1>8, <1>12, <1>13
  <2> HIDE DEF ps
  <2>2. e + (a + 1) \in 1 .. Len(ps) /\ \A k \in 1 .. Len(ps) : ps[k].tag = <<t, z>> => k = e + (a + 1)
    BY <1>7, <2>1, FileOnce
  <2>3. QED
    BY <1>8, <2>2
<1> HIDE DEF ps, l
<1> DEFINE p == Before(ss, t) + l
<1>15. p \in DOMAIN SentParts /\ SentParts[p].tag = b.tag
  BY <1>3, <1>13, <1>14, PartOfAll DEF ps
<1>16. ASSUME NEW i \in DOMAIN SentParts, SentParts[i].tag = b.tag PROVE i = p
  <2>1. PICK u \in 1 .. Len(turns) : \E k \in 1 .. Len(ss[u]) : i = Before(ss, u) + k /\ SentParts[i] = ss[u][k]
    BY <1>3, PartOfTurn
  <2>2. PICK k \in 1 .. Len(ss[u]) : i = Before(ss, u) + k /\ SentParts[i] = ss[u][k]
    BY <2>1
  <2>3. u = t
    BY <1>3, <1>8, <1>16, <2>2, TagsApart
  <2>4. k = l
    BY <1>14, <1>16, <2>2, <2>3 DEF ps
  <2>5. QED
    BY <2>2, <2>3, <2>4
<1> HIDE DEF p
<1>17. {i \in DOMAIN SentParts : SentParts[i].tag = b.tag} = {p}
  BY <1>15, <1>16
<1>18. QED
  BY <1>17, FS_Singleton

-----------------------------------------------------------------------------
(* In every state.                                                         *)

\* The invariant holds of a conversation, whichever component is followed.
LEMMA TalkAlways == Spec => []TalkInv
<1>1. Init => TalkInv
  BY TalkStart DEF Init
<1>2. TalkInv /\ [Next]_vars => TalkInv'
  <2> SUFFICES ASSUME TalkInv, [Next]_vars PROVE TalkInv'
    OBVIOUS
  <2>1. CASE TalkNext
    BY <2>1, TalkStep
  <2>2. CASE UNCHANGED talkVars
    BY <2>2, TalkStands
  <2>3. QED
    BY <2>1, <2>2 DEF Next, vars
<1>3. QED
  BY <1>1, <1>2, PTL DEF Spec

\* Every text, call, result and the system prompt reaches the provider once and in
\* order, and an inline file once or the request is refused (translate_in.to_common,
\* _convert_messages and the _normalize_messages of every adapter): for any number of
\* turns, calls and files, any tools and any types.
THEOREM EverythingIsShown == Spec => []ContentKept
<1>1. TalkInv => ContentKept
  BY WordsReach, InlineReach DEF ContentKept
<1>2. QED
  BY <1>1, TalkAlways, PTL

\* On the wires that pair by id, the first result after a call that carries its id is
\* that call's own, though Gemini's ids come back with every answer: for any number of
\* turns and calls, and any wire for each answer.
THEOREM CallsMeetTheirResults == Spec => []ResultsMeetCalls
<1>1. TalkInv => ResultsMeetCalls
  BY CallsGetResults
<1>2. QED
  BY <1>1, TalkAlways, PTL

\* A call Gemini signed goes back to it with its own signature, and any other call with
\* the sentinel (translate_in._split_tool_sig, google.py _normalize_messages): for any
\* number of turns and calls.
THEOREM SignaturesStay == Spec => []OwnSignature
<1>1. TalkInv => OwnSignature
  BY SignaturesOwn
<1>2. QED
  BY <1>1, TalkAlways, PTL
=============================================================================
