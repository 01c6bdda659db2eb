--------------------------- MODULE SequenceLemmas ---------------------------
(* Facts about numbers and sequences that several proofs rest on. *)
EXTENDS Integers, SequenceTheorems, WellFoundedInduction, TLAPS

(* A set of natural numbers has a least element: induction over data rests  *)
(* on it, applied to the set of counterexamples.                            *)
LEMMA LeastNat ==
  ASSUME NEW T \in SUBSET Nat, T # {}
  PROVE  \E x \in T : \A y \in T : x <= y
<1> DEFINE R == OpToRel(<, Nat)
<1>1. \E x \in T : \A y \in T : ~ (<<y, x>> \in R)
  BY NatLessThanWellFounded, WFMin, Zenon
<1>2. \A x, y \in T : y < x => <<y, x>> \in R
  BY DEF OpToRel
<1> HIDE DEF R
<1>3. PICK x \in T : \A y \in T : ~ (<<y, x>> \in R)
  BY <1>1
<1>4. \A y \in T : ~(y < x)
  BY <1>2, <1>3, Zenon
<1>5. \A y \in T : x \in Int /\ y \in Int
  OBVIOUS
<1>6. \A y \in T : x <= y
  BY <1>4, <1>5
<1>7. QED
  BY <1>6

(* A function on 1..n is a sequence of length n. *)
LEMMA FunctionIsSeq ==
  ASSUME NEW S, NEW n \in Nat, NEW f \in [1..n -> S]
  PROVE  f \in Seq(S) /\ Len(f) = n
<1>1. f \in Seq(S)
  BY SeqDef
<1>2. QED
  BY <1>1, LenProperties

(* A function on 1 .. n + 1 is what it is on 1..n with one element appended. *)
LEMMA FunctionIsAppend ==
  ASSUME NEW S, NEW n \in Nat, NEW f \in [1..n -> S], NEW g \in [1 .. n + 1 -> S],
         \A i \in 1..n : g[i] = f[i]
  PROVE  g = Append(f, g[n + 1])
<1>1. f \in Seq(S) /\ Len(f) = n /\ g \in Seq(S) /\ Len(g) = n + 1
  BY FunctionIsSeq
<1>2. g[n + 1] \in S
  OBVIOUS
<1>3. /\ Append(f, g[n + 1]) \in Seq(S)
      /\ Len(Append(f, g[n + 1])) = n + 1
      /\ \A i \in 1 .. n + 1 :
           Append(f, g[n + 1])[i] = IF i <= n THEN f[i] ELSE g[n + 1]
  BY <1>1, <1>2
<1>4. \A i \in 1 .. n + 1 : g[i] = Append(f, g[n + 1])[i]
  BY <1>3
<1>5. QED
  BY <1>1, <1>3, <1>4, SeqEqual

(* A function on 1..n that is another one shifted down is its tail. *)
LEMMA FunctionIsTail ==
  ASSUME NEW S, NEW n \in Nat, NEW f \in [1 .. n + 1 -> S], NEW g \in [1..n -> S],
         \A i \in 1..n : g[i] = f[i + 1]
  PROVE  f = <<f[1]>> \o g
<1>1. f \in Seq(S) /\ Len(f) = n + 1 /\ g \in Seq(S) /\ Len(g) = n
  BY FunctionIsSeq
<1>2. <<f[1]>> \in Seq(S) /\ Len(<<f[1]>>) = 1 /\ <<f[1]>>[1] = f[1]
  BY <1>1
<1>3. /\ <<f[1]>> \o g \in Seq(S)
      /\ Len(<<f[1]>> \o g) = n + 1
      /\ \A i \in 1 .. n + 1 :
           (<<f[1]>> \o g)[i] = IF i <= 1 THEN <<f[1]>>[i] ELSE g[i - 1]
  BY <1>1, <1>2, ConcatProperties
<1>4. \A i \in 1 .. n + 1 : f[i] = (<<f[1]>> \o g)[i]
  <2>1. ASSUME NEW i \in 2 .. n + 1
        PROVE  f[i] = g[i - 1]
    <3>1. i - 1 \in 1..n /\ (i - 1) + 1 = i
      OBVIOUS
    <3>2. QED
      BY <3>1
  <2>2. QED
    BY <1>2, <1>3, <2>1
<1>5. QED
  BY <1>1, <1>3, <1>4, SeqEqual

(* An element before a sequence is head, and the sequence tail, of the two. *)
LEMMA HeadAndTailOfConcat ==
  ASSUME NEW S, NEW x \in S, NEW s \in Seq(S)
  PROVE  /\ <<x>> \o s # <<>>
         /\ Head(<<x>> \o s) = x
         /\ Tail(<<x>> \o s) = s
<1> DEFINE t == <<x>> \o s
<1>1. <<x>> \in Seq(S) /\ Len(<<x>>) = 1 /\ <<x>>[1] = x
  OBVIOUS
<1>2. /\ t \in Seq(S) /\ Len(t) = 1 + Len(s)
      /\ \A i \in 1 .. 1 + Len(s) : t[i] = IF i <= 1 THEN <<x>>[i] ELSE s[i - 1]
  BY <1>1, ConcatProperties
<1> HIDE DEF t
<1>3. Len(s) \in Nat
  OBVIOUS
<1>4. t # <<>> /\ t[1] = x
  BY <1>1, <1>2, <1>3
<1>5. /\ Head(t) = t[1] /\ Tail(t) \in Seq(S) /\ Len(Tail(t)) = Len(t) - 1
      /\ \A i \in 1 .. Len(Tail(t)) : Tail(t)[i] = t[i + 1]
  BY <1>2, <1>4, HeadTailProperties
<1>6. \A i \in 1 .. Len(s) : Tail(t)[i] = s[i]
  BY <1>2, <1>3, <1>5
<1>7. Tail(t) = s
  BY <1>2, <1>3, <1>5, <1>6, SeqEqual
<1>8. QED
  BY <1>4, <1>5, <1>7 DEF t

-----------------------------------------------------------------------------
(* Division with remainder. *)
LEMMA DivMod ==
  ASSUME NEW n \in Nat \ {0}, NEW a \in Int
  PROVE  /\ a = n * (a \div n) + (a % n)
         /\ a % n \in 0 .. n - 1
         /\ a \div n \in Int
  BY SMT

(* It is unique. *)
LEMMA RemainderIsUnique ==
  ASSUME NEW n \in Nat \ {0}, NEW a \in Int, NEW q \in Int,
         NEW r \in 0 .. n - 1, a = n * q + r
  PROVE  a % n = r
<1> DEFINE d == a \div n
           m == a % n
<1>1. a = n * d + m /\ m \in 0 .. n - 1 /\ d \in Int
  BY DivMod
<1> HIDE DEF d, m
<1>2. n * (q - d) = m - r
  BY <1>1
<1>3. q = d
  <2>1. CASE q - d >= 1
    BY <1>1, <1>2, <2>1
  <2>2. CASE q - d <= -1
    BY <1>1, <1>2, <2>2
  <2>3. QED
    BY <2>1, <2>2, <1>1
<1>4. QED
  BY <1>1, <1>3 DEF m

(* Within two turns of the ring. *)
LEMMA SmallRemainder ==
  ASSUME NEW n \in Nat \ {0}, NEW a \in Nat, a < n + n
  PROVE  a % n = IF a < n THEN a ELSE a - n
<1>1. CASE a < n
  <2>1. a = n * 0 + a /\ a \in 0 .. n - 1
    BY <1>1
  <2>2. a % n = a
    BY <2>1, RemainderIsUnique
  <2>3. QED
    BY <1>1, <2>2
<1>2. CASE ~(a < n)
  <2>1. a = n * 1 + (a - n) /\ a - n \in 0 .. n - 1
    BY <1>2
  <2>2. a % n = a - n
    BY <2>1, RemainderIsUnique
  <2>3. QED
    BY <1>2, <2>2
<1>3. QED
  BY <1>1, <1>2
=============================================================================
