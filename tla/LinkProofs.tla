----------------------------- MODULE LinkProofs -----------------------------
(***************************************************************************)
(* Proofs about SerialLink and PacketLink, for every buffer, page, tag ID, *)
(* text, set of packets, checksum and backlog that their assumptions       *)
(* admit, and any number of losses.                                        *)
(*                                                                         *)
(* Both inductive invariants say where a line is in what is written on it, *)
(* and what the program at its other end has there: all of it, part of it, *)
(* or nothing that it will pass on.                                        *)
(***************************************************************************)
EXTENDS PacketLink, SequenceLemmas

-----------------------------------------------------------------------------
(* FlattenSeq, which Escaped rests on, follows a recursive definition.      *)

(* What FlattenSeq makes of the first m sequences of s.                     *)
Flattened(s, m, f) ==
  f = [i \in 1..m |-> IF i = 1 THEN s[i] ELSE f[i-1] \o s[i]]

(* Its recursive definition defines a function. *)
LEMMA FlatteningExists ==
  ASSUME NEW s, NEW m \in Nat
  PROVE  \E f : Flattened(s, m, f)
<1> DEFINE T == {k \in Nat : ~ \E f : Flattened(s, k, f)}
<1>1. SUFFICES ASSUME T # {}
               PROVE  FALSE
  BY Zenon
<1>2. PICK k \in T : \A y \in T : k <= y
  BY <1>1, LeastNat
<1>3. k \in Nat /\ ~ \E f : Flattened(s, k, f)
  OBVIOUS
<1>4. CASE k = 0
  <2> DEFINE g == [i \in {} |-> s]
  <2>1. g = [i \in 1..0 |-> IF i = 1 THEN s[i] ELSE g[i-1] \o s[i]]
    OBVIOUS
  <2>2. Flattened(s, k, g)
    BY <1>4, <2>1, Zenon DEF Flattened
  <2>3. QED
    BY <1>3, <2>2
<1>5. CASE k # 0
  <2>1. k - 1 \in Nat /\ k - 1 \notin T
    BY <1>2, <1>3, <1>5
  <2>2. PICK f : Flattened(s, k - 1, f)
    BY <2>1
  <2>3. \A i \in 1 .. k - 1 : f[i] = IF i = 1 THEN s[i] ELSE f[i-1] \o s[i]
    BY <2>2, Zenon DEF Flattened
  <2> DEFINE g == [i \in 1..k |-> IF i <= k - 1 THEN f[i]
                     ELSE IF i = 1 THEN s[i] ELSE f[k-1] \o s[i]]
  <2>4. \A i \in 1..k : g[i] = IF i = 1 THEN s[i] ELSE g[i-1] \o s[i]
    <3>1. \A i \in 1..k : i <= k - 1 => g[i] = f[i]
      OBVIOUS
    <3>2. g[k] = IF k = 1 THEN s[k] ELSE f[k-1] \o s[k]
      BY <1>3, <1>5
    <3> HIDE DEF g
    <3> TAKE i \in 1..k
    <3>3. CASE i <= k - 1
      <4>1. i \in 1 .. k - 1 /\ g[i] = f[i] /\ (i # 1 => g[i-1] = f[i-1])
        BY <1>3, <3>1, <3>3
      <4>2. QED
        BY <2>3, <4>1
    <3>4. CASE i = k
      <4>1. i # 1 => g[i-1] = f[i-1]
        BY <1>3, <3>1, <3>4
      <4>2. QED
        BY <3>2, <3>4, <4>1
    <3>5. QED
      BY <1>3, <3>3, <3>4
  <2>5. g = [i \in 1..k |-> g[i]]
    OBVIOUS
  <2> HIDE DEF g
  <2>6. Flattened(s, k, g)
    BY <2>4, <2>5 DEF Flattened
  <2>7. QED
    BY <1>3, <2>6
<1>6. QED
  BY <1>4, <1>5

(* FlattenSeq follows it to the last of the sequences. *)
LEMMA FlattenSteps ==
  ASSUME NEW S, NEW s \in Seq(Seq(S)), s # <<>>
  PROVE  \E f \in [1..Len(s) -> Seq(S)] :
           /\ f[1] = s[1]
           /\ \A i \in 2..Len(s) : f[i] = f[i-1] \o s[i]
           /\ FlattenSeq(s) = f[Len(s)]
<1> DEFINE m == Len(s)
           f == CHOOSE h : Flattened(s, m, h)
<1>1. m \in Nat \ {0} /\ \A i \in 1..m : s[i] \in Seq(S)
  BY EmptySeq, ElementOfSeq
<1>2. FlattenSeq(s) = f[m]
  <2>1. Len(s) # 0
    BY <1>1
  <2>2. QED
    BY <2>1, Zenon DEF FlattenSeq, Flattened
<1>3. Flattened(s, m, f)
  BY <1>1, FlatteningExists, Zenon
<1> HIDE DEF f
<1>4. \A i \in 1..m : f[i] = IF i = 1 THEN s[i] ELSE f[i-1] \o s[i]
  BY <1>3, Zenon DEF Flattened
<1>5. f = [i \in 1..m |-> f[i]]
  BY <1>3, <1>4 DEF Flattened
<1> HIDE DEF m
<1> DEFINE T == {i \in Nat : i \in 1..m /\ f[i] \notin Seq(S)}
<1>6. T = {}
  <2>1. SUFFICES ASSUME T # {}
                 PROVE  FALSE
    OBVIOUS
  <2>2. PICK k \in T : \A y \in T : k <= y
    BY <2>1, LeastNat
  <2>3. k \in 1..m /\ f[k] \notin Seq(S) /\ s[k] \in Seq(S)
    BY <1>1
  <2>4. k # 1
    BY <1>4, <2>3
  <2>5. k - 1 \in 1..m /\ k - 1 \notin T
    BY <1>1, <2>2, <2>3, <2>4
  <2>6. f[k-1] \in Seq(S)
    BY <2>5
  <2>7. f[k] = f[k-1] \o s[k]
    BY <1>4, <2>3, <2>4
  <2>8. QED
    BY <2>3, <2>6, <2>7, ConcatProperties
<1>7. f \in [1..m -> Seq(S)]
  <2> HIDE DEF T
  <2>1. \A i \in 1..m : i \in Nat /\ i \notin T
    BY <1>1, <1>6
  <2> USE DEF T
  <2>2. \A i \in 1..m : f[i] \in Seq(S)
    BY <2>1
  <2>3. QED
    BY <1>5, <2>2
<1>8. f[1] = s[1] /\ \A i \in 2..m : f[i] = f[i-1] \o s[i]
  <2>1. 1 \in 1..m /\ \A i \in 2..m : i \in 1..m /\ i # 1
    BY <1>1
  <2>2. QED
    BY <1>4, <2>1, Zenon
<1>9. QED
  BY <1>2, <1>7, <1>8 DEF m

(* So it can be read from the front. *)
LEMMA FlattenFromFront ==
  ASSUME NEW S, NEW s \in Seq(Seq(S)), s # <<>>
  PROVE  /\ FlattenSeq(s) \in Seq(S)
         /\ FlattenSeq(s) = s[1] \o FlattenSeq(Tail(s))
<1> DEFINE m == Len(s)
           t == Tail(s)
<1>1. m \in Nat \ {0} /\ \A i \in 1..m : s[i] \in Seq(S)
  BY EmptySeq, ElementOfSeq
<1>2. t \in Seq(Seq(S)) /\ Len(t) = m - 1 /\ \A i \in 1 .. m - 1 : t[i] = s[i + 1]
  BY HeadTailProperties
<1>3. PICK f \in [1..m -> Seq(S)] :
        /\ f[1] = s[1]
        /\ \A i \in 2..m : f[i] = f[i-1] \o s[i]
        /\ FlattenSeq(s) = f[m]
  BY FlattenSteps
<1>4. FlattenSeq(s) \in Seq(S)
  <2>1. m \in 1..m
    BY <1>1
  <2>2. QED
    BY <1>3, <2>1, Zenon
<1>5. CASE m = 1
  <2>1. Len(t) = 0
    BY <1>2, <1>5
  <2>2. t = <<>>
    BY <1>2, <2>1, EmptySeq
  <2>3. FlattenSeq(t) = <<>>
    BY <2>1, <2>2, Zenon DEF FlattenSeq
  <2>4. FlattenSeq(s) = s[1]
    BY <1>3, <1>5
  <2>5. s[1] \o <<>> = s[1]
    BY <1>1, ConcatEmptySeq
  <2>6. QED
    BY <1>4, <2>3, <2>4, <2>5
<1>6. CASE m # 1
  <2>1. m - 1 \in Nat \ {0} /\ t # <<>>
    <3> HIDE DEF m, t
    <3>1. m - 1 \in Nat \ {0}
      BY <1>1, <1>6
    <3>2. QED
      BY <1>2, <3>1, EmptySeq
  <2> HIDE DEF m, t
  <2>2. PICK g \in [1..Len(t) -> Seq(S)] :
          /\ g[1] = t[1]
          /\ \A i \in 2..Len(t) : g[i] = g[i-1] \o t[i]
          /\ FlattenSeq(t) = g[Len(t)]
    <3>1. t \in Seq(Seq(S)) /\ t # <<>>
      BY <1>2, <2>1
    <3>2. QED
      BY <3>1, FlattenSteps
  <2> DEFINE T == {i \in Nat : i \in 1 .. m - 1 /\ f[i + 1] # s[1] \o g[i]}
  <2>3. T = {}
    <3>1. SUFFICES ASSUME T # {}
                   PROVE  FALSE
      OBVIOUS
    <3>2. PICK k \in T : \A y \in T : k <= y
      BY <3>1, LeastNat
    <3>3. k \in 1 .. m - 1 /\ f[k + 1] # s[1] \o g[k]
      OBVIOUS
    <3>4. f[k + 1] = f[k] \o s[k + 1] /\ t[k] = s[k + 1]
      <4>1. k + 1 \in 2..m /\ (k + 1) - 1 = k
        BY <1>1, <3>3
      <4>2. f[k + 1] = f[(k + 1) - 1] \o s[k + 1]
        BY <1>3, <4>1, Zenon
      <4>3. QED
        BY <1>2, <3>3, <4>1, <4>2, Zenon
    <3>5. CASE k = 1
      BY <1>3, <2>2, <3>3, <3>4, <3>5
    <3>6. CASE k # 1
      <4>1. k - 1 \in 1 .. m - 1 /\ k - 1 \in Nat /\ (k - 1) + 1 = k
              /\ k \in 2 .. m - 1 /\ ~(k <= k - 1)
        BY <1>1, <3>3, <3>6
      <4>2. k - 1 \notin T
        BY <3>2, <4>1, Zenon
      <4>3. f[k] = s[1] \o g[k - 1]
        BY <4>1, <4>2
      <4>4. g[k] = g[k - 1] \o t[k] /\ g[k - 1] \in Seq(S)
        BY <1>2, <2>2, <4>1, Zenon
      <4>5. s[1] \in Seq(S) /\ t[k] \in Seq(S)
        BY <1>1, <3>3, <3>4
      <4>6. f[k] \o t[k] = s[1] \o g[k]
        <5>1. PICK x, y, z, a, b : x = s[1] /\ y = g[k - 1] /\ z = t[k]
                                     /\ a = f[k] /\ b = g[k]
          OBVIOUS
        <5>2. x \in Seq(S) /\ y \in Seq(S) /\ z \in Seq(S)
          BY <4>4, <4>5, <5>1, Zenon
        <5>3. a \o z = x \o b
          <6>1. (x \o y) \o z = x \o (y \o z)
            BY ONLY <5>2, ConcatAssociative, SMTT(60)
          <6>2. a = x \o y /\ b = y \o z
            BY <4>3, <4>4, <5>1, Zenon
          <6>3. QED
            BY <6>1, <6>2, Zenon
        <5>4. QED
          BY <5>1, <5>3, Zenon
      <4>7. QED
        BY <3>3, <3>4, <4>6
    <3>7. QED
      BY <3>5, <3>6
  <2>4. f[m] = s[1] \o g[m - 1]
    <3>1. m - 1 \in Nat /\ m - 1 \in 1 .. m - 1 /\ (m - 1) + 1 = m
      BY <1>1, <2>1
    <3>2. m - 1 \notin T
      BY <2>3, Zenon
    <3>3. QED
      BY <3>1, <3>2
  <2>5. QED
    BY <1>2, <1>3, <1>4, <2>2, <2>4 DEF t
<1>7. QED
  BY <1>5, <1>6

-----------------------------------------------------------------------------
Byte == 0..FF

(* A byte of data on the line. *)
Code(b) == IF b = FF THEN <<FF, 0>> ELSE <<b>>

(* Data on the line: nothing, or the code of its first byte and the rest.   *)
LEMMA EscapedFromFront ==
  /\ Escaped(<<>>) = <<>>
  /\ \A data \in Seq(Byte) :
       /\ Escaped(data) \in Seq(Byte)
       /\ data # <<>> =>
            Escaped(data) = Code(Head(data)) \o Escaped(Tail(data))
<1> DEFINE Codes(d) == [n \in DOMAIN d |->
                          IF d[n] = FF THEN <<FF, 0>> ELSE <<d[n]>>]
<1>1. Escaped(<<>>) = <<>>
  BY DEF Escaped, FlattenSeq
<1>2. ASSUME NEW data \in Seq(Byte), data # <<>>
      PROVE  /\ Escaped(data) \in Seq(Byte)
             /\ Escaped(data) = Code(Head(data)) \o Escaped(Tail(data))
  <2> DEFINE m == Len(data)
             t == Tail(data)
  <2>1. m \in Nat \ {0} /\ DOMAIN data = 1..m /\ \A n \in 1..m : data[n] \in Byte
    BY <1>2, EmptySeq, LenProperties, ElementOfSeq
  <2>2. t \in Seq(Byte) /\ Len(t) = m - 1 /\ DOMAIN t = 1 .. m - 1
          /\ \A n \in 1 .. m - 1 : t[n] = data[n + 1]
    BY <1>2, HeadTailProperties, LenProperties
  <2>3. \A b \in Byte : Code(b) \in Seq(Byte)
    <3>1. \A b \in Byte : <<b>> \in Seq(Byte)
      OBVIOUS
    <3>2. FF \in Byte /\ 0 \in Byte
      BY DEF Byte, FF
    <3>3. <<FF, 0>> \in Seq(Byte)
      BY <3>2
    <3>4. QED
      BY <3>1, <3>3, Zenon DEF Code
  <2>4. Codes(data) = [n \in 1..m |-> Code(data[n])]
    BY <2>1, Zenon DEF Code
  <2>5. Codes(t) = [n \in 1 .. m - 1 |-> Code(t[n])]
    BY <2>2, Zenon DEF Code
  <2> HIDE DEF Codes, m
  <2>6. Codes(data) \in [1..m -> Seq(Byte)]
    BY <2>1, <2>3, <2>4
  <2>7. Codes(data) \in Seq(Seq(Byte)) /\ Len(Codes(data)) = m
    BY <2>1, <2>6, FunctionIsSeq
  <2>8. Codes(data) # <<>>
    BY <2>1, <2>7, EmptySeq
  <2>9. Tail(Codes(data)) \in Seq(Seq(Byte)) /\ Len(Tail(Codes(data))) = m - 1
          /\ \A n \in 1 .. m - 1 : Tail(Codes(data))[n] = Codes(data)[n + 1]
    BY <2>7, <2>8, HeadTailProperties
  <2>10. Tail(Codes(data)) = Codes(t)
    <3>1. \A n \in 1 .. m - 1 : n + 1 \in 1..m
      BY <2>1
    <3>2. \A n \in 1 .. m - 1 : Tail(Codes(data))[n] = Codes(t)[n]
      BY <2>2, <2>4, <2>5, <2>9, <3>1, Zenon
    <3>3. DOMAIN Tail(Codes(data)) = 1 .. m - 1
      BY <2>9, LenProperties
    <3>4. Tail(Codes(data)) = [n \in 1 .. m - 1 |-> Tail(Codes(data))[n]]
      BY <2>9, <3>3, LenProperties
    <3>5. QED
      BY <2>5, <3>2, <3>4
  <2>11. FlattenSeq(Codes(data)) \in Seq(Byte)
           /\ FlattenSeq(Codes(data)) = Codes(data)[1] \o FlattenSeq(Codes(t))
    BY <2>7, <2>8, <2>10, FlattenFromFront
  <2>12. Escaped(data) = FlattenSeq(Codes(data)) /\ Escaped(t) = FlattenSeq(Codes(t))
    BY Zenon DEF Escaped, Codes
  <2>13. Codes(data)[1] = Code(Head(data))
    <3>1. 1 \in 1..m /\ Head(data) = data[1]
      BY <1>2, <2>1
    <3>2. QED
      BY <2>4, <3>1
  <2>14. QED
    BY <2>11, <2>12, <2>13 DEF t
<1>3. <<>> \in Seq(Byte)
  OBVIOUS
<1>4. QED
  BY <1>1, <1>2, <1>3

(* The data that follows the first k bytes. *)
Rest(data, k) == SubSeq(data, k + 1, Len(data))
First(data, k) == SubSeq(data, 1, k)

(* The first bytes, and one more. *)
LEMMA FirstGrows ==
  ASSUME NEW S, NEW data \in Seq(S), NEW k \in 0 .. Len(data) - 1
  PROVE  First(data, k + 1) = Append(First(data, k), data[k + 1])
<1> DEFINE m == Len(data)
<1>1. k + 1 \in 1..m /\ 1 \in 1..m /\ (k + 1) - 1 = k /\ k \in Int
        /\ \A i \in 1..k : data[i] \in S
  OBVIOUS
<1>2. data[k + 1] \in S
  BY <1>1
<1>3. First(data, k) \in Seq(S)
  BY <1>1, SubSeqProperties DEF First
<1>4. First(data, k + 1) = First(data, k) \o <<data[k + 1]>>
  BY <1>1, SubSeqRecursiveSecond DEF First
<1>5. QED
  BY <1>2, <1>3, <1>4, AppendIsConcat

(* Both, and the next byte. *)
LEMMA FirstAndRest ==
  ASSUME NEW S, NEW data \in Seq(S)
  PROVE  /\ Rest(data, 0) = data
         /\ Rest(data, Len(data)) = <<>>
         /\ First(data, 0) = <<>>
         /\ First(data, Len(data)) = data
         /\ Len(data) \in Nat
         /\ \A k \in 0..Len(data) :
              /\ Rest(data, k) \in Seq(S) /\ Len(Rest(data, k)) = Len(data) - k
              /\ First(data, k) \in Seq(S) /\ Len(First(data, k)) = k
         /\ \A k \in 0 .. Len(data) - 1 :
              /\ data[k + 1] \in S
              /\ Rest(data, k) # <<>>
              /\ Head(Rest(data, k)) = data[k + 1]
              /\ Tail(Rest(data, k)) = Rest(data, k + 1)
<1> DEFINE m == Len(data)
<1>1. m \in Nat
  BY LenProperties
<1>2. Rest(data, 0) = data /\ First(data, m) = data
  BY SubSeqFull DEF Rest, First
<1>3. Rest(data, m) = <<>> /\ First(data, 0) = <<>>
  BY <1>1, SubSeqEmpty DEF Rest, First
<1>4. ASSUME NEW k \in 0..m
      PROVE  /\ Rest(data, k) \in Seq(S) /\ Len(Rest(data, k)) = m - k
             /\ First(data, k) \in Seq(S) /\ Len(First(data, k)) = k
  <2>1. /\ k + 1 \in Int /\ m \in Int /\ 1 \in Int /\ k \in Int
        /\ \A i \in k + 1 .. m : data[i] \in S
        /\ \A i \in 1..k : data[i] \in S
    BY <1>1
  <2>2. Rest(data, k) \in Seq(S)
          /\ Len(Rest(data, k)) = IF k + 1 <= m THEN m - (k + 1) + 1 ELSE 0
    BY <2>1, SubSeqProperties DEF Rest
  <2>3. First(data, k) \in Seq(S)
          /\ Len(First(data, k)) = IF 1 <= k THEN k - 1 + 1 ELSE 0
    BY <2>1, SubSeqProperties DEF First
  <2> HIDE DEF m
  <2>4. QED
    BY <1>1, <2>2, <2>3
<1>5. ASSUME NEW k \in 0 .. m - 1
      PROVE  /\ data[k + 1] \in S
             /\ Rest(data, k) # <<>>
             /\ Head(Rest(data, k)) = data[k + 1]
             /\ Tail(Rest(data, k)) = Rest(data, k + 1)
  <2>1. k + 1 \in 1..m /\ k \in 0..m /\ k + 1 \in 0..m /\ (k + 1) - 1 = k
          /\ m \in k + 1 .. m /\ 1 \in 1..m /\ k + 1 \in 1..m
    BY <1>1
  <2>2. data[k + 1] \in S
    BY <2>1
  <2>3. Head(Rest(data, k)) = data[k + 1] /\ Tail(Rest(data, k)) = Rest(data, k + 1)
    BY <2>1, HeadTailOfSubSeq DEF Rest
  <2>4. Rest(data, k) # <<>>
    BY <1>1, <1>4, <2>1
  <2>5. QED
    BY <2>2, <2>3, <2>4
<1>6. QED
  BY <1>1, <1>2, <1>3, <1>4, <1>5

(* The next byte of data on the line, and what is left after it.            *)
LEMMA EscapedRest ==
  ASSUME NEW data \in Seq(Byte), NEW k \in 0..Len(data)
  PROVE  LET line == Escaped(Rest(data, k))
         IN /\ line \in Seq(Byte)
            /\ k = Len(data) <=> line = <<>>
            /\ k # Len(data) =>
                 /\ k + 1 \in 1..Len(data)
                 /\ Escaped(Rest(data, k + 1)) \in Seq(Byte)
                 /\ IF data[k + 1] = FF
                    THEN /\ Head(line) = FF
                         /\ Tail(line) = <<0>> \o Escaped(Rest(data, k + 1))
                         /\ Len(line) = Len(Escaped(Rest(data, k + 1))) + 2
                    ELSE /\ Head(line) = data[k + 1]
                         /\ Tail(line) = Escaped(Rest(data, k + 1))
                         /\ Len(line) = Len(Escaped(Rest(data, k + 1))) + 1
<1> DEFINE m == Len(data)
           rest == Rest(data, k)
           line == Escaped(rest)
<1>1. m \in Nat /\ rest \in Seq(Byte)
  BY FirstAndRest
<1>2. line \in Seq(Byte)
  BY <1>1, EscapedFromFront
<1>3. CASE k = m
  <2>1. rest = <<>>
    BY <1>3, FirstAndRest
  <2>2. line = <<>>
    BY <2>1, EscapedFromFront
  <2>3. QED
    BY <1>2, <1>3, <2>2
<1>4. CASE k # m
  <2>1. k \in 0 .. m - 1 /\ k + 1 \in 1..m /\ k + 1 \in 0..m
    BY <1>1, <1>4
  <2> DEFINE b == data[k + 1]
             next == Rest(data, k + 1)
             more == Escaped(next)
  <2>2. b \in Byte /\ rest # <<>> /\ Head(rest) = b /\ Tail(rest) = next
          /\ next \in Seq(Byte)
    BY <2>1, FirstAndRest
  <2>3. line = Code(b) \o more /\ more \in Seq(Byte)
    BY <1>1, <2>2, EscapedFromFront
  <2> HIDE DEF line, more, next, b, m, rest
  <2>4. FF \in Byte /\ 0 \in Byte /\ Len(more) \in Nat
    BY <2>3 DEF FF, Byte
  <2>5. CASE b = FF
    <3>1. line = <<FF, 0>> \o more
      BY <2>3, <2>5, Zenon DEF Code
    <3>2. <<0>> \o more \in Seq(Byte) /\ Len(<<0>> \o more) = Len(more) + 1
      BY <2>3, <2>4
    <3>3. <<FF, 0>> \o more = <<FF>> \o (<<0>> \o more)
      BY <2>3, <2>4, <3>2
    <3>4. /\ line # <<>> /\ Head(line) = FF /\ Tail(line) = <<0>> \o more
          /\ Len(line) = Len(more) + 2
      <4>1. line # <<>> /\ Head(line) = FF /\ Tail(line) = <<0>> \o more
        BY <2>4, <3>1, <3>2, <3>3, HeadAndTailOfConcat
      <4>2. Len(line) = Len(more) + 2
        BY <2>3, <2>4, <3>1
      <4>3. QED
        BY <4>1, <4>2
    <3>5. QED
      BY <1>2, <1>4, <2>1, <2>3, <2>5, <3>4 DEF line, more, next, b, m, rest
  <2>6. CASE b # FF
    <3>1. line = <<b>> \o more
      BY <2>3, <2>6, Zenon DEF Code
    <3>2. /\ line # <<>> /\ Head(line) = b /\ Tail(line) = more
          /\ Len(line) = Len(more) + 1
      <4>1. line # <<>> /\ Head(line) = b /\ Tail(line) = more
        BY <2>2, <2>3, <3>1, HeadAndTailOfConcat
      <4>2. Len(line) = Len(more) + 1
        BY <2>2, <2>3, <3>1
      <4>3. QED
        BY <4>1, <4>2
    <3>3. QED
      BY <1>2, <1>4, <2>1, <2>3, <2>6, <3>2 DEF line, more, next, b, m, rest
  <2>7. QED
    BY <2>5, <2>6
<1>5. QED
  BY <1>3, <1>4

-----------------------------------------------------------------------------
(* SerialLink: the invariant.                                               *)

(* A frame that the tag sends, or the one before the first. *)
IsFrame(f) ==
  /\ f = Frame(f.type, f.data)
  /\ f.type \in 0..3 /\ f.data \in Seq(Byte) /\ Len(f.data) <= BUFFER_SIZE
  /\ f.type \in {1, 2} <=> f.data # <<>>

LinkTypes ==
  /\ stage \in {"announce", "end", "pages", "text"}
  /\ pages \in 0..MAX_PAGES
  /\ IsFrame(frame) /\ IsFrame(before)
  /\ stage \in {"announce", "text"} => frame.type \in {0, 3}
  /\ clean \in 0..4 /\ attached \in BOOLEAN /\ lost \in 0..MAX_LOST
  /\ escaped \in BOOLEAN /\ overflow \in BOOLEAN /\ last_type \in 0..3
  /\ buffer_out \in Seq(Byte) /\ Len(buffer_out) <= BUFFER_SIZE
  /\ Len(delivered) <= 1

(* The host knows nothing before it is started. *)
Started ==
  ~attached => ~escaped /\ last_type = 0 /\ clean = 0 /\ delivered = <<>>

(* The host is in a frame like f and has d of it. *)
Has(f, d) == last_type = f.type /\ buffer_out = d

(* It has d of the frame f, or will not pass on what it has. *)
Got(f, d) == overflow \/ last_type = 0 \/ Has(f, d)

(* What the host has of the frame before the third of frames without losses. *)
Kept ==
  /\ overflow => before.type = 1 /\ clean = 3
  /\ before.type \in {1, 2} => Has(before, before.data)

(* What it has of the second of them. *)
Exact(d) == Has(frame, d) /\ (overflow => frame.type = 1 /\ clean = 2)

(* Before the 0xFF of the header, ... *)
AtHeader ==
  /\ frame.type # 0 /\ (frame.type = 1 => before.type # 1)
  /\ out = <<FF>> \o (<<frame.type>> \o Escaped(frame.data))
  /\ lost = 0 => ~escaped /\ (frame.type = 1 \/ Got(before, before.data))
  /\ clean >= 2 => ~escaped
  /\ clean >= 3 => Kept

(* ... before its type, ... *)
AtType ==
  /\ frame.type # 0 /\ (frame.type = 1 => before.type # 1)
  /\ out = <<frame.type>> \o Escaped(frame.data)
  /\ lost = 0 => IF escaped THEN frame.type = 1 \/ Got(before, before.data)
                            ELSE last_type = 0
  /\ clean >= 2 => escaped
  /\ clean >= 3 => Kept

(* ... after the first k bytes of its data, ... *)
After(k) ==
  /\ k \in 0..Len(frame.data)
  /\ out = Escaped(Rest(frame.data, k))
  /\ lost = 0 => ~escaped /\ Got(frame, First(frame.data, k))
  /\ clean >= 1 => ~escaped
  /\ clean >= 2 => Exact(First(frame.data, k))

(* ... before the 0x00 that follows a 0xFF in it, ... *)
Within(k) ==
  /\ k \in 0 .. Len(frame.data) - 1 /\ frame.data[k + 1] = FF
  /\ out = <<0>> \o Escaped(Rest(frame.data, k + 1))
  /\ lost = 0 => IF escaped THEN Got(frame, First(frame.data, k))
                            ELSE last_type = 0
  /\ clean >= 1 => escaped
  /\ clean >= 2 => Exact(First(frame.data, k))

(* ... or in the text that may follow it. *)
InText(k) ==
  /\ stage = "announce" /\ k \in 0..Len(Text)
  /\ out = Rest(Text, k)
  /\ lost = 0 => ~escaped
  /\ clean >= 1 => ~escaped
  /\ clean >= 2 => ~overflow /\ buffer_out = First(Text, k)

LinkInv ==
  /\ LinkTypes /\ Started
  /\ \/ AtHeader \/ AtType
     \/ \E k \in 0..BUFFER_SIZE : After(k) \/ Within(k) \/ InText(k)

-----------------------------------------------------------------------------
(* SerialLink: frames, bytes and what the host makes of them.               *)

(* What the assumptions say of the constants. *)
LEMMA LinkConstants ==
  /\ FF = 255 /\ FF \in Byte /\ 0 \in Byte
  /\ PAGE \in Nat \ {0} /\ BUFFER_SIZE \in Nat \ {0} /\ PAGE <= BUFFER_SIZE
  /\ MAX_PAGES \in Nat /\ MAX_LOST \in Nat
  /\ TagId \in Seq(Byte) /\ TagId # <<>> /\ Len(TagId) <= BUFFER_SIZE
  /\ Text \in Seq(Byte) /\ Len(Text) <= BUFFER_SIZE
  /\ \A i \in 1..Len(Text) : Text[i] \in Byte \ {0, 1, 2, 3, FF}
<1>1. \A i \in 1..Len(Text) : Text[i] \in Byte \ {0, 1, 2, 3, FF}
  <2>1. Text \in Seq(Byte)
    BY SerialLinkAssumption DEF Byte
  <2>2. \A i \in 1..Len(Text) : Text[i] \in Byte /\ Text[i] \in ToSet(Text)
    BY <2>1 DEF ToSet
  <2>3. QED
    BY <2>2, SerialLinkAssumption
<1>2. FF = 255 /\ FF \in Byte /\ 0 \in Byte
  BY DEF FF, Byte
<1>3. QED
  BY <1>1, <1>2, SerialLinkAssumption DEF Byte

(* A page is data that fits into a frame. *)
LEMMA PageIsData ==
  ASSUME NEW data \in Pages
  PROVE  data \in Seq(Byte) /\ data # <<>> /\ Len(data) <= BUFFER_SIZE
<1>1. Data \cup {FF} \subseteq Byte
  BY SerialLinkAssumption, LinkConstants DEF Byte
<1>2. data \in [1..PAGE -> Byte] /\ PAGE \in Nat \ {0} /\ PAGE <= BUFFER_SIZE
  BY <1>1, LinkConstants DEF Pages
<1>3. data \in Seq(Byte) /\ Len(data) = PAGE
  BY <1>2, FunctionIsSeq
<1>4. data # <<>>
  BY <1>2, <1>3
<1>5. QED
  BY <1>2, <1>3, <1>4

(* What the tag writes are frames. *)
LEMMA FramesSent ==
  /\ IsFrame(Frame(0, <<>>)) /\ IsFrame(Frame(3, <<>>))
  /\ IsFrame(Frame(1, TagId))
  /\ \A data \in Pages : IsFrame(Frame(2, data))
<1>1. ASSUME NEW t \in 0..3, NEW d \in Seq(Byte), Len(d) <= BUFFER_SIZE,
             t \in {1, 2} <=> d # <<>>
      PROVE  IsFrame(Frame(t, d))
  BY <1>1 DEF IsFrame, Frame
<1>2. <<>> \in Seq(Byte) /\ Len(<<>>) = 0
  OBVIOUS
<1>3. Len(<<>>) <= BUFFER_SIZE
  BY <1>2, LinkConstants
<1>4. ASSUME NEW data \in Pages
      PROVE  IsFrame(Frame(2, data))
  BY <1>1, PageIsData
<1>5. IsFrame(Frame(1, TagId))
  BY <1>1, LinkConstants
<1>6. IsFrame(Frame(0, <<>>)) /\ IsFrame(Frame(3, <<>>))
  <2>1. 0 \in 0..3 /\ 3 \in 0..3 /\ 0 \notin {1, 2} /\ 3 \notin {1, 2}
    OBVIOUS
  <2>2. QED
    BY <1>1, <1>2, <1>3, <2>1, Zenon
<1>7. QED
  BY <1>4, <1>5, <1>6

(* The first byte and what follows it. *)
LEMMA FromFront ==
  ASSUME NEW S, NEW x \in S, NEW s \in Seq(S), NEW t, t = <<x>> \o s
  PROVE  t \in Seq(S) /\ t # <<>> /\ Head(t) = x /\ Tail(t) = s /\ Len(t) = Len(s) + 1
<1>1. t # <<>> /\ Head(t) = x /\ Tail(t) = s
  BY HeadAndTailOfConcat
<1>2. QED
  BY <1>1

(* The next byte on the line, and what is left. *)
LEMMA LineMoves ==
  ASSUME LinkTypes, out # <<>>
  PROVE  /\ AtHeader => /\ Head(out) = FF
                        /\ Tail(out) = <<frame.type>> \o Escaped(frame.data)
         /\ AtType => /\ Head(out) = frame.type
                      /\ Tail(out) = Escaped(Rest(frame.data, 0))
         /\ \A k :
              /\ After(k) =>
                   /\ k + 1 \in 1..Len(frame.data) /\ frame.data[k + 1] \in Byte
                   /\ IF frame.data[k + 1] = FF
                      THEN /\ Head(out) = FF
                           /\ Tail(out) = <<0>> \o Escaped(Rest(frame.data, k + 1))
                      ELSE /\ Head(out) = frame.data[k + 1]
                           /\ Tail(out) = Escaped(Rest(frame.data, k + 1))
              /\ Within(k) =>
                   /\ Head(out) = 0
                   /\ Tail(out) = Escaped(Rest(frame.data, k + 1))
              /\ InText(k) =>
                   /\ k + 1 \in 1..Len(Text)
                   /\ Head(out) = Text[k + 1] /\ Tail(out) = Rest(Text, k + 1)
<1> DEFINE d == frame.data
           e == Escaped(d)
<1>1. d \in Seq(Byte) /\ frame.type \in Byte /\ Len(d) \in Nat
  BY DEF LinkTypes, IsFrame, Byte, FF
<1>2. e \in Seq(Byte) /\ Rest(d, 0) = d
  BY <1>1, EscapedFromFront, FirstAndRest
<1>3. FF \in Byte /\ 0 \in Byte /\ Text \in Seq(Byte) /\ Len(Text) \in Nat
  BY LinkConstants
<1>4. ASSUME AtHeader
      PROVE  Head(out) = FF /\ Tail(out) = <<frame.type>> \o e
  <2>1. <<frame.type>> \o e \in Seq(Byte)
    BY <1>1, <1>2
  <2>2. out = <<FF>> \o (<<frame.type>> \o e)
    BY <1>4 DEF AtHeader
  <2>3. QED
    BY <1>3, <2>1, <2>2, FromFront
<1>5. ASSUME AtType
      PROVE  Head(out) = frame.type /\ Tail(out) = Escaped(Rest(d, 0))
  <2>1. out = <<frame.type>> \o e
    BY <1>5 DEF AtType
  <2>2. QED
    BY <1>1, <1>2, <2>1, FromFront
<1>6. ASSUME NEW k, After(k)
      PROVE  /\ k + 1 \in 1..Len(d) /\ d[k + 1] \in Byte
             /\ IF d[k + 1] = FF
                THEN Head(out) = FF /\ Tail(out) = <<0>> \o Escaped(Rest(d, k + 1))
                ELSE Head(out) = d[k + 1] /\ Tail(out) = Escaped(Rest(d, k + 1))
  <2>1. k \in 0..Len(d) /\ out = Escaped(Rest(d, k))
    BY <1>6 DEF After
  <2> HIDE DEF d
  <2>2. k # Len(d)
    BY <1>1, <2>1, EscapedRest
  <2>3. /\ k + 1 \in 1..Len(d)
        /\ IF d[k + 1] = FF
           THEN Head(out) = FF /\ Tail(out) = <<0>> \o Escaped(Rest(d, k + 1))
           ELSE Head(out) = d[k + 1] /\ Tail(out) = Escaped(Rest(d, k + 1))
    BY <1>1, <2>1, <2>2, EscapedRest, Zenon
  <2>4. d[k + 1] \in Byte
    BY <1>1, <2>3
  <2>5. QED
    BY <2>3, <2>4
<1>7. ASSUME NEW k, Within(k)
      PROVE  Head(out) = 0 /\ Tail(out) = Escaped(Rest(d, k + 1))
  <2>1. k \in 0 .. Len(d) - 1 /\ out = <<0>> \o Escaped(Rest(d, k + 1))
    BY <1>7 DEF Within
  <2> HIDE DEF d
  <2>2. k + 1 \in 0..Len(d)
    BY <1>1, <2>1
  <2>3. Escaped(Rest(d, k + 1)) \in Seq(Byte)
    BY <1>1, <2>2, EscapedRest
  <2>4. QED
    BY <1>3, <2>1, <2>3, FromFront
<1>8. ASSUME NEW k, InText(k)
      PROVE  /\ k + 1 \in 1..Len(Text)
             /\ Head(out) = Text[k + 1] /\ Tail(out) = Rest(Text, k + 1)
  <2>1. k \in 0..Len(Text) /\ out = Rest(Text, k)
    BY <1>8 DEF InText
  <2>2. k # Len(Text)
    BY <1>3, <2>1, FirstAndRest
  <2>3. k \in 0 .. Len(Text) - 1 /\ k + 1 \in 1..Len(Text)
    BY <1>3, <2>1, <2>2
  <2>4. \A n \in 0 .. Len(Text) - 1 :
          Head(Rest(Text, n)) = Text[n + 1] /\ Tail(Rest(Text, n)) = Rest(Text, n + 1)
    BY <1>3, FirstAndRest
  <2>5. QED
    BY <2>1, <2>3, <2>4, Zenon
<1>9. QED
  BY <1>4, <1>5, <1>6, <1>7, <1>8

(* A byte that fits is stored behind the others. *)
LEMMA StoreAppends ==
  ASSUME LinkTypes, NEW b \in Byte, Store(b)
  PROVE  /\ overflow => overflow'
         /\ overflow' \in BOOLEAN
         /\ last_type' = last_type
         /\ delivered' = <<>>
         /\ buffer_out' \in Seq(Byte) /\ Len(buffer_out') <= BUFFER_SIZE
         /\ \A d \in Seq(Byte) : \A k \in 0 .. Len(d) - 1 :
              Len(d) <= BUFFER_SIZE /\ d[k + 1] = b /\ buffer_out = First(d, k) =>
                buffer_out' = First(d, k + 1) /\ overflow' = overflow
<1>1. /\ overflow => overflow'
      /\ overflow' \in BOOLEAN
      /\ last_type' = last_type
      /\ delivered' = <<>>
  BY DEF Store, LinkTypes
<1>2. buffer_out \in Seq(Byte) /\ Len(buffer_out) <= BUFFER_SIZE /\ BUFFER_SIZE \in Nat
  BY LinkConstants DEF LinkTypes
<1>3. buffer_out' \in Seq(Byte) /\ Len(buffer_out') <= BUFFER_SIZE
  <2>1. CASE Len(buffer_out) < BUFFER_SIZE
    BY <1>2, <2>1 DEF Store
  <2>2. CASE ~(Len(buffer_out) < BUFFER_SIZE)
    BY <1>2, <2>2 DEF Store
  <2>3. QED
    BY <2>1, <2>2
<1>4. ASSUME NEW d \in Seq(Byte), NEW k \in 0 .. Len(d) - 1,
             Len(d) <= BUFFER_SIZE, d[k + 1] = b, buffer_out = First(d, k)
      PROVE  buffer_out' = First(d, k + 1) /\ overflow' = overflow
  <2>1. Len(d) \in Nat /\ k \in 0..Len(d)
    OBVIOUS
  <2>2. Len(First(d, k)) = k /\ First(d, k + 1) = Append(First(d, k), d[k + 1])
    <3>1. \A n \in 0..Len(d) : Len(First(d, n)) = n
      BY FirstAndRest
    <3>2. QED
      BY <2>1, <3>1, FirstGrows, Zenon
  <2>3. Len(buffer_out) < BUFFER_SIZE
    <3>1. Len(buffer_out) = k /\ k < Len(d) /\ Len(d) <= BUFFER_SIZE
      BY <1>4, <2>1, <2>2
    <3>2. QED
      BY <1>2, <2>1, <3>1
  <2>4. buffer_out' = Append(buffer_out, b) /\ overflow' = overflow
    BY <2>3 DEF Store
  <2>5. QED
    BY <1>4, <2>2, <2>4
<1>5. QED
  BY <1>1, <1>3, <1>4

(* What the host makes of a byte. *)
LEMMA ReceiveCases ==
  ASSUME LinkTypes, NEW b \in Byte, Receive(b)
  PROVE  /\ ~escaped /\ b = FF =>
              /\ escaped' = TRUE /\ delivered' = <<>>
              /\ UNCHANGED <<overflow, last_type, buffer_out>>
         /\ ~escaped /\ b # FF => escaped' = FALSE /\ Store(b)
         /\ escaped => escaped' = FALSE
         /\ escaped /\ b = 0 => Store(FF)
         /\ escaped /\ b = 1 => TransmissionStart
         /\ escaped /\ b \in {2, 3} => FrameEnd(b)
         /\ escaped /\ b \notin 0..3 => InvalidSequence
  BY DEF Receive, LinkTypes

(* So that what it has stays within bounds. *)
LEMMA ReceiveTypes ==
  ASSUME LinkTypes, NEW b \in Byte, Receive(b)
  PROVE  /\ escaped' \in BOOLEAN /\ overflow' \in BOOLEAN /\ last_type' \in 0..3
         /\ buffer_out' \in Seq(Byte) /\ Len(buffer_out') <= BUFFER_SIZE
         /\ Len(delivered') <= 1
<1>1. BUFFER_SIZE \in Nat /\ FF \in Byte /\ FF = 255
  BY LinkConstants
<1>2. \A c \in Byte : Store(c) =>
        /\ overflow' \in BOOLEAN /\ last_type' \in 0..3
        /\ buffer_out' \in Seq(Byte) /\ Len(buffer_out') <= BUFFER_SIZE
        /\ Len(delivered') <= 1
  <2>1. last_type \in 0..3 /\ Len(<<>>) <= 1
    BY DEF LinkTypes
  <2>2. QED
    BY <2>1, StoreAppends
<1> DEFINE none == <<>>
<1>10. Len(none) <= 1
  OBVIOUS
<1>3. CASE ~escaped /\ b = FF
  <2>1. escaped' = TRUE /\ delivered' = none
          /\ UNCHANGED <<overflow, last_type, buffer_out>>
    BY <1>3, ReceiveCases
  <2> HIDE DEF none
  <2>2. QED
    BY <1>10, <2>1 DEF LinkTypes
<1>4. CASE ~escaped /\ b # FF
  BY <1>2, <1>4, ReceiveCases
<1>5. CASE escaped /\ b = 0
  BY <1>1, <1>2, <1>5, ReceiveCases
<1>6. CASE escaped /\ b = 1
  <2>1. escaped' = FALSE /\ TransmissionStart
    BY <1>6, ReceiveCases
  <2>2. last_type' = 1 /\ buffer_out' = none /\ delivered' = none
          /\ overflow' = overflow
    BY <2>1 DEF TransmissionStart
  <2>3. none \in Seq(Byte) /\ Len(none) <= BUFFER_SIZE
    BY <1>1
  <2> HIDE DEF none
  <2>4. escaped' \in BOOLEAN /\ overflow' \in BOOLEAN
    BY <2>1, <2>2 DEF LinkTypes
  <2>5. QED
    BY <1>10, <2>2, <2>3, <2>4
<1>7. CASE escaped /\ b \in {2, 3}
  <2>1. escaped' = FALSE /\ FrameEnd(b)
    BY <1>7, ReceiveCases
  <2>2. Len(delivered') <= 1
    BY <2>1 DEF FrameEnd
  <2>3. overflow' = FALSE /\ last_type' = b /\ buffer_out' = none
    BY <2>1 DEF FrameEnd
  <2>4. none \in Seq(Byte) /\ Len(none) <= BUFFER_SIZE
    BY <1>1
  <2> HIDE DEF none
  <2>5. escaped' \in BOOLEAN /\ overflow' \in BOOLEAN
    BY <2>1, <2>3
  <2>6. QED
    BY <1>7, <2>2, <2>3, <2>4, <2>5
<1>8. CASE escaped /\ b \notin 0..3
  <2>1. escaped' = FALSE /\ InvalidSequence
    BY <1>8, ReceiveCases
  <2>2. last_type' = 0 /\ delivered' = none
          /\ UNCHANGED <<overflow, buffer_out>>
    BY <2>1 DEF InvalidSequence
  <2> HIDE DEF none
  <2>3. escaped' \in BOOLEAN /\ overflow' \in BOOLEAN
    BY <2>1, <2>2 DEF LinkTypes
  <2>4. last_type' \in 0..3 /\ Len(delivered') <= 1
    BY <1>10, <2>2
  <2>5. buffer_out' \in Seq(Byte) /\ Len(buffer_out') <= BUFFER_SIZE
    BY <2>2 DEF LinkTypes
  <2>6. QED
    BY <2>3, <2>4, <2>5
<1>9. QED
  <2>1. b = 0 \/ b = 1 \/ b \in {2, 3} \/ b \notin 0..3
    BY DEF Byte
  <2>2. escaped \in BOOLEAN
    BY DEF LinkTypes
  <2>3. QED
    BY <1>3, <1>4, <1>5, <1>6, <1>7, <1>8, <2>1, <2>2

(* The smaller of two. *)
LEMMA MinOfTwo ==
  ASSUME NEW a \in Int, NEW b \in Int
  PROVE  Min({a, b}) = IF a <= b THEN a ELSE b
<1> DEFINE m == IF a <= b THEN a ELSE b
<1>1. m \in {a, b} /\ \A y \in {a, b} : m <= y
  OBVIOUS
<1>2. \A x \in {a, b} : (\A y \in {a, b} : x <= y) => x = m
  OBVIOUS
<1> HIDE DEF m
<1>3. (CHOOSE x \in {a, b} : \A y \in {a, b} : x <= y) = m
  BY <1>1, <1>2, Zenon
<1>4. QED
  BY <1>3 DEF Min, m

(* A frame more without losses, unless the host is not there. *)
LEMMA CleanCounts ==
  ASSUME LinkTypes, NEW f, DumpEscaped(f)
  PROVE  /\ clean' \in 0..4
         /\ attached => clean' = IF clean < 4 THEN clean + 1 ELSE 4
         /\ ~attached => clean' = 0
<1>1. clean \in 0..4
  BY DEF LinkTypes
<1>2. Min({clean + 1, 4}) = IF clean + 1 <= 4 THEN clean + 1 ELSE 4
  BY <1>1, MinOfTwo
<1>3. clean' = IF attached THEN Min({clean + 1, 4}) ELSE 0
  BY DEF DumpEscaped
<1>4. QED
  BY <1>1, <1>2, <1>3

(* Where the line is when the tag may write. *)
LEMMA LineIdle ==
  ASSUME LinkInv, out = <<>>
  PROVE  After(Len(frame.data)) \/ (stage = "announce" /\ InText(Len(Text)))
<1> DEFINE d == frame.data
<1>1. LinkTypes /\ d \in Seq(Byte) /\ frame.type \in Byte /\ Len(d) \in Nat
  BY DEF LinkInv, LinkTypes, IsFrame, Byte, FF
<1>2. Escaped(d) \in Seq(Byte) /\ FF \in Byte /\ 0 \in Byte
        /\ Text \in Seq(Byte) /\ Len(Text) \in Nat
  <2>1. Escaped(d) \in Seq(Byte)
    BY <1>1, EscapedFromFront
  <2>2. QED
    BY <2>1, LinkConstants
<1>3. <<frame.type>> \o Escaped(d) \in Seq(Byte) /\ <<frame.type>> \o Escaped(d) # <<>>
  BY <1>1, <1>2, FromFront
<1>4. ~AtHeader /\ ~AtType
  <2>1. <<FF>> \o (<<frame.type>> \o Escaped(d)) # <<>>
    BY <1>2, <1>3, FromFront
  <2>2. QED
    BY <1>3, <2>1 DEF AtHeader, AtType
<1>5. ASSUME NEW k, Within(k)
      PROVE  FALSE
  <2>1. k \in 0 .. Len(d) - 1 /\ out = <<0>> \o Escaped(Rest(d, k + 1))
    BY <1>5 DEF Within
  <2> HIDE DEF d
  <2>2. k + 1 \in 0..Len(d)
    BY <1>1, <2>1
  <2>3. Escaped(Rest(d, k + 1)) \in Seq(Byte)
    BY <1>1, <2>2, EscapedRest
  <2>4. <<0>> \o Escaped(Rest(d, k + 1)) # <<>>
    BY <1>2, <2>3, FromFront
  <2>5. QED
    BY <2>1, <2>4
<1>6. ASSUME NEW k, After(k)
      PROVE  k = Len(d)
  <2>1. k \in 0..Len(d) /\ out = Escaped(Rest(d, k))
    BY <1>6 DEF After
  <2> HIDE DEF d
  <2>2. QED
    BY <1>1, <2>1, EscapedRest
<1>7. ASSUME NEW k, InText(k)
      PROVE  k = Len(Text) /\ stage = "announce"
  <2>1. k \in 0..Len(Text) /\ out = Rest(Text, k) /\ stage = "announce"
    BY <1>7 DEF InText
  <2>2. Len(Rest(Text, k)) = Len(Text) - k /\ Len(out) = 0
    BY <1>2, <2>1, FirstAndRest
  <2>3. QED
    BY <1>2, <2>1, <2>2
<1>8. QED
  BY <1>4, <1>5, <1>6, <1>7 DEF LinkInv

(* The tag writes the next frame. *)
LEMMA FrameFollows ==
  ASSUME LinkInv, NEW f, IsFrame(f), f.type # 0,
         f.type = 1 <=> stage = "announce", DumpEscaped(f)
  PROVE  AtHeader'
<1> DEFINE n == Len(frame.data)
<1>1. LinkTypes /\ out = <<>> /\ frame' = f /\ before' = frame
        /\ UNCHANGED <<attached, lost, escaped, overflow, last_type, buffer_out>>
  BY DEF LinkInv, DumpEscaped
<1>2. /\ clean \in 0..4 /\ clean' \in 0..4
      /\ attached => clean' = IF clean < 4 THEN clean + 1 ELSE 4
      /\ ~attached => clean' = 0
  BY <1>1, CleanCounts DEF LinkTypes
<1>3. frame.data \in Seq(Byte) /\ (stage = "announce" => frame.type \in {0, 3})
  BY <1>1 DEF LinkTypes, IsFrame
<1>4. out' = <<FF>> \o (<<f.type>> \o Escaped(f.data))
  <2>1. f.type \in Byte /\ f.data \in Seq(Byte) /\ FF \in Byte
    BY LinkConstants DEF IsFrame, Byte, FF
  <2>2. Escaped(f.data) \in Seq(Byte)
    BY <2>1, EscapedFromFront
  <2>3. out' = <<FF, f.type>> \o Escaped(f.data)
    BY DEF DumpEscaped
  <2>4. QED
    BY <2>1, <2>2, <2>3
<1>5. CASE After(n)
  <2>1. First(frame.data, n) = frame.data
    BY <1>3, FirstAndRest
  <2>2. /\ lost = 0 => ~escaped /\ Got(frame, frame.data)
        /\ clean >= 1 => ~escaped
        /\ clean >= 2 => Exact(frame.data)
    BY <1>5, <2>1, Zenon DEF After
  <2>3. lost' = 0 => ~escaped' /\ Got(before, before.data)'
    BY <1>1, <2>2, Zenon DEF Got, Has
  <2>4. clean' >= 2 => ~escaped'
    BY <1>1, <1>2, <2>2
  <2>5. clean' >= 3 => Kept'
    BY <1>1, <1>2, <2>2 DEF Exact, Kept, Has
  <2>6. QED
    BY <1>1, <1>3, <1>4, <2>3, <2>4, <2>5 DEF AtHeader
<1>6. CASE stage = "announce" /\ InText(Len(Text))
  <2>1. f.type = 1 /\ frame.type \in {0, 3}
    BY <1>3, <1>6
  <2>2. /\ lost = 0 => ~escaped
        /\ clean >= 1 => ~escaped
        /\ clean >= 2 => ~overflow
    BY <1>6 DEF InText
  <2>3. clean' >= 2 => ~escaped'
    BY <1>1, <1>2, <2>2
  <2>4. clean' >= 3 => Kept'
    BY <1>1, <1>2, <2>1, <2>2 DEF Kept
  <2>5. QED
    BY <1>1, <1>4, <2>1, <2>2, <2>3, <2>4 DEF AtHeader
<1>7. QED
  BY <1>1, <1>5, <1>6, LineIdle

-----------------------------------------------------------------------------
(* SerialLink: the steps.                                                   *)

(* Initially the tag has text to write, and the host is not there. *)
LEMMA LinkStarts == Init => LinkInv
<1> SUFFICES ASSUME Init
             PROVE  LinkInv
  OBVIOUS
<1>1. /\ stage = "text" /\ pages = 0 /\ out = <<>>
      /\ frame = Frame(0, <<>>) /\ before = Frame(0, <<>>)
      /\ clean = 0 /\ attached = FALSE /\ lost = 0
      /\ escaped = FALSE /\ overflow = FALSE /\ last_type = 0
      /\ buffer_out = <<>> /\ delivered = <<>>
  BY DEF Init
<1>2. frame.type = 0 /\ frame.data = <<>>
  BY <1>1 DEF Frame
<1> DEFINE none == <<>>
<1>3. none \in Seq(Byte) /\ Len(none) <= BUFFER_SIZE /\ Len(none) <= 1 /\ Len(none) = 0
  BY LinkConstants
<1>4. IsFrame(frame) /\ IsFrame(before)
  BY <1>1, FramesSent, Zenon
<1>5. LinkTypes
  <2>1. MAX_LOST \in Nat /\ MAX_PAGES \in Nat
    BY LinkConstants
  <2>2. buffer_out = none /\ delivered = none
    BY <1>1
  <2> HIDE DEF none
  <2>3. attached \in BOOLEAN /\ escaped \in BOOLEAN /\ overflow \in BOOLEAN
    BY <1>1
  <2>4. QED
    BY <1>1, <1>2, <1>3, <1>4, <2>1, <2>2, <2>3 DEF LinkTypes
<1>6. Started
  BY <1>1 DEF Started
<1>7. After(0)
  <2>1. Escaped(Rest(frame.data, 0)) = <<>>
    <3>1. Rest(none, 0) = none
      BY <1>3, FirstAndRest
    <3>2. QED
      BY <1>2, <3>1, EscapedFromFront
  <2>2. 0 \in 0..Len(frame.data)
    BY <1>2, <1>3
  <2>3. out = Escaped(Rest(frame.data, 0))
    BY <1>1, <2>1
  <2>4. Got(frame, First(frame.data, 0))
    BY <1>1 DEF Got
  <2>5. QED
    BY <1>1, <2>2, <2>3, <2>4 DEF After
<1>8. 0 \in 0..BUFFER_SIZE
  BY LinkConstants
<1>9. QED
  BY <1>5, <1>6, <1>7, <1>8 DEF LinkInv

(* The frames that the tag writes are frames, and the host stays within     *)
(* its bounds.                                                              *)
LEMMA FrameTypes ==
  ASSUME LinkTypes, Started, NEW f, IsFrame(f), DumpEscaped(f),
         stage' \in {"announce", "end", "pages", "text"}, pages' \in 0..MAX_PAGES,
         stage' \in {"announce", "text"} => f.type \in {0, 3}
  PROVE  LinkTypes' /\ Started'
<1>1. /\ frame' = f /\ before' = frame /\ delivered' = <<>>
      /\ UNCHANGED <<attached, lost, escaped, overflow, last_type, buffer_out>>
  BY DEF DumpEscaped
<1>2. clean' \in 0..4 /\ (~attached => clean' = 0) /\ Len(delivered') <= 1
  BY <1>1, CleanCounts
<1>3. IsFrame(frame)' /\ IsFrame(before)'
  BY <1>1 DEF IsFrame, LinkTypes
<1>4. (attached \in BOOLEAN /\ escaped \in BOOLEAN /\ overflow \in BOOLEAN)'
  BY <1>1 DEF LinkTypes
<1>5. LinkTypes'
  BY <1>1, <1>2, <1>3, <1>4 DEF LinkTypes
<1>6. Started'
  BY <1>1, <1>2 DEF Started
<1>7. QED
  BY <1>5, <1>6

(* So it does for a byte. *)
LEMMA PutTypes ==
  ASSUME LinkTypes, Started, Put, Head(out) \in Byte
  PROVE  LinkTypes' /\ Started'
<1>1. UNCHANGED <<stage, pages, frame, before, clean, attached, lost>>
  BY DEF Put
<1>2. IsFrame(frame)' /\ IsFrame(before)'
  BY <1>1 DEF IsFrame, LinkTypes
<1>3. CASE attached
  <2>1. Receive(Head(out))
    BY <1>3 DEF Put
  <2>2. /\ escaped' \in BOOLEAN /\ overflow' \in BOOLEAN /\ last_type' \in 0..3
        /\ buffer_out' \in Seq(Byte) /\ Len(buffer_out') <= BUFFER_SIZE
        /\ Len(delivered') <= 1
    BY <2>1, ReceiveTypes
  <2>3. LinkTypes'
    BY <1>1, <1>2, <2>2 DEF LinkTypes
  <2>4. QED
    BY <1>1, <1>3, <2>3 DEF Started
<1>4. CASE ~attached
  <2>1. delivered' = <<>> /\ UNCHANGED <<escaped, overflow, last_type, buffer_out>>
    BY <1>4 DEF Put
  <2>2. Len(delivered') <= 1
    BY <2>1
  <2>3. (attached \in BOOLEAN /\ escaped \in BOOLEAN /\ overflow \in BOOLEAN)'
    BY <1>1, <2>1 DEF LinkTypes
  <2>4. LinkTypes'
    BY <1>1, <1>2, <2>1, <2>2, <2>3 DEF LinkTypes
  <2>5. QED
    BY <1>1, <2>1, <2>4 DEF Started
<1>5. QED
  BY <1>3, <1>4

(* The header: its 0xFF. *)
LEMMA HeaderByte ==
  ASSUME LinkTypes, Started, AtHeader, Put
  PROVE  AtType'
<1>1. out # <<>> /\ out' = Tail(out)
        /\ UNCHANGED <<stage, pages, frame, before, clean, attached, lost>>
  BY DEF Put
<1>2. Head(out) = FF /\ out' = <<frame.type>> \o Escaped(frame.data)
  BY <1>1, LineMoves
<1>3. FF \in Byte /\ FF = 255 /\ clean \in 0..4 /\ attached \in BOOLEAN /\ escaped \in BOOLEAN
  BY LinkConstants DEF LinkTypes
<1>4. /\ frame.type # 0 /\ (frame.type = 1 => before.type # 1)
      /\ lost = 0 => ~escaped /\ (frame.type = 1 \/ Got(before, before.data))
      /\ clean >= 2 => ~escaped
      /\ clean >= 3 => Kept
  BY DEF AtHeader
<1>5. CASE attached /\ ~escaped
  <2>1. escaped' = TRUE /\ UNCHANGED <<overflow, last_type, buffer_out>>
    BY <1>2, <1>3, <1>5, ReceiveCases DEF Put
  <2>2. lost = 0 => frame'.type = 1 \/ Got(before, before.data)'
    BY <1>1, <1>4, <2>1, Zenon DEF Got, Has
  <2>3. clean' >= 3 => Kept'
    BY <1>1, <1>4, <2>1 DEF Kept, Has
  <2>4. QED
    BY <1>1, <1>2, <1>4, <2>1, <2>2, <2>3 DEF AtType
<1>6. CASE attached /\ escaped
  <2>1. lost # 0 /\ ~(clean >= 2) /\ ~(clean >= 3)
    BY <1>3, <1>4, <1>6
  <2>2. QED
    BY <1>1, <1>2, <1>4, <2>1 DEF AtType
<1>7. CASE ~attached
  <2>1. ~escaped /\ last_type = 0 /\ clean = 0
        /\ UNCHANGED <<escaped, overflow, last_type, buffer_out>>
    BY <1>7 DEF Started, Put
  <2>2. escaped' = FALSE /\ last_type' = 0 /\ clean' = 0
    BY <1>1, <1>3, <2>1
  <2>3. ~(clean' >= 2) /\ ~(clean' >= 3)
    BY <2>2
  <2>4. QED
    BY <1>1, <1>2, <1>4, <2>2, <2>3, Zenon DEF AtType
<1>8. QED
  BY <1>3, <1>5, <1>6, <1>7

(* Its type. *)
LEMMA TypeByte ==
  ASSUME LinkTypes, Started, AtType, Put
  PROVE  After(0)'
<1>1. out # <<>> /\ out' = Tail(out)
        /\ UNCHANGED <<stage, pages, frame, before, clean, attached, lost>>
  BY DEF Put
<1>2. Head(out) = frame.type /\ out' = Escaped(Rest(frame.data, 0))
        /\ frame.data \in Seq(Byte) /\ frame.type \in Byte /\ frame.type \in 1..3
  <2>1. Head(out) = frame.type /\ out' = Escaped(Rest(frame.data, 0))
    BY <1>1, LineMoves
  <2>2. QED
    BY <2>1 DEF AtType, LinkTypes, IsFrame, Byte, FF
<1>3. clean \in 0..4 /\ attached \in BOOLEAN /\ escaped \in BOOLEAN /\ FF = 255
  BY LinkConstants DEF LinkTypes
<1>4. /\ frame.type = 1 => before.type # 1
      /\ lost = 0 => IF escaped THEN frame.type = 1 \/ Got(before, before.data)
                                ELSE last_type = 0
      /\ clean >= 2 => escaped
      /\ clean >= 3 => Kept
  BY DEF AtType
<1>5. First(frame.data, 0) = <<>> /\ 0 \in 0..Len(frame.data)
  BY <1>2, FirstAndRest
<1>6. CASE attached /\ escaped
  <2>1. escaped' = FALSE /\ IF frame.type = 1 THEN TransmissionStart ELSE FrameEnd(frame.type)
    <3>1. Receive(frame.type)
      BY <1>2, <1>6 DEF Put
    <3>2. frame.type # 1 => frame.type \in {2, 3}
      BY <1>2
    <3>3. QED
      BY <1>2, <1>6, <3>1, <3>2, ReceiveCases
  <2>2. last_type' = frame.type /\ buffer_out' = <<>>
          /\ IF frame.type = 1 THEN overflow' = overflow ELSE overflow' = FALSE
    BY <2>1 DEF TransmissionStart, FrameEnd
  <2>3. Has(frame, First(frame.data, 0))'
    BY <1>1, <1>5, <2>2, Zenon DEF Has
  <2>4. Got(frame, First(frame.data, 0))'
    BY <2>3 DEF Got
  <2>5. clean >= 3 /\ frame.type = 1 => ~overflow
    BY <1>4 DEF Kept
  <2>6. clean' >= 2 => Exact(First(frame.data, 0))'
    BY <1>1, <1>3, <2>2, <2>3, <2>5 DEF Exact
  <2>7. QED
    BY <1>1, <1>2, <1>5, <2>1, <2>4, <2>6 DEF After
<1>7. CASE attached /\ ~escaped
  <2>1. escaped' = FALSE /\ Store(frame.type)
    <3>1. Receive(frame.type)
      BY <1>2, <1>7 DEF Put
    <3>2. frame.type # FF
      BY <1>2, <1>3
    <3>3. QED
      BY <1>2, <1>7, <3>1, <3>2, ReceiveCases
  <2>2. last_type' = last_type
    BY <2>1 DEF Store
  <2>3. lost = 0 => Got(frame, First(frame.data, 0))'
    BY <1>4, <1>7, <2>2 DEF Got
  <2>4. ~(clean >= 2)
    BY <1>4, <1>7
  <2>5. QED
    BY <1>1, <1>2, <1>5, <2>1, <2>3, <2>4 DEF After
<1>8. CASE ~attached
  <2>1. ~escaped /\ last_type = 0 /\ clean = 0
        /\ UNCHANGED <<escaped, overflow, last_type, buffer_out>>
    BY <1>8 DEF Started, Put
  <2>2. Got(frame, First(frame.data, 0))'
    BY <2>1 DEF Got
  <2>3. QED
    BY <1>1, <1>2, <1>5, <2>1, <2>2 DEF After
<1>9. QED
  BY <1>3, <1>6, <1>7, <1>8

(* A byte of its data is stored. *)
LEMMA StoreAnother ==
  ASSUME LinkTypes, NEW k, k + 1 \in 1..Len(frame.data), k \in 0..Len(frame.data),
         Store(frame.data[k + 1]), UNCHANGED <<frame, clean, lost>>
  PROVE  /\ Got(frame, First(frame.data, k)) => Got(frame, First(frame.data, k + 1))'
         /\ Exact(First(frame.data, k)) => Exact(First(frame.data, k + 1))'
<1> DEFINE d == frame.data
           b == d[k + 1]
<1>1. d \in Seq(Byte) /\ Len(d) \in Nat /\ Len(d) <= BUFFER_SIZE
  BY DEF LinkTypes, IsFrame
<1> HIDE DEF d
<1>2. k \in 0 .. Len(d) - 1 /\ b \in Byte
  BY <1>1 DEF d
<1> HIDE DEF b
<1>3. Store(b) /\ d' = d
  BY DEF d, b
<1>4. overflow => overflow'
  BY <1>2, <1>3, StoreAppends
<1>5. last_type' = last_type
  BY <1>2, <1>3, StoreAppends
<1>6. buffer_out = First(d, k) => buffer_out' = First(d, k + 1) /\ overflow' = overflow
  BY <1>1, <1>2, <1>3, StoreAppends DEF b
<1>7. Has(frame, First(d, k)) => Has(frame, First(d, k + 1))'
  BY <1>3, <1>5, <1>6, Zenon DEF Has
<1>8. Got(frame, First(d, k)) => Got(frame, First(d, k + 1))'
  BY <1>4, <1>5, <1>7, Zenon DEF Got
<1>9. Exact(First(d, k)) => Exact(First(d, k + 1))'
  BY <1>3, <1>6, <1>7, Zenon DEF Exact, Has
<1>10. QED
  BY <1>8, <1>9 DEF d

(* Its data: a byte that needs no escape, or the 0xFF before a 0x00, ...    *)
LEMMA DataByte ==
  ASSUME LinkTypes, Started, Put, NEW k, After(k)
  PROVE  Within(k)' \/ After(k + 1)'
<1> DEFINE d == frame.data
           b == d[k + 1]
<1>1. out # <<>> /\ out' = Tail(out)
        /\ UNCHANGED <<stage, pages, frame, before, clean, attached, lost>>
  BY DEF Put
<1>2. /\ k + 1 \in 1..Len(d) /\ b \in Byte
      /\ IF b = FF THEN Head(out) = FF /\ Tail(out) = <<0>> \o Escaped(Rest(d, k + 1))
                   ELSE Head(out) = b /\ Tail(out) = Escaped(Rest(d, k + 1))
  BY <1>1, LineMoves
<1>3. clean \in 0..4 /\ attached \in BOOLEAN /\ escaped \in BOOLEAN
        /\ d \in Seq(Byte) /\ Len(d) \in Nat
  BY DEF LinkTypes, IsFrame
<1>4. /\ k \in 0..Len(d)
      /\ lost = 0 => ~escaped /\ Got(frame, First(d, k))
      /\ clean >= 1 => ~escaped
      /\ clean >= 2 => Exact(First(d, k))
  BY DEF After
<1>5. k + 1 \in 0..Len(d) /\ k \in 0 .. Len(d) - 1 /\ Head(out) = b
  BY <1>2, <1>3, <1>4
<1>6. CASE b = FF
  <2>1. out' = <<0>> \o Escaped(Rest(d, k + 1))
    BY <1>1, <1>2, <1>6
  <2>2. CASE attached /\ ~escaped
    <3>1. escaped' = TRUE /\ UNCHANGED <<overflow, last_type, buffer_out>>
      BY <1>2, <1>5, <1>6, <2>2, ReceiveCases DEF Put
    <3>2. Got(frame, First(d, k)) => Got(frame, First(d, k))'
      BY <1>1, <3>1, Zenon DEF Got, Has
    <3>3. Exact(First(d, k)) => Exact(First(d, k))'
      BY <1>1, <3>1, Zenon DEF Exact, Has
    <3>4. QED
      BY <1>1, <1>4, <1>5, <1>6, <2>1, <3>1, <3>2, <3>3 DEF Within
  <2>3. CASE attached /\ escaped
    <3>1. lost # 0 /\ ~(clean >= 1) /\ ~(clean >= 2)
      BY <1>3, <1>4, <2>3
    <3>2. QED
      BY <1>1, <1>5, <1>6, <2>1, <3>1 DEF Within
  <2>4. CASE ~attached
    <3>1. escaped' = FALSE /\ last_type' = 0 /\ clean' = 0
      BY <1>1, <1>3, <2>4 DEF Started, Put
    <3>2. ~(clean' >= 1) /\ ~(clean' >= 2)
      BY <3>1
    <3>3. QED
      BY <1>1, <1>5, <1>6, <2>1, <3>1, <3>2, Zenon DEF Within
  <2>5. QED
    BY <1>3, <2>2, <2>3, <2>4
<1>7. CASE b # FF
  <2>1. out' = Escaped(Rest(d, k + 1))
    BY <1>1, <1>2, <1>7
  <2>2. CASE attached /\ ~escaped
    <3>1. escaped' = FALSE /\ Store(b)
      BY <1>2, <1>5, <1>7, <2>2, ReceiveCases DEF Put
    <3>2. /\ Got(frame, First(d, k)) => Got(frame, First(d, k + 1))'
          /\ Exact(First(d, k)) => Exact(First(d, k + 1))'
      BY <1>1, <1>2, <1>4, <3>1, StoreAnother
    <3>3. QED
      BY <1>1, <1>4, <1>5, <2>1, <3>1, <3>2 DEF After
  <2>3. CASE attached /\ escaped
    <3>1. lost # 0 /\ ~(clean >= 1) /\ ~(clean >= 2)
      BY <1>3, <1>4, <2>3
    <3>2. QED
      BY <1>1, <1>5, <2>1, <3>1 DEF After
  <2>4. CASE ~attached
    <3>1. escaped' = FALSE /\ last_type' = 0 /\ clean' = 0
      BY <1>1, <1>3, <2>4 DEF Started, Put
    <3>2. Got(frame, First(d, k + 1))'
      BY <3>1 DEF Got
    <3>3. QED
      BY <1>1, <1>5, <2>1, <3>1, <3>2 DEF After
  <2>5. QED
    BY <1>3, <2>2, <2>3, <2>4
<1>8. QED
  BY <1>6, <1>7

(* ... and that 0x00. *)
LEMMA EscapeByte ==
  ASSUME LinkTypes, Started, Put, NEW k, Within(k)
  PROVE  After(k + 1)'
<1> DEFINE d == frame.data
<1>1. out # <<>> /\ out' = Tail(out)
        /\ UNCHANGED <<stage, pages, frame, before, clean, attached, lost>>
  BY DEF Put
<1>2. Head(out) = 0 /\ out' = Escaped(Rest(d, k + 1))
  BY <1>1, LineMoves
<1>3. clean \in 0..4 /\ attached \in BOOLEAN /\ escaped \in BOOLEAN
        /\ d \in Seq(Byte) /\ Len(d) \in Nat /\ 0 \in Byte /\ FF = 255
  BY LinkConstants DEF LinkTypes, IsFrame
<1>4. /\ k \in 0 .. Len(d) - 1 /\ d[k + 1] = FF
      /\ lost = 0 => IF escaped THEN Got(frame, First(d, k)) ELSE last_type = 0
      /\ clean >= 1 => escaped
      /\ clean >= 2 => Exact(First(d, k))
  BY DEF Within
<1>5. k + 1 \in 0..Len(d) /\ k + 1 \in 1..Len(d) /\ k \in 0..Len(d)
  BY <1>3, <1>4
<1>6. CASE attached /\ escaped
  <2>1. escaped' = FALSE /\ Store(FF)
    BY <1>2, <1>3, <1>6, ReceiveCases DEF Put
  <2>3. /\ Got(frame, First(d, k)) => Got(frame, First(d, k + 1))'
        /\ Exact(First(d, k)) => Exact(First(d, k + 1))'
    BY <1>1, <1>4, <1>5, <2>1, StoreAnother
  <2>4. QED
    BY <1>1, <1>2, <1>4, <1>5, <1>6, <2>1, <2>3 DEF After
<1>7. CASE attached /\ ~escaped
  <2>1. escaped' = FALSE /\ Store(0)
    <3>1. Receive(0) /\ 0 # FF
      BY <1>2, <1>3, <1>7 DEF Put
    <3>2. QED
      BY <1>3, <1>7, <3>1, ReceiveCases
  <2>2. last_type' = last_type
    BY <2>1 DEF Store
  <2>3. lost = 0 => Got(frame, First(d, k + 1))'
    BY <1>4, <1>7, <2>2 DEF Got
  <2>4. ~(clean >= 1) /\ ~(clean >= 2)
    BY <1>3, <1>4, <1>7
  <2>5. QED
    BY <1>1, <1>2, <1>5, <2>1, <2>3, <2>4 DEF After
<1>8. CASE ~attached
  <2>1. escaped' = FALSE /\ last_type' = 0 /\ clean' = 0
    BY <1>1, <1>3, <1>8 DEF Started, Put
  <2>2. Got(frame, First(d, k + 1))'
    BY <2>1 DEF Got
  <2>3. QED
    BY <1>1, <1>2, <1>5, <2>1, <2>2 DEF After
<1>9. QED
  BY <1>3, <1>6, <1>7, <1>8

(* The text. *)
LEMMA TextByte ==
  ASSUME LinkTypes, Started, Put, NEW k, InText(k)
  PROVE  InText(k + 1)'
<1>1. out # <<>> /\ out' = Tail(out)
        /\ UNCHANGED <<stage, pages, frame, before, clean, attached, lost>>
  BY DEF Put
<1> DEFINE b == Text[k + 1]
<1>2. k + 1 \in 1..Len(Text) /\ Head(out) = b /\ out' = Rest(Text, k + 1)
  BY <1>1, LineMoves
<1>3. clean \in 0..4 /\ attached \in BOOLEAN /\ escaped \in BOOLEAN
        /\ Text \in Seq(Byte) /\ Len(Text) \in Nat /\ Len(Text) <= BUFFER_SIZE
  BY LinkConstants DEF LinkTypes
<1>4. b \in Byte /\ b # FF
  BY <1>2, LinkConstants
<1>5. /\ stage = "announce" /\ k \in 0..Len(Text)
      /\ lost = 0 => ~escaped
      /\ clean >= 1 => ~escaped
      /\ clean >= 2 => ~overflow /\ buffer_out = First(Text, k)
  BY DEF InText
<1>6. k + 1 \in 0..Len(Text) /\ k \in 0 .. Len(Text) - 1
  BY <1>2, <1>3, <1>5
<1>7. CASE attached /\ ~escaped
  <2>1. escaped' = FALSE /\ Store(b)
    <3>1. Receive(b)
      BY <1>2, <1>7 DEF Put
    <3>2. QED
      BY <1>4, <1>7, <3>1, ReceiveCases
  <2> HIDE DEF b
  <2>2. buffer_out = First(Text, k) =>
          buffer_out' = First(Text, k + 1) /\ overflow' = overflow
    BY <1>3, <1>4, <1>6, <2>1, StoreAppends DEF b
  <2>3. QED
    BY <1>1, <1>2, <1>5, <1>6, <2>1, <2>2 DEF InText
<1>8. CASE attached /\ escaped
  <2>1. lost # 0 /\ ~(clean >= 1) /\ ~(clean >= 2)
    BY <1>3, <1>5, <1>8
  <2>2. QED
    BY <1>1, <1>2, <1>5, <1>6, <2>1 DEF InText
<1>9. CASE ~attached
  <2>1. escaped' = FALSE /\ clean' = 0
    BY <1>1, <1>3, <1>9 DEF Started, Put
  <2>2. QED
    BY <1>1, <1>2, <1>5, <1>6, <2>1 DEF InText
<1>10. QED
  BY <1>3, <1>7, <1>8, <1>9

(* A byte goes to the host, wherever the line is. *)
LEMMA PutKeeps ==
  ASSUME LinkInv, Put
  PROVE  LinkInv'
<1>1. LinkTypes /\ Started /\ out # <<>>
  BY DEF LinkInv, Put
<1>2. /\ FF \in Byte /\ 0 \in Byte /\ Len(Text) <= BUFFER_SIZE /\ BUFFER_SIZE \in Nat
      /\ Len(Text) \in Nat /\ \A i \in 1..Len(Text) : Text[i] \in Byte
  BY LinkConstants
<1>3. /\ frame.type \in Byte /\ Len(frame.data) \in Nat
      /\ Len(frame.data) <= BUFFER_SIZE
  BY <1>1 DEF LinkTypes, IsFrame, Byte, FF
<1>4. UNCHANGED <<stage, pages, frame, before, clean, attached, lost>>
  BY DEF Put
<1>5. CASE AtHeader
  <2>1. AtType' /\ Head(out) \in Byte
    BY <1>1, <1>2, <1>5, HeaderByte, LineMoves
  <2>2. QED
    BY <1>1, <2>1, PutTypes DEF LinkInv
<1>6. CASE AtType
  <2>1. After(0)' /\ Head(out) \in Byte
    BY <1>1, <1>3, <1>6, TypeByte, LineMoves
  <2>2. 0 \in 0..BUFFER_SIZE
    BY <1>2
  <2>3. QED
    BY <1>1, <2>1, <2>2, PutTypes DEF LinkInv
<1>7. ASSUME NEW k \in 0..BUFFER_SIZE, After(k)
      PROVE  LinkInv'
  <2>1. k + 1 \in 1..Len(frame.data) /\ Head(out) \in Byte
    BY <1>1, <1>2, <1>7, LineMoves
  <2>2. k + 1 \in 0..BUFFER_SIZE
    BY <1>2, <1>3, <2>1
  <2>3. Within(k)' \/ After(k + 1)'
    BY <1>1, <1>7, DataByte
  <2>4. QED
    BY <1>1, <2>1, <2>2, <2>3, PutTypes DEF LinkInv
<1>8. ASSUME NEW k \in 0..BUFFER_SIZE, Within(k)
      PROVE  LinkInv'
  <2>1. Head(out) \in Byte
    BY <1>1, <1>2, <1>8, LineMoves
  <2>2. k + 1 \in 0..BUFFER_SIZE
    BY <1>2, <1>3, <1>8 DEF Within
  <2>3. After(k + 1)'
    BY <1>1, <1>8, EscapeByte
  <2>4. QED
    BY <1>1, <2>1, <2>2, <2>3, PutTypes DEF LinkInv
<1>9. ASSUME NEW k \in 0..BUFFER_SIZE, InText(k)
      PROVE  LinkInv'
  <2>1. k + 1 \in 1..Len(Text) /\ Head(out) \in Byte
    BY <1>1, <1>2, <1>9, LineMoves
  <2>2. k + 1 \in 0..BUFFER_SIZE
    BY <1>2, <2>1
  <2>3. InText(k + 1)'
    BY <1>1, <1>9, TextByte
  <2>4. QED
    BY <1>1, <2>1, <2>2, <2>3, PutTypes DEF LinkInv
<1>10. QED
  BY <1>5, <1>6, <1>7, <1>8, <1>9 DEF LinkInv

(* What is left after a byte is the same whether it is lost or received.    *)
LEMMA LoseKeeps ==
  ASSUME LinkInv, Lose
  PROVE  LinkInv'
<1>1. LinkTypes /\ Started /\ out # <<>>
  BY DEF LinkInv, Lose
<1>2. /\ out' = Tail(out) /\ attached /\ clean' = 0 /\ delivered' = <<>>
      /\ lost < MAX_LOST /\ lost' = lost + 1
      /\ UNCHANGED <<stage, pages, frame, before, attached, escaped, overflow,
                     last_type, buffer_out>>
  BY DEF Lose
<1>3. lost \in Nat /\ lost' \in 0..MAX_LOST /\ lost' # 0
  BY <1>1, <1>2, LinkConstants DEF LinkTypes
<1>4. LinkTypes' /\ Started'
  <2>1. Len(delivered') <= 1
    BY <1>2
  <2>2. IsFrame(frame)' /\ IsFrame(before)'
    BY <1>1, <1>2 DEF IsFrame, LinkTypes
  <2>3. (attached \in BOOLEAN /\ escaped \in BOOLEAN /\ overflow \in BOOLEAN)'
    BY <1>1, <1>2 DEF LinkTypes
  <2>4. LinkTypes'
    BY <1>1, <1>2, <1>3, <2>1, <2>2, <2>3 DEF LinkTypes
  <2>5. QED
    BY <1>2, <2>4 DEF Started
<1>5. ~(clean' >= 1) /\ ~(clean' >= 2) /\ ~(clean' >= 3)
  BY <1>2
<1>6. /\ BUFFER_SIZE \in Nat /\ Len(Text) \in Nat /\ Len(Text) <= BUFFER_SIZE
      /\ frame.data \in Seq(Byte) /\ Len(frame.data) \in Nat
      /\ Len(frame.data) <= BUFFER_SIZE
  BY <1>1, LinkConstants DEF LinkTypes, IsFrame
<1>7. CASE AtHeader
  <2>1. out' = <<frame.type>> \o Escaped(frame.data)
    BY <1>1, <1>2, <1>7, LineMoves
  <2>2. AtType'
    BY <1>2, <1>3, <1>5, <1>7, <2>1 DEF AtHeader, AtType
  <2>3. QED
    BY <1>4, <2>2 DEF LinkInv
<1>8. CASE AtType
  <2>1. out' = Escaped(Rest(frame.data, 0)) /\ 0 \in 0..Len(frame.data) /\ 0 \in 0..BUFFER_SIZE
    BY <1>1, <1>2, <1>6, <1>8, LineMoves
  <2>2. After(0)'
    BY <1>2, <1>3, <1>5, <2>1 DEF After
  <2>3. QED
    BY <1>4, <2>1, <2>2 DEF LinkInv
<1>9. ASSUME NEW k \in 0..BUFFER_SIZE, After(k)
      PROVE  LinkInv'
  <2>1. k + 1 \in 1..Len(frame.data)
    BY <1>1, <1>9, LineMoves
  <2>2. /\ k \in 0 .. Len(frame.data) - 1 /\ k + 1 \in 0..Len(frame.data)
        /\ k + 1 \in 0..BUFFER_SIZE
    BY <1>6, <2>1
  <2>3. CASE frame.data[k + 1] = FF
    <3>1. out' = <<0>> \o Escaped(Rest(frame.data, k + 1))
      BY <1>1, <1>2, <1>9, <2>3, LineMoves
    <3>2. Within(k)'
      BY <1>2, <1>3, <1>5, <2>2, <2>3, <3>1, Zenon DEF Within
    <3>3. QED
      BY <1>4, <3>2 DEF LinkInv
  <2>4. CASE frame.data[k + 1] # FF
    <3>1. out' = Escaped(Rest(frame.data, k + 1))
      BY <1>1, <1>2, <1>9, <2>4, LineMoves
    <3>2. After(k + 1)'
      BY <1>2, <1>3, <1>5, <2>2, <3>1, Zenon DEF After
    <3>3. QED
      BY <1>4, <2>2, <3>2 DEF LinkInv
  <2>5. QED
    BY <2>3, <2>4
<1>10. ASSUME NEW k \in 0..BUFFER_SIZE, Within(k)
       PROVE  LinkInv'
  <2>1. out' = Escaped(Rest(frame.data, k + 1))
    BY <1>1, <1>2, <1>10, LineMoves
  <2>2. k + 1 \in 0..Len(frame.data) /\ k + 1 \in 0..BUFFER_SIZE
    BY <1>6, <1>10 DEF Within
  <2>3. After(k + 1)'
    BY <1>2, <1>3, <1>5, <2>1, <2>2, Zenon DEF After
  <2>4. QED
    BY <1>4, <2>2, <2>3 DEF LinkInv
<1>11. ASSUME NEW k \in 0..BUFFER_SIZE, InText(k)
       PROVE  LinkInv'
  <2>1. k + 1 \in 1..Len(Text) /\ out' = Rest(Text, k + 1) /\ stage = "announce"
    BY <1>1, <1>2, <1>11, LineMoves DEF InText
  <2>2. k + 1 \in 0..Len(Text) /\ k + 1 \in 0..BUFFER_SIZE
    BY <1>6, <2>1
  <2>3. InText(k + 1)'
    BY <1>2, <1>3, <1>5, <2>1, <2>2, Zenon DEF InText
  <2>4. QED
    BY <1>4, <2>2, <2>3 DEF LinkInv
<1>12. QED
  BY <1>7, <1>8, <1>9, <1>10, <1>11 DEF LinkInv

(* The text follows a frame without data. *)
LEMMA PrintTextKeeps ==
  ASSUME LinkInv, PrintText
  PROVE  LinkInv'
<1>1. LinkTypes /\ Started
  BY DEF LinkInv
<1>2. /\ stage = "text" /\ stage' = "announce" /\ out = <<>> /\ out' = Text
      /\ delivered' = <<>>
      /\ UNCHANGED <<pages, frame, before, clean, attached, lost, escaped,
                     overflow, last_type, buffer_out>>
  BY DEF PrintText
<1> DEFINE none == <<>>
<1>3. frame.type \in {0, 3} /\ frame.data = none /\ clean \in 0..4
  BY <1>1, <1>2 DEF LinkTypes, IsFrame
<1>4. none \in Seq(Byte) /\ Len(none) = 0 /\ First(none, 0) = none
        /\ First(Text, 0) = <<>> /\ Rest(Text, 0) = Text
        /\ 0 \in 0..Len(Text) /\ 0 \in 0..BUFFER_SIZE
  <2>1. none \in Seq(Byte) /\ Len(none) = 0
    OBVIOUS
  <2>2. First(none, 0) = none
    BY <2>1, FirstAndRest
  <2>3. Text \in Seq(Byte) /\ BUFFER_SIZE \in Nat
    BY LinkConstants
  <2>4. First(Text, 0) = <<>> /\ Rest(Text, 0) = Text /\ Len(Text) \in Nat
    BY <2>3, FirstAndRest
  <2>5. QED
    BY <2>1, <2>2, <2>3, <2>4
<1>5. After(0)
  BY <1>2, <1>3, <1>4, LineIdle
<1>6. /\ lost = 0 => ~escaped
      /\ clean >= 1 => ~escaped
      /\ clean >= 2 => ~overflow /\ buffer_out = First(Text, 0)
  <2>1. First(frame.data, 0) = <<>>
    BY <1>3, <1>4
  <2>2. clean >= 2 => Exact(<<>>)
    BY <1>5, <2>1, Zenon DEF After
  <2>3. clean >= 2 => buffer_out = <<>>
    BY <2>2, Zenon DEF Exact, Has
  <2>4. clean >= 2 => ~overflow
    BY <1>3, <2>2 DEF Exact
  <2>5. QED
    BY <1>4, <1>5, <2>3, <2>4 DEF After
<1>7. InText(0)'
  BY <1>2, <1>4, <1>6 DEF InText
<1>8. LinkTypes' /\ Started'
  <2>1. Len(delivered') <= 1
    BY <1>2
  <2>2. IsFrame(frame)' /\ IsFrame(before)'
    BY <1>1, <1>2 DEF IsFrame, LinkTypes
  <2>3. (attached \in BOOLEAN /\ escaped \in BOOLEAN /\ overflow \in BOOLEAN)'
    BY <1>1, <1>2 DEF LinkTypes
  <2>4. LinkTypes'
    BY <1>1, <1>2, <1>3, <2>1, <2>2, <2>3 DEF LinkTypes
  <2>5. QED
    BY <1>1, <1>2, <2>4 DEF Started
<1>9. QED
  BY <1>4, <1>7, <1>8 DEF LinkInv

(* Neither being started nor a step elsewhere changes what counts. *)
LEMMA AttachKeeps ==
  ASSUME LinkInv, Attach \/ UNCHANGED vars
  PROVE  LinkInv'
<1>1. UNCHANGED <<stage, pages, out, frame, before, clean, lost, escaped,
                  overflow, last_type, buffer_out, delivered>>
  BY DEF Attach, vars, tag, host
<1>2. LinkTypes /\ Started
  BY DEF LinkInv
<1>3. attached' \in BOOLEAN /\ (~attached' => ~attached)
  BY <1>2 DEF Attach, vars, tag, host, LinkTypes
<1>4. LinkTypes'
  <2>1. IsFrame(frame)' /\ IsFrame(before)'
    BY <1>1, <1>2 DEF IsFrame, LinkTypes
  <2>2. (escaped \in BOOLEAN /\ overflow \in BOOLEAN)'
    BY <1>1, <1>2 DEF LinkTypes
  <2>3. QED
    BY <1>1, <1>2, <1>3, <2>1, <2>2 DEF LinkTypes
<1>5. Started'
  BY <1>1, <1>2, <1>3 DEF Started
<1>6. AtHeader => AtHeader'
  BY <1>1, Zenon DEF AtHeader, Got, Has, Kept
<1>7. AtType => AtType'
  BY <1>1, Zenon DEF AtType, Got, Has, Kept
<1>8. ASSUME NEW k
      PROVE  /\ After(k) => After(k)'
             /\ Within(k) => Within(k)'
             /\ InText(k) => InText(k)'
  <2>1. After(k) => After(k)'
    BY <1>1, Zenon DEF After, Got, Has, Exact
  <2>2. Within(k) => Within(k)'
    BY <1>1, Zenon DEF Within, Got, Has, Exact
  <2>3. InText(k) => InText(k)'
    BY <1>1, Zenon DEF InText
  <2>4. QED
    BY <2>1, <2>2, <2>3
<1>9. QED
  BY <1>4, <1>5, <1>6, <1>7, <1>8 DEF LinkInv

(* The tag writes a frame. *)
LEMMA FramesKeep ==
  ASSUME LinkInv,
         Announce \/ AnnounceEnd \/ DumpEnd \/ \E data \in Pages : DumpPage(data)
  PROVE  LinkInv'
<1>1. LinkTypes /\ Started /\ MAX_PAGES \in Nat /\ pages \in 0..MAX_PAGES
  BY LinkConstants DEF LinkInv, LinkTypes
<1>2. SUFFICES ASSUME NEW f, IsFrame(f), f.type # 0, DumpEscaped(f),
                      f.type = 1 <=> stage = "announce",
                      stage' \in {"announce", "end", "pages", "text"},
                      stage' \in {"announce", "text"} => f.type = 3,
                      pages' \in 0..MAX_PAGES
               PROVE  LinkInv'
  <2>1. CASE Announce
    <3>1. Frame(1, TagId).type = 1
      BY DEF Frame
    <3>2. stage = "announce" /\ stage' = "end" /\ DumpEscaped(Frame(1, TagId))
            /\ pages' = pages
      BY <2>1 DEF Announce
    <3>3. QED
      BY <1>1, <1>2, <3>1, <3>2, FramesSent
  <2>2. CASE AnnounceEnd \/ DumpEnd
    <3>1. Frame(3, <<>>).type = 3
      BY DEF Frame
    <3>2. /\ stage \in {"end", "pages"} /\ stage' \in {"announce", "text", "pages"}
          /\ DumpEscaped(Frame(3, <<>>)) /\ (pages' = 0 \/ pages' = pages)
      BY <2>2 DEF AnnounceEnd, DumpEnd
    <3>3. pages' \in 0..MAX_PAGES
      BY <1>1, <3>2
    <3>4. QED
      BY <1>2, <3>1, <3>2, <3>3, FramesSent
  <2>3. CASE \E data \in Pages : DumpPage(data)
    <3>1. PICK data \in Pages : DumpPage(data)
      BY <2>3
    <3>2. Frame(2, data).type = 2
      BY DEF Frame
    <3>3. stage = "pages" /\ stage' = "pages" /\ DumpEscaped(Frame(2, data))
            /\ pages < MAX_PAGES /\ pages' = pages + 1
      BY <3>1 DEF DumpPage
    <3>4. pages' \in 0..MAX_PAGES
      BY <1>1, <3>3
    <3>5. QED
      BY <1>2, <3>2, <3>3, <3>4, FramesSent
  <2>4. QED
    BY <2>1, <2>2, <2>3
<1>3. LinkTypes' /\ Started'
  BY <1>1, <1>2, FrameTypes
<1>4. AtHeader'
  BY <1>2, FrameFollows
<1>5. QED
  BY <1>3, <1>4 DEF LinkInv

(* Wherever the line is, the host is there too, or knows that it is not. *)
LEMMA LinkInvariant == Spec => []LinkInv
<1>1. Init => LinkInv
  BY LinkStarts
<1>2. LinkInv /\ [Next]_vars => LinkInv'
  <2> SUFFICES ASSUME LinkInv, [Next]_vars
               PROVE  LinkInv'
    OBVIOUS
  <2>1. CASE Announce \/ AnnounceEnd \/ DumpEnd \/ \E data \in Pages : DumpPage(data)
    BY <2>1, FramesKeep
  <2>2. CASE PrintText
    BY <2>2, PrintTextKeeps
  <2>3. CASE Put
    BY <2>3, PutKeeps
  <2>4. CASE Lose
    BY <2>4, LoseKeeps
  <2>5. CASE Attach \/ UNCHANGED vars
    BY <2>5, AttachKeeps
  <2>6. QED
    BY <2>1, <2>2, <2>3, <2>4, <2>5 DEF Next
<1>3. QED
  BY <1>1, <1>2, PTL DEF Spec

-----------------------------------------------------------------------------
(* SerialLink: the theorems.                                                *)

(* Every variable stays in its range: buffer_out never outgrows its size,   *)
(* and a type that is stored is one that the tag sends or none.             *)
THEOREM LinkTypeOK == Spec => []TypeOK
<1>1. LinkInv => TypeOK
  <2> SUFFICES ASSUME LinkInv
               PROVE  TypeOK
    OBVIOUS
  <2>1. LinkTypes
    BY DEF LinkInv
  <2>2. frame.type \in 0..3 /\ before.type \in 0..3
    BY <2>1 DEF LinkTypes, IsFrame
  <2>3. ToSet(buffer_out) \subseteq 0..FF
    <3>1. buffer_out \in Seq(0..FF)
      BY <2>1 DEF LinkTypes, Byte
    <3>2. \A i \in DOMAIN buffer_out : buffer_out[i] \in 0..FF
      BY <3>1, ElementOfSeq, LenProperties
    <3>3. QED
      BY <3>2 DEF ToSet
  <2>4. QED
    BY <2>1, <2>2, <2>3 DEF LinkTypes, TypeOK
<1>2. QED
  BY <1>1, LinkInvariant, PTL

(* What is left of data on the line is never longer than all of it.         *)
LEMMA RestIsShorter ==
  ASSUME NEW d \in Seq(Byte), NEW k \in 0..Len(d)
  PROVE  Len(Escaped(Rest(d, k))) <= Len(Escaped(d))
<1> DEFINE E(n) == Escaped(Rest(d, n))
           T == {n \in Nat : n \in 0..Len(d) /\ ~(Len(E(n)) <= Len(Escaped(d)))}
<1>1. Len(d) \in Nat /\ Rest(d, 0) = d /\ Escaped(d) \in Seq(Byte)
  BY FirstAndRest, EscapedFromFront
<1>2. \A n \in 0..Len(d) : Len(E(n)) \in Nat
  <2> TAKE n \in 0..Len(d)
  <2>1. E(n) \in Seq(Byte)
    BY EscapedRest
  <2> HIDE DEF E
  <2>2. QED
    BY <2>1
<1>3. \A n \in 0 .. Len(d) - 1 : Len(E(n + 1)) <= Len(E(n))
  <2> TAKE n \in 0 .. Len(d) - 1
  <2>1. n \in 0..Len(d) /\ n # Len(d) /\ n + 1 \in 0..Len(d)
    BY <1>1
  <2>2. Len(E(n)) = Len(E(n + 1)) + 2 \/ Len(E(n)) = Len(E(n + 1)) + 1
    BY <2>1, EscapedRest, Zenon
  <2> HIDE DEF E
  <2>3. QED
    BY <1>2, <2>1, <2>2
<1>4. Len(E(0)) <= Len(Escaped(d)) /\ Len(Escaped(d)) \in Nat
  <2>1. E(0) = Escaped(d)
    BY <1>1
  <2> HIDE DEF E
  <2>2. Len(Escaped(d)) \in Nat
    BY <1>1
  <2>3. QED
    BY <2>1, <2>2
<1> HIDE DEF E
<1>5. T = {}
  <2>1. SUFFICES ASSUME T # {}
                 PROVE  FALSE
    OBVIOUS
  <2>2. PICK x \in T : \A y \in T : x <= y
    BY <2>1, LeastNat
  <2>3. x \in 0..Len(d) /\ ~(Len(E(x)) <= Len(Escaped(d))) /\ x # 0
    BY <1>4
  <2>4. x - 1 \in 0 .. Len(d) - 1 /\ (x - 1) + 1 = x /\ x - 1 \in Nat
          /\ x - 1 \in 0..Len(d) /\ ~(x <= x - 1)
    BY <1>1, <2>3
  <2>5. x - 1 \notin T
    BY <2>2, <2>4, Zenon
  <2>6. Len(E(x - 1)) <= Len(Escaped(d))
    BY <2>4, <2>5
  <2>7. Len(E(x)) <= Len(E(x - 1))
    BY <1>3, <2>4
  <2>8. Len(E(x)) \in Nat /\ Len(E(x - 1)) \in Nat
    BY <1>2, <2>3, <2>4
  <2>9. QED
    BY <1>4, <2>3, <2>6, <2>7, <2>8
<1>6. k \in Nat /\ k \notin T
  BY <1>1, <1>5
<1>7. QED
  BY <1>6 DEF E

(* The line looks like the type and data of the frame only where it is.     *)
LEMMA HeaderIsThere ==
  ASSUME LinkInv
  PROVE  /\ AtType => HeaderPut
         /\ HeaderPut => AtType
<1> DEFINE d == frame.data
           E == Escaped(d)
           typed == <<frame.type>> \o E
<1>1. LinkTypes
  BY DEF LinkInv
<1>2. d \in Seq(Byte) /\ frame.type \in 0..3 /\ frame.type \in Byte
        /\ (frame.type \in {1, 2} <=> d # <<>>)
  BY <1>1 DEF LinkTypes, IsFrame, Byte, FF
<1>3. E \in Seq(Byte) /\ FF \in Byte /\ FF = 255 /\ 0 \in Byte
  BY <1>2, EscapedFromFront, LinkConstants
<1>4. typed \in Seq(Byte) /\ typed # <<>> /\ Head(typed) = frame.type
        /\ Len(typed) = Len(E) + 1
  BY <1>2, <1>3, FromFront
<1>5. Tail(<<FF, frame.type>> \o E) = typed
  <2>1. <<FF, frame.type>> \o E = <<FF>> \o typed
    BY <1>2, <1>3
  <2> HIDE DEF typed
  <2>2. QED
    BY <1>3, <1>4, <2>1, FromFront
<1>6. HeaderPut <=> out = typed
  BY <1>4, <1>5 DEF HeaderPut
<1>7. AtType => HeaderPut
  BY <1>6 DEF AtType
<1>8. ASSUME out = typed
      PROVE  AtType
  <2>1. out # <<>> /\ Head(out) = frame.type /\ Len(out) = Len(E) + 1
    BY <1>4, <1>8
  <2>2. ~AtHeader
    BY <1>1, <1>2, <1>3, <2>1, LineMoves
  <2>3. ASSUME NEW k, After(k)
        PROVE  FALSE
    <3>1. k \in 0..Len(d) /\ out = Escaped(Rest(d, k))
      BY <2>3 DEF After
    <3>2. Len(out) <= Len(E)
      BY <1>2, <3>1, RestIsShorter
    <3>3. Len(E) \in Nat
      BY <1>3
    <3>4. QED
      BY <2>1, <3>2, <3>3
  <2>4. ASSUME NEW k, Within(k)
        PROVE  FALSE
    <3>1. Head(out) = 0
      BY <1>1, <2>1, <2>4, LineMoves
    <3>2. d # <<>>
      BY <1>2, <2>4 DEF Within
    <3>3. QED
      BY <1>2, <2>1, <3>1, <3>2
  <2>5. ASSUME NEW k, InText(k)
        PROVE  FALSE
    <3>1. k + 1 \in 1..Len(Text) /\ Head(out) = Text[k + 1]
      BY <1>1, <2>1, <2>5, LineMoves
    <3>2. Text[k + 1] \notin 0..3
      BY <3>1, LinkConstants
    <3>3. QED
      BY <1>2, <2>1, <3>1, <3>2
  <2>6. QED
    BY <2>2, <2>3, <2>4, <2>5 DEF LinkInv
<1>9. QED
  BY <1>6, <1>7, <1>8

(* port_rx is called for a frame, by the byte that ends it. *)
LEMMA Delivers ==
  ASSUME LinkInv, Next, delivered' # <<>>
  PROVE  /\ Put /\ attached /\ escaped /\ Head(out) \in {2, 3}
         /\ ~overflow /\ last_type # 0
         /\ delivered' = <<Frame(last_type, buffer_out)>>
<1>1. Put /\ attached
  <2>1. ~Attach
    BY DEF LinkInv, Started, Attach, host
  <2>2. QED
    BY <2>1 DEF Next, Announce, AnnounceEnd, DumpPage, DumpEnd, DumpEscaped,
                PrintText, Put, Lose
<1>2. Receive(Head(out))
  BY <1>1 DEF Put
<1>3. escaped /\ Head(out) \in {2, 3} /\ FrameEnd(Head(out))
  BY <1>2 DEF Receive, Store, TransmissionStart, InvalidSequence
<1>4. ~overflow /\ last_type # 0 /\ delivered' = <<Frame(last_type, buffer_out)>>
  BY <1>3 DEF FrameEnd
<1>5. QED
  BY <1>1, <1>3, <1>4

(* Without losses port_rx sees exactly the frame before the header that     *)
(* ended it, whenever the host was started: it never has a part of a frame, *)
(* because what it stores before the first header it sees has no type.      *)
THEOREM LinkOnlyWholeFrames == Spec => OnlyWholeFrames
<1> DEFINE P == lost' = 0 /\ delivered' # <<>> => HeaderPut /\ delivered' = <<before>>
<1>1. LinkInv /\ [Next]_vars => [P]_vars
  <2> SUFFICES ASSUME LinkInv, Next, lost' = 0, delivered' # <<>>
               PROVE  HeaderPut /\ delivered' = <<before>>
    OBVIOUS
  <2>1. /\ Put /\ attached /\ escaped /\ Head(out) \in {2, 3}
        /\ ~overflow /\ last_type # 0
        /\ delivered' = <<Frame(last_type, buffer_out)>>
    BY Delivers
  <2>2. LinkTypes /\ out # <<>> /\ lost = 0
    BY <2>1 DEF LinkInv, Put
  <2>3. ~AtHeader
    BY <2>1, <2>2 DEF AtHeader
  <2>4. \A k : ~After(k) /\ ~InText(k)
    BY <2>1, <2>2 DEF After, InText
  <2>5. ASSUME NEW k, Within(k)
        PROVE  FALSE
    BY <2>1, <2>2, <2>5, LineMoves
  <2>6. AtType
    BY <2>3, <2>4, <2>5 DEF LinkInv
  <2>7. Head(out) = frame.type
    BY <2>2, <2>6, LineMoves
  <2>8. Got(before, before.data)
    BY <2>1, <2>2, <2>6, <2>7 DEF AtType
  <2>9. last_type = before.type /\ buffer_out = before.data
    BY <2>1, <2>8 DEF Got, Has
  <2>10. before = Frame(last_type, buffer_out)
    BY <2>2, <2>9 DEF LinkTypes, IsFrame
  <2>11. QED
    BY <2>1, <2>6, <2>10, HeaderIsThere
<1>2. QED
  BY <1>1, LinkInvariant, PTL DEF Spec, OnlyWholeFrames

(* After losses the host finds the frames again by itself: from the third   *)
(* frame without losses on it passes on every tag ID and every page, but    *)
(* for a tag ID behind an overflow that no frame has ended.                 *)
THEOREM LinkResynchronises == Spec => Resynchronises
<1> DEFINE P == clean >= 3 /\ Put /\ HeaderPut /\ frame.type # 1 /\ before.type \in {1, 2}
                  => \/ delivered' = <<before>>
                     \/ overflow /\ before.type = 1 /\ clean = 3
<1>1. LinkInv /\ [Next]_vars => [P]_vars
  <2> SUFFICES ASSUME LinkInv, clean >= 3, Put, HeaderPut, frame.type # 1,
                      before.type \in {1, 2}
               PROVE  \/ delivered' = <<before>>
                      \/ overflow /\ before.type = 1 /\ clean = 3
    OBVIOUS
  <2>1. AtType /\ LinkTypes /\ Started /\ out # <<>> /\ clean \in 0..4
    BY HeaderIsThere DEF LinkInv, LinkTypes, Put
  <2>2. Head(out) = frame.type
    BY <2>1, LineMoves
  <2>3. frame.type \in {2, 3}
    BY <2>1 DEF AtType, LinkTypes, IsFrame
  <2>4. escaped /\ Kept
    BY <2>1 DEF AtType
  <2>5. attached
    BY <2>1, <2>4 DEF Started
  <2>6. Receive(frame.type) /\ frame.type \in Byte
    BY <2>2, <2>3, <2>5 DEF Put, Byte, FF
  <2>7. FrameEnd(frame.type)
    BY <2>1, <2>3, <2>4, <2>6, ReceiveCases
  <2>8. last_type = before.type /\ buffer_out = before.data
          /\ (overflow => before.type = 1 /\ clean = 3)
    BY <2>4 DEF Kept, Has
  <2>9. before.data # <<>> /\ before = Frame(last_type, buffer_out)
    BY <2>1, <2>8 DEF LinkTypes, IsFrame
  <2>10. ~overflow => delivered' = <<Frame(last_type, buffer_out)>>
    BY <2>7, <2>8, <2>9 DEF FrameEnd
  <2>11. QED
    BY <2>1, <2>8, <2>9, <2>10 DEF LinkTypes
<1>2. QED
  BY <1>1, LinkInvariant, PTL DEF Spec, Resynchronises

-----------------------------------------------------------------------------
(* PacketLink: the invariant.                                               *)

N == DUPLICATES_BACKLOG_SIZE

(* The lines that the program reads. *)
Used == IF program = "sniffer" THEN {1} ELSE Lines

(* What it has of a packet, whichever program it is. *)
Esc(l) == IF program = "sniffer" THEN prev ELSE g_reader[l].escape
Buf(l) == IF program = "sniffer" THEN rx ELSE g_reader[l].buf
Count(l) == IF program = "sniffer" THEN len ELSE Len(g_reader[l].buf)

PacketTypes ==
  /\ program \in {"sniffer", "forwarder"} /\ listening \in BOOLEAN
  /\ todo \in [Lines -> Seq(Byte)] /\ packet \in [Lines -> Packets \cup {<<>>}]
  /\ intact \in [Lines -> 0..2] /\ dropped \in Nat
  /\ prev \in BOOLEAN /\ len \in 0 .. Size + 1 /\ rx \in Seq(Byte)
  /\ Len(rx) = IF len <= Size THEN len ELSE Size
  /\ g_reader \in [Lines -> [escape : BOOLEAN, buf : Seq(Byte)]]

(* The program knows nothing before it is started, and nothing arrives on   *)
(* a line that it does not read.                                            *)
Idle ==
  /\ \A l \in Lines : packet[l] = <<>> => intact[l] = 0
  /\ \A l \in Lines \ Used : packet[l] = <<>>
  /\ ~listening => \A l \in Used : ~Esc(l) /\ Count(l) = 0 /\ intact[l] = 0

(* The first k bytes of a packet, but for the first one if the program was  *)
(* started in its escape sequence.                                          *)
Match(l, k) ==
  \A j \in 1..k : j > 1 \/ intact[l] > 0 => Buf(l)[j] = packet[l][j]

(* If it has k bytes they are those. *)
MayMatch(l, k) == Count(l) = k => Match(l, k)

(* It has nothing but them. *)
Precise(l, k) == Count(l) = k /\ Buf(l) = First(packet[l], k)

(* Between two packets, ... *)
Between(l) ==
  /\ todo[l] = <<>>
  /\ dropped = 0 => ~Esc(l)
  /\ intact[l] >= 1 => ~Esc(l) /\ Count(l) = 0

(* ... in the text before the first one, ... *)
BeforeAll(l, k) ==
  /\ k \in 0..Len(Text) /\ todo[l] = Rest(Text, k) /\ packet[l] = <<>>
  /\ dropped = 0 => ~Esc(l)

(* ... after k bytes of a packet, ... *)
Inside(l, k) ==
  /\ packet[l] # <<>> /\ k \in 0..Size
  /\ todo[l] = Escaped(Rest(packet[l], k)) \o <<FF, 1>>
  /\ dropped = 0 => ~Esc(l) /\ MayMatch(l, k)
  /\ intact[l] >= 1 /\ k >= 1 => ~Esc(l)
  /\ intact[l] = 2 => ~Esc(l) /\ Precise(l, k)

(* ... before the 0x00 after a 0xFF in it, ... *)
Halfway(l, k) ==
  /\ packet[l] # <<>> /\ k \in 0 .. Size - 1 /\ packet[l][k + 1] = FF
  /\ todo[l] = <<0>> \o (Escaped(Rest(packet[l], k + 1)) \o <<FF, 1>>)
  /\ dropped = 0 => IF Esc(l) THEN MayMatch(l, k) ELSE Count(l) = 0 /\ intact[l] = 0
  /\ intact[l] >= 1 /\ k >= 1 => Esc(l)
  /\ intact[l] = 2 => Esc(l) /\ Precise(l, k)

(* ... or before its last byte. *)
AtEnd(l) ==
  /\ packet[l] # <<>> /\ todo[l] = <<1>>
  /\ dropped = 0 => IF Esc(l) THEN MayMatch(l, Size) ELSE Count(l) = 0 /\ intact[l] = 0
  /\ intact[l] >= 1 => Esc(l)
  /\ intact[l] = 2 => Precise(l, Size)

Located(l) ==
  \/ Between(l) \/ AtEnd(l)
  \/ \E k \in Nat : Inside(l, k) \/ Halfway(l, k)
  \/ \E k \in Nat : BeforeAll(l, k)

(* The slot of the checksum that was stored as the b-th last. *)
SlotBack(pos, b) == IF b <= pos THEN pos - b ELSE pos + N - b

(* The backlog has the checksums of the last packets that were sent. *)
BacklogOK ==
  /\ recent \in Seq(Seq(Byte)) /\ Len(recent) <= N
  /\ g_duplicate_pos \in 0 .. N - 1
  /\ g_duplicate_backlog = [i \in 0 .. N - 1 |-> g_duplicate_backlog[i]]
  /\ program = "forwarder" =>
       \A b \in 1..N :
         g_duplicate_backlog[SlotBack(g_duplicate_pos, b)] =
           IF b <= Len(recent) THEN Crc32[recent[Len(recent) + 1 - b]] ELSE 0

PacketInv ==
  /\ PacketTypes /\ Idle /\ BacklogOK
  /\ \A l \in Used : Located(l)

-----------------------------------------------------------------------------
(* PacketLink: the backlog of the forwarder.                                *)

(* What the assumptions say of the constants. *)
LEMMA PacketConstants ==
  /\ N \in Nat \ {0} /\ Size \in Nat /\ Size >= 2
  /\ MAX_PKT_SIZE \in Nat /\ MAX_PKT_SIZE > Size
  /\ MAX_DROPPED \in Nat
  /\ \A p \in Packets : /\ p \in Seq(Byte) /\ Len(p) = Size /\ p # <<>>
                        /\ Crc32[Bytes(p)] \in Nat
<1>1. Size \in Nat /\ Size >= 2
  BY PacketLinkAssumption DEF Size
<1>2. ASSUME NEW p \in Packets
      PROVE  p \in Seq(Byte) /\ Len(p) = Size /\ p # <<>>
  <2>1. p \in [1..Size -> Byte]
    BY PacketLinkAssumption DEF Byte
  <2>2. p \in Seq(Byte) /\ Len(p) = Size
    BY <1>1, <2>1, FunctionIsSeq
  <2>3. QED
    BY <1>1, <2>2
<1>3. QED
  BY <1>1, <1>2, PacketLinkAssumption DEF N

(* The larger of two. *)
LEMMA MaxOfTwo ==
  ASSUME NEW a \in Int, NEW b \in Int
  PROVE  Max({a, b}) = IF a <= b THEN b ELSE a
<1> DEFINE m == IF a <= b THEN b ELSE a
<1>1. m \in {a, b} /\ \A y \in {a, b} : m >= y
  OBVIOUS
<1>2. \A x \in {a, b} : (\A y \in {a, b} : x >= y) => x = m
  OBVIOUS
<1> HIDE DEF m
<1>3. (CHOOSE x \in {a, b} : \A y \in {a, b} : x >= y) = m
  BY <1>1, <1>2, Zenon
<1>4. QED
  BY <1>3 DEF Max, m

(* Nothing is sent. *)
LEMMA PassesNone ==
  ASSUME BacklogOK, Pass(<<>>)
  PROVE  recent' = recent /\ passed' = <<>>
<1> DEFINE none == [n \in DOMAIN <<>> |-> Bytes(<<>>[n])]
           S == Seq(Byte)
           all == recent \o none
           n == Len(all) - N
<1>1. recent \in Seq(S) /\ Len(recent) <= N /\ N \in Nat
  BY PacketConstants DEF BacklogOK
<1>2. none = <<>>
  <2>1. DOMAIN <<>> = {}
    OBVIOUS
  <2>2. QED
    BY <2>1
<1>3. all = recent
  BY <1>1, <1>2, ConcatEmptySeq
<1>4. recent' = SubSeq(all, Max({1, n + 1}), Len(all)) /\ passed' = <<>>
  BY Zenon DEF Pass, N
<1> HIDE DEF all, S
<1>5. Len(recent) \in Nat /\ n + 1 \in Int /\ n + 1 <= 1
  BY <1>1, <1>3
<1>6. Max({1, n + 1}) = 1
  BY <1>5, MaxOfTwo
<1>7. SubSeq(recent, 1, Len(recent)) = recent
  BY <1>1, SubSeqFull
<1>8. QED
  BY <1>3, <1>4, <1>6, <1>7

(* What is sent becomes the last of what was. *)
LEMMA PassesOne ==
  ASSUME BacklogOK, NEW p \in Seq(Byte), p # <<>>, Pass(<<p>>)
  PROVE  /\ passed' = <<p>>
         /\ recent' \in Seq(Seq(Byte))
         /\ Len(recent') = IF Len(recent) < N THEN Len(recent) + 1 ELSE N
         /\ recent'[Len(recent')] = Bytes(p)
         /\ \A b \in 2 .. Len(recent') :
              recent'[Len(recent') + 1 - b] = recent[Len(recent) + 1 - (b - 1)]
<1> DEFINE S == Seq(Byte)
           x == Bytes(p)
           one == [n \in DOMAIN <<p>> |-> Bytes(<<p>>[n])]
           all == recent \o one
           n == Len(all) - N
<1>1. recent \in Seq(S) /\ Len(recent) <= N /\ Len(recent) \in Nat /\ N \in Nat \ {0}
  BY PacketConstants DEF BacklogOK
<1>2. x \in S
  BY HeadTailProperties DEF Bytes
<1>3. one = <<x>>
  BY DEF Bytes
<1>4. recent' = SubSeq(all, Max({1, n + 1}), Len(all)) /\ passed' = <<p>>
  BY Zenon DEF Pass, N
<1> HIDE DEF S, x, one
<1>5. all \in Seq(S) /\ Len(all) = Len(recent) + 1 /\ all[Len(recent) + 1] = x
        /\ \A i \in 1..Len(recent) : all[i] = recent[i]
  BY <1>1, <1>2, <1>3
<1> HIDE DEF all
<1> DEFINE m == IF Len(recent) < N THEN 1 ELSE 2
<1>6. Max({1, n + 1}) = m
  <2>1. n + 1 \in Int /\ n + 1 = Len(recent) + 2 - N
    BY <1>1, <1>5
  <2>2. Max({1, n + 1}) = IF 1 <= n + 1 THEN n + 1 ELSE 1
    BY <2>1, MaxOfTwo
  <2>3. Len(recent) < N \/ Len(recent) = N
    BY <1>1
  <2>4. QED
    BY <1>1, <2>1, <2>2, <2>3
<1>7. recent' = SubSeq(all, m, Len(recent) + 1)
  BY <1>4, <1>5, <1>6
<1>8. m \in 1..2 /\ m <= Len(recent) + 1 /\ Len(recent) + 1 - m \in Nat
  BY <1>1
<1>9. /\ recent' \in Seq(S)
      /\ Len(recent') = Len(recent) + 1 - m + 1
      /\ \A i \in 1 .. Len(recent) + 1 - m + 1 : recent'[i] = all[m + i - 1]
  <2>1. \A i \in m .. Len(recent) + 1 : all[i] \in S
    <3>1. \A i \in 1 .. Len(recent) + 1 : all[i] \in S
      BY <1>5
    <3>2. QED
      BY <1>1, <1>8, <3>1
  <2> HIDE DEF m
  <2>2. QED
    BY <1>1, <1>7, <1>8, <2>1, SubSeqProperties
<1>10. Len(recent') = IF Len(recent) < N THEN Len(recent) + 1 ELSE N
  BY <1>1, <1>9
<1>11. recent'[Len(recent')] = x
  <2> HIDE DEF m
  <2> DEFINE i == Len(recent) + 1 - m + 1
  <2>1. i \in 1 .. Len(recent) + 1 - m + 1 /\ m + i - 1 = Len(recent) + 1
    BY <1>1, <1>8
  <2>2. recent'[i] = all[m + i - 1]
    BY <1>9, <2>1
  <2> HIDE DEF i
  <2>3. QED
    BY <1>5, <1>9, <2>1, <2>2 DEF i
<1>12. ASSUME NEW b \in 2 .. Len(recent')
       PROVE  recent'[Len(recent') + 1 - b] = recent[Len(recent) + 1 - (b - 1)]
  <2> HIDE DEF m
  <2> DEFINE i == Len(recent) + 1 - m + 1 + 1 - b
             j == Len(recent) + 1 - (b - 1)
  <2>1. i \in 1 .. Len(recent) + 1 - m + 1 /\ m + i - 1 = j /\ j \in 1..Len(recent)
    BY <1>1, <1>8, <1>9
  <2>2. recent'[i] = all[m + i - 1] /\ all[j] = recent[j]
    BY <1>5, <1>9, <2>1
  <2>3. Len(recent') + 1 - b = i
    BY <1>9
  <2> HIDE DEF i, j
  <2>4. recent'[i] = recent[j]
    BY <2>1, <2>2
  <2>5. QED
    BY <2>3, <2>4 DEF j
<1>13. QED
  BY <1>4, <1>9, <1>10, <1>11, <1>12 DEF S, x

(* The slots of the backlog are those of the last N checksums.              *)
LEMMA Slots ==
  ASSUME NEW pos \in 0 .. N - 1
  PROVE  /\ \A b \in 1..N : SlotBack(pos, b) \in 0 .. N - 1
         /\ \A i \in 0 .. N - 1 : \E b \in 1..N : SlotBack(pos, b) = i
         /\ (pos + 1) % N \in 0 .. N - 1
         /\ SlotBack((pos + 1) % N, 1) = pos
         /\ \A b \in 2..N : /\ SlotBack((pos + 1) % N, b) = SlotBack(pos, b - 1)
                            /\ SlotBack(pos, b - 1) # pos
<1>1. N \in Nat \ {0}
  BY PacketConstants
<1> DEFINE next == IF pos + 1 = N THEN 0 ELSE pos + 1
<1>2. (pos + 1) % N = next
  <2>1. CASE pos + 1 = N
    BY <1>1, <2>1
  <2>2. CASE pos + 1 # N
    <3>1. pos + 1 \in 0 .. N - 1
      BY <1>1, <2>2
    <3>2. QED
      BY <1>1, <2>2, <3>1
  <2>3. QED
    BY <2>1, <2>2
<1>3. \A i \in 0 .. N - 1 : \E b \in 1..N : SlotBack(pos, b) = i
  <2> TAKE i \in 0 .. N - 1
  <2> DEFINE b == IF i < pos THEN pos - i ELSE pos + N - i
  <2>1. b \in 1..N /\ SlotBack(pos, b) = i
    BY <1>1 DEF SlotBack
  <2>2. QED
    BY <2>1
<1>4. \A b \in 1..N : SlotBack(pos, b) \in 0 .. N - 1
  BY <1>1 DEF SlotBack
<1>5. \A b \in 2..N : SlotBack(next, b) = SlotBack(pos, b - 1) /\ SlotBack(pos, b - 1) # pos
  BY <1>1 DEF SlotBack
<1>6. SlotBack(next, 1) = pos /\ next \in 0 .. N - 1
  BY <1>1 DEF SlotBack
<1> HIDE DEF next
<1>7. QED
  BY <1>2, <1>3, <1>4, <1>5, <1>6

(* Nothing is sent, and nothing remembered. *)
LEMMA BacklogStays ==
  ASSUME BacklogOK, Pass(<<>>), UNCHANGED <<program, g_duplicate_backlog, g_duplicate_pos>>
  PROVE  BacklogOK' /\ passed' = <<>>
<1>1. recent' = recent /\ passed' = <<>>
  BY PassesNone
<1>2. QED
  BY <1>1 DEF BacklogOK, SlotBack

(* What the sniffer passes on is not remembered. *)
LEMMA SnifferPasses ==
  ASSUME BacklogOK, program = "sniffer", NEW p \in Seq(Byte), p # <<>>, Pass(<<p>>),
         UNCHANGED <<program, g_duplicate_backlog, g_duplicate_pos>>
  PROVE  BacklogOK' /\ passed' = <<p>>
<1>1. passed' = <<p>> /\ recent' \in Seq(Seq(Byte))
        /\ Len(recent') = IF Len(recent) < N THEN Len(recent) + 1 ELSE N
  BY PassesOne
<1>2. Len(recent) \in Nat /\ Len(recent) <= N /\ N \in Nat
  BY PacketConstants DEF BacklogOK
<1>3. Len(recent') <= N
  BY <1>1, <1>2
<1>4. QED
  BY <1>1, <1>3, Zenon DEF BacklogOK

(* The checksum of a packet is in the backlog if it is that of one of the   *)
(* last packets sent, and else only if it is zero; if it is not there the   *)
(* packet is sent and its checksum takes the place of the oldest.           *)
LEMMA PortReaderPktKeeps ==
  ASSUME BacklogOK, program = "forwarder", program' = program,
         NEW p \in Seq(Byte), p # <<>>, PortReaderPkt(p)
  PROVE  /\ BacklogOK'
         /\ passed' \in {<<>>, <<p>>}
         /\ passed' # <<>> => passed' = <<p>> /\ Len(p) = Size /\ ~SentBefore(p)
         /\ passed' = <<>> /\ Len(p) = Size => Crc32[Bytes(p)] = 0 \/ SentBefore(p)
<1> DEFINE B == g_duplicate_backlog
           pos == g_duplicate_pos
           crc == Crc32[Bytes(p)]
           m == Len(recent)
           duplicate == \E i \in DOMAIN B : B[i] = crc
<1>1. /\ recent \in Seq(Seq(Byte)) /\ m <= N /\ m \in Nat /\ N \in Nat \ {0}
      /\ pos \in 0 .. N - 1
      /\ B = [i \in 0 .. N - 1 |-> B[i]]
  BY PacketConstants DEF BacklogOK
<1>2. \A b \in 1..N : B[SlotBack(pos, b)] = IF b <= m THEN Crc32[recent[m + 1 - b]] ELSE 0
  BY DEF BacklogOK
<1>3. DOMAIN B = 0 .. N - 1
  BY <1>1
<1>4. SentBefore(p) => duplicate
  <2> SUFFICES ASSUME NEW n \in DOMAIN recent, Crc32[recent[n]] = crc
               PROVE  duplicate
    BY DEF SentBefore
  <2> DEFINE b == m + 1 - n
  <2>1. b \in 1..N /\ b <= m /\ m + 1 - b = n
    BY <1>1
  <2>2. B[SlotBack(pos, b)] = crc
    BY <1>2, <2>1
  <2>3. SlotBack(pos, b) \in DOMAIN B
    BY <1>1, <1>3, <2>1, Slots
  <2>4. QED
    BY <2>2, <2>3
<1>5. duplicate => crc = 0 \/ SentBefore(p)
  <2> SUFFICES ASSUME NEW i \in 0 .. N - 1, B[i] = crc, crc # 0
               PROVE  SentBefore(p)
    BY <1>3
  <2>1. PICK b \in 1..N : SlotBack(pos, b) = i
    <3>1. \A j \in 0 .. N - 1 : \E b \in 1..N : SlotBack(pos, b) = j
      BY <1>1, Slots, Zenon
    <3>2. QED
      BY <3>1
  <2>2. b <= m /\ Crc32[recent[m + 1 - b]] = crc
    BY <1>2, <2>1
  <2>3. m + 1 - b \in DOMAIN recent
    BY <1>1, <2>2
  <2>4. QED
    BY <2>2, <2>3 DEF SentBefore
<1>6. CASE Len(p) = Size /\ ~duplicate
  <2>1. /\ g_duplicate_backlog' = [B EXCEPT ![pos] = crc]
        /\ g_duplicate_pos' = (pos + 1) % N
        /\ Pass(<<p>>)
    BY <1>6, Zenon DEF PortReaderPkt, N
  <2>2. /\ passed' = <<p>>
        /\ recent' \in Seq(Seq(Byte))
        /\ Len(recent') = IF m < N THEN m + 1 ELSE N
        /\ recent'[Len(recent')] = Bytes(p)
        /\ \A b \in 2 .. Len(recent') :
             recent'[Len(recent') + 1 - b] = recent[m + 1 - (b - 1)]
    BY <2>1, PassesOne
  <2>3. /\ (pos + 1) % N \in 0 .. N - 1
        /\ SlotBack((pos + 1) % N, 1) = pos
        /\ \A b \in 2..N : /\ SlotBack((pos + 1) % N, b) = SlotBack(pos, b - 1)
                           /\ SlotBack(pos, b - 1) # pos
    BY <1>1, Slots
  <2>4. \A b \in 1..N : SlotBack(pos, b) \in 0 .. N - 1
    BY <1>1, Slots
  <2> DEFINE C == [B EXCEPT ![pos] = crc]
             next == (pos + 1) % N
             k == Len(recent')
  <2>5. /\ C = [i \in 0 .. N - 1 |-> C[i]]
        /\ C[pos] = crc
        /\ \A i \in 0 .. N - 1 : i # pos => C[i] = B[i]
    BY <1>1, <1>3
  <2> HIDE DEF C, next, B, pos, crc, m
  <2>6. ASSUME NEW b \in 1..N
        PROVE  C[SlotBack(next, b)] = IF b <= k THEN Crc32[recent'[k + 1 - b]] ELSE 0
    <3>1. CASE b = 1
      <4>1. C[SlotBack(next, b)] = crc
        BY <2>3, <2>5, <3>1 DEF next
      <4>2. b <= k /\ k + 1 - b = k
        BY <1>1, <2>2, <3>1
      <4>3. crc = Crc32[recent'[k]]
        BY <2>2 DEF crc
      <4>4. QED
        BY <4>1, <4>2, <4>3
    <3>2. CASE b # 1
      <4>1. b \in 2..N /\ b - 1 \in 1..N
        BY <1>1, <3>2
      <4>2. C[SlotBack(next, b)] = B[SlotBack(pos, b - 1)]
        BY <2>3, <2>4, <2>5, <4>1 DEF next
      <4>3. B[SlotBack(pos, b - 1)] =
              IF b - 1 <= m THEN Crc32[recent[m + 1 - (b - 1)]] ELSE 0
        BY <1>2, <4>1
      <4>4. b - 1 <= m <=> b <= k
        BY <1>1, <2>2, <4>1
      <4>5. b <= k => recent'[k + 1 - b] = recent[m + 1 - (b - 1)]
        BY <2>2, <4>1
      <4>6. QED
        BY <4>2, <4>3, <4>4, <4>5
    <3>3. QED
      BY <3>1, <3>2
  <2>7. g_duplicate_backlog' = C /\ g_duplicate_pos' = next /\ k <= N
    BY <1>1, <2>1, <2>2 DEF C, next, B, pos, crc
  <2>8. BacklogOK'
    BY <2>2, <2>3, <2>5, <2>6, <2>7 DEF BacklogOK, next
  <2>9. QED
    BY <1>4, <1>6, <2>2, <2>8 DEF B, crc
<1>7. CASE ~(Len(p) = Size /\ ~duplicate)
  <2>1. Pass(<<>>) /\ UNCHANGED <<g_duplicate_backlog, g_duplicate_pos>>
    BY <1>7, Zenon DEF PortReaderPkt
  <2>2. BacklogOK' /\ passed' = <<>>
    BY <2>1, BacklogStays
  <2>3. QED
    BY <1>5, <1>7, <2>2
<1>8. QED
  BY <1>6, <1>7

-----------------------------------------------------------------------------
(* PacketLink: what the two programs make of a byte.                        *)

(* The program has one byte more, unless it has too many already. *)
Stored(l, b) ==
  /\ Count(l) < Size => Count(l)' = Count(l) + 1 /\ Buf(l)' = Append(Buf(l), b)
  /\ Count(l) >= Size => Count(l)' > Size

(* What the two programs make of a byte on a line that they read. *)
Reads(l, b) ==
  /\ Esc(l)' \in BOOLEAN
  /\ ~Esc(l) /\ b # FF => ~Esc(l)' /\ Stored(l, b)
  /\ ~Esc(l) /\ b = FF => Esc(l)' /\ Count(l)' = Count(l) /\ Buf(l)' = Buf(l)
  /\ Esc(l) /\ b = 0 => Stored(l, FF)
  /\ Esc(l) /\ b = 1 => Count(l)' = 0
  /\ Esc(l) /\ b # FF => ~Esc(l)'

(* What they pass on. *)
PassesOn(l, b) ==
  /\ passed' # <<>> =>
       /\ Esc(l) /\ b = 1 /\ Count(l) = Size /\ passed' = <<Buf(l)>>
       /\ program = "forwarder" => ~SentBefore(Buf(l))
  /\ passed' = <<>> /\ Esc(l) /\ b = 1 /\ Count(l) = Size =>
       /\ program = "forwarder"
       /\ Crc32[Bytes(Buf(l))] = 0 \/ SentBefore(Buf(l))

(* What they keep. *)
ProgramTypes ==
  /\ prev \in BOOLEAN /\ len \in 0 .. Size + 1 /\ rx \in Seq(Byte)
  /\ Len(rx) = IF len <= Size THEN len ELSE Size
  /\ g_reader \in [Lines -> [escape : BOOLEAN, buf : Seq(Byte)]]

(* The sniffer counts what it has no room for, up to one byte. *)
LEMMA SnifferStores ==
  ASSUME PacketTypes, program = "sniffer", program' = program,
         NEW b \in Byte, SnifferStore(b)
  PROVE  /\ Stored(1, b) /\ Pass(<<>>)
         /\ len' \in 0 .. Size + 1 /\ rx' \in Seq(Byte)
         /\ Len(rx') = IF len' <= Size THEN len' ELSE Size
<1>1. Size \in Nat /\ len \in 0 .. Size + 1 /\ rx \in Seq(Byte)
        /\ Len(rx) = IF len <= Size THEN len ELSE Size
  BY PacketConstants DEF PacketTypes
<1>2. rx' = (IF len < Size THEN Append(rx, b) ELSE rx) /\ Pass(<<>>)
        /\ len' = Min({len + 1, Size + 1})
  BY DEF SnifferStore
<1>3. len' = IF len + 1 <= Size + 1 THEN len + 1 ELSE Size + 1
  BY <1>1, <1>2, MinOfTwo
<1>4. len < Size => rx' \in Seq(Byte) /\ Len(rx') = len + 1
  BY <1>1, <1>2
<1>5. ~(len < Size) => rx' = rx /\ len' = Size + 1
  BY <1>1, <1>2, <1>3
<1>6. rx' \in Seq(Byte) /\ len' \in 0 .. Size + 1
        /\ Len(rx') = IF len' <= Size THEN len' ELSE Size
  BY <1>1, <1>3, <1>4, <1>5
<1>7. Stored(1, b)
  BY <1>1, <1>2, <1>3 DEF Stored, Count, Buf
<1>8. QED
  BY <1>2, <1>6, <1>7

(* The sniffer and ... *)
LEMMA SnifferReads ==
  ASSUME PacketTypes, BacklogOK, program = "sniffer", program' = program,
         NEW b \in Byte, SnifferReceives(b), UNCHANGED forwarder
  PROVE  Reads(1, b) /\ PassesOn(1, b) /\ ProgramTypes' /\ BacklogOK'
<1>1. /\ Size \in Nat /\ Size >= 2 /\ FF \in Byte /\ FF = 255 /\ b \in Int
      /\ prev \in BOOLEAN /\ len \in 0 .. Size + 1 /\ rx \in Seq(Byte)
      /\ Len(rx) = IF len <= Size THEN len ELSE Size
      /\ g_reader \in [Lines -> [escape : BOOLEAN, buf : Seq(Byte)]]
  BY PacketConstants, LinkConstants DEF PacketTypes, Byte
<1>2. UNCHANGED <<g_reader, g_duplicate_backlog, g_duplicate_pos>>
  BY DEF forwarder
<1>3. Esc(1) = prev /\ Esc(1)' = prev' /\ Count(1) = len /\ Count(1)' = len'
        /\ Buf(1) = rx /\ Buf(1)' = rx'
  BY DEF Esc, Count, Buf
<1>4. CASE b = FF
  <2>1. prev' = TRUE /\ Pass(<<>>) /\ len' = len /\ rx' = rx
    BY <1>4 DEF SnifferReceives
  <2>2. Reads(1, b)
    <3>1. Esc(1)' = TRUE /\ Count(1)' = Count(1) /\ Buf(1)' = Buf(1)
      BY <1>3, <2>1
    <3>2. b # 0 /\ b # 1 /\ TRUE \in BOOLEAN
      BY <1>1, <1>4
    <3>3. QED
      BY <1>4, <3>1, <3>2, Zenon DEF Reads
  <2>3. BacklogOK' /\ passed' = <<>>
    BY <1>2, <2>1, BacklogStays
  <2>4. PassesOn(1, b)
    BY <1>1, <1>4, <2>3 DEF PassesOn
  <2>5. ProgramTypes'
    <3>1. prev' \in BOOLEAN
      BY <2>1
    <3>2. QED
      BY <1>1, <1>2, <2>1, <3>1 DEF ProgramTypes
  <2>6. QED
    BY <2>2, <2>3, <2>4, <2>5
<1>5. CASE b # FF /\ ~prev
  <2>1. prev' = FALSE /\ SnifferStore(b)
    BY <1>5 DEF SnifferReceives
  <2>2. /\ Stored(1, b) /\ Pass(<<>>)
        /\ len' \in 0 .. Size + 1 /\ rx' \in Seq(Byte)
        /\ Len(rx') = IF len' <= Size THEN len' ELSE Size
    BY <2>1, SnifferStores
  <2>3. Reads(1, b)
    BY <1>3, <1>5, <2>1, <2>2 DEF Reads
  <2>4. BacklogOK' /\ passed' = <<>>
    BY <1>2, <2>2, BacklogStays
  <2>5. PassesOn(1, b)
    BY <1>3, <1>5, <2>4 DEF PassesOn
  <2>6. ProgramTypes'
    <3>1. prev' \in BOOLEAN
      BY <2>1
    <3>2. QED
      BY <1>1, <1>2, <2>2, <3>1 DEF ProgramTypes
  <2>7. QED
    BY <2>3, <2>4, <2>5, <2>6
<1>6. CASE b = 0 /\ prev
  <2>1. prev' = FALSE /\ SnifferStore(FF)
    BY <1>1, <1>6 DEF SnifferReceives
  <2>2. /\ Stored(1, FF) /\ Pass(<<>>)
        /\ len' \in 0 .. Size + 1 /\ rx' \in Seq(Byte)
        /\ Len(rx') = IF len' <= Size THEN len' ELSE Size
    BY <1>1, <2>1, SnifferStores
  <2>3. Reads(1, b)
    <3>1. Esc(1) = TRUE /\ Esc(1)' = FALSE
      BY <1>1, <1>3, <1>6, <2>1
    <3>2. b # 1 /\ b # FF /\ FALSE \in BOOLEAN
      BY <1>1, <1>6
    <3>3. QED
      BY <2>2, <3>1, <3>2, Zenon DEF Reads
  <2>4. BacklogOK' /\ passed' = <<>>
    BY <1>2, <2>2, BacklogStays
  <2>5. PassesOn(1, b)
    BY <1>3, <1>6, <2>4 DEF PassesOn
  <2>6. ProgramTypes'
    <3>1. prev' \in BOOLEAN
      BY <2>1
    <3>2. QED
      BY <1>1, <1>2, <2>2, <3>1 DEF ProgramTypes
  <2>7. QED
    BY <2>3, <2>4, <2>5, <2>6
<1>7. CASE b \notin {0, FF} /\ prev
  <2> DEFINE none == <<>>
  <2>1. /\ prev' = FALSE /\ len' = 0 /\ rx' = none
        /\ Pass(IF b = 1 /\ len = Size THEN <<rx>> ELSE <<>>)
    BY <1>7 DEF SnifferReceives
  <2>2. Reads(1, b)
    BY <1>1, <1>3, <1>7, <2>1 DEF Reads
  <2>3. ASSUME b = 1 /\ len = Size
        PROVE  BacklogOK' /\ PassesOn(1, b)
    <3>1. Pass(<<rx>>) /\ rx # <<>>
      BY <1>1, <2>1, <2>3
    <3>2. BacklogOK' /\ passed' = <<rx>>
      BY <1>1, <1>2, <3>1, SnifferPasses
    <3>3. PassesOn(1, b)
      BY <1>3, <1>7, <2>3, <3>2 DEF PassesOn
    <3>4. QED
      BY <3>2, <3>3
  <2>4. ASSUME ~(b = 1 /\ len = Size)
        PROVE  BacklogOK' /\ PassesOn(1, b)
    <3>1. Pass(<<>>)
      BY <2>1, <2>4
    <3>2. BacklogOK' /\ passed' = <<>>
      BY <1>2, <3>1, BacklogStays
    <3>3. PassesOn(1, b)
      BY <1>3, <2>4, <3>2 DEF PassesOn
    <3>4. QED
      BY <3>2, <3>3
  <2>5. ProgramTypes'
    <3>1. prev' \in BOOLEAN
      BY <2>1
    <3>2. none \in Seq(Byte) /\ Len(none) = 0
      OBVIOUS
    <3> HIDE DEF none
    <3>3. QED
      BY <1>1, <1>2, <2>1, <3>1, <3>2 DEF ProgramTypes
  <2>6. QED
    BY <2>2, <2>3, <2>4, <2>5
<1>8. QED
  BY <1>1, <1>4, <1>5, <1>6, <1>7

(* ... the forwarder read alike. *)
LEMMA ForwarderReads ==
  ASSUME PacketTypes, BacklogOK, program = "forwarder", program' = program,
         NEW l \in Lines, NEW b \in Byte, PortReader(l, b), UNCHANGED sniffer
  PROVE  /\ Reads(l, b) /\ PassesOn(l, b) /\ ProgramTypes' /\ BacklogOK'
         /\ \A m \in Lines \ {l} : g_reader'[m] = g_reader[m]
<1> DEFINE esc == g_reader[l].escape
           buf == g_reader[l].buf
           Becomes(e, c) == g_reader' = [g_reader EXCEPT ![l] = [escape |-> e, buf |-> c]]
           StoredIn(x) == IF Len(buf) < MAX_PKT_SIZE THEN Append(buf, x) ELSE buf
           none == <<>>
<1>1. /\ Size \in Nat /\ Size >= 2 /\ FF \in Byte /\ FF = 255 /\ b \in Int /\ 0 \in Byte
      /\ MAX_PKT_SIZE \in Nat /\ MAX_PKT_SIZE > Size
      /\ g_reader \in [Lines -> [escape : BOOLEAN, buf : Seq(Byte)]]
      /\ esc \in BOOLEAN /\ buf \in Seq(Byte)
      /\ ProgramTypes
  <2>1. /\ Size \in Nat /\ Size >= 2 /\ FF \in Byte /\ FF = 255 /\ 0 \in Byte
        /\ MAX_PKT_SIZE \in Nat /\ MAX_PKT_SIZE > Size
    BY PacketConstants, LinkConstants
  <2>2. g_reader \in [Lines -> [escape : BOOLEAN, buf : Seq(Byte)]]
    BY DEF PacketTypes
  <2>3. esc \in BOOLEAN /\ buf \in Seq(Byte)
    BY <2>2
  <2>4. b \in Int
    BY DEF Byte
  <2>5. ProgramTypes
    BY Zenon DEF PacketTypes, ProgramTypes
  <2>6. QED
    BY <2>1, <2>2, <2>3, <2>4, <2>5
<1>2. UNCHANGED <<prev, len, rx>>
  BY DEF sniffer
<1>3. Esc(l) = esc /\ Buf(l) = buf /\ Count(l) = Len(buf)
        /\ Esc(l)' = g_reader'[l].escape /\ Buf(l)' = g_reader'[l].buf
        /\ Count(l)' = Len(g_reader'[l].buf)
  BY DEF Esc, Count, Buf
<1>4. ASSUME NEW e \in BOOLEAN, NEW c \in Seq(Byte), Becomes(e, c)
      PROVE  /\ Esc(l)' = e /\ Buf(l)' = c /\ Count(l)' = Len(c)
             /\ ProgramTypes'
             /\ \A m \in Lines \ {l} : g_reader'[m] = g_reader[m]
  <2>1. g_reader'[l] = [escape |-> e, buf |-> c]
    BY <1>1, <1>4
  <2>2. g_reader' \in [Lines -> [escape : BOOLEAN, buf : Seq(Byte)]]
    BY <1>1, <1>4
  <2>3. \A m \in Lines \ {l} : g_reader'[m] = g_reader[m]
    BY <1>1, <1>4
  <2>4. Esc(l)' = e /\ Buf(l)' = c /\ Count(l)' = Len(c)
    BY <1>3, <2>1
  <2>5. ProgramTypes'
    BY <1>1, <1>2, <2>2 DEF ProgramTypes
  <2>6. QED
    BY <2>3, <2>4, <2>5
<1>5. ASSUME NEW x \in Byte
      PROVE  StoredIn(x) \in Seq(Byte)
  BY <1>1
<1>6. ASSUME NEW x \in Byte, Buf(l)' = StoredIn(x), Count(l)' = Len(StoredIn(x))
      PROVE  Stored(l, x)
  <2>1. CASE Len(buf) < MAX_PKT_SIZE
    <3>1. StoredIn(x) = Append(buf, x) /\ Len(StoredIn(x)) = Len(buf) + 1 /\ Len(buf) \in Nat
      BY <1>1, <2>1
    <3> HIDE DEF StoredIn, buf
    <3>2. QED
      BY <1>1, <1>3, <1>6, <3>1 DEF Stored
  <2>2. CASE ~(Len(buf) < MAX_PKT_SIZE)
    <3>1. StoredIn(x) = buf /\ Len(buf) \in Nat /\ Len(buf) > Size
      BY <1>1, <2>2
    <3> HIDE DEF StoredIn, buf
    <3>2. QED
      BY <1>1, <1>3, <1>6, <3>1 DEF Stored
  <2>3. QED
    BY <2>1, <2>2
<1>7. CASE esc /\ b = 1
  <2>1. PortReaderPkt(buf) /\ Becomes(FALSE, none)
    BY <1>7 DEF PortReader
  <2>2. none \in Seq(Byte) /\ Len(none) = 0 /\ FALSE \in BOOLEAN
    OBVIOUS
  <2>3. /\ Esc(l)' = FALSE /\ Count(l)' = 0 /\ ProgramTypes'
        /\ \A m \in Lines \ {l} : g_reader'[m] = g_reader[m]
    <3> HIDE DEF Becomes, none
    <3>1. QED
      BY <1>4, <2>1, <2>2
  <2>4. Reads(l, b)
    <3>1. b # 0 /\ b # FF /\ FALSE \in BOOLEAN
      BY <1>1, <1>7
    <3>2. QED
      BY <1>3, <1>7, <2>3, <3>1, Zenon DEF Reads
  <2>5. CASE buf # <<>>
    <3>1. /\ BacklogOK'
          /\ passed' \in {<<>>, <<buf>>}
          /\ passed' # <<>> => passed' = <<buf>> /\ Len(buf) = Size /\ ~SentBefore(buf)
          /\ passed' = <<>> /\ Len(buf) = Size => Crc32[Bytes(buf)] = 0 \/ SentBefore(buf)
      <4> HIDE DEF buf
      <4>1. QED
        BY <1>1, <2>1, <2>5, PortReaderPktKeeps
    <3>2. PassesOn(l, b)
      <4> HIDE DEF esc, buf
      <4>1. QED
        BY <1>3, <1>7, <3>1 DEF PassesOn
    <3>3. QED
      BY <2>3, <2>4, <3>1, <3>2
  <2>6. CASE buf = <<>>
    <3>1. Len(buf) # Size
      BY <1>1, <2>6
    <3>2. Pass(<<>>) /\ UNCHANGED <<g_duplicate_backlog, g_duplicate_pos>>
      BY <2>1, <3>1 DEF PortReaderPkt
    <3>3. BacklogOK' /\ passed' = <<>>
      BY <3>2, BacklogStays
    <3>4. PassesOn(l, b)
      BY <1>3, <3>1, <3>3 DEF PassesOn
    <3>5. QED
      BY <2>3, <2>4, <3>3, <3>4
  <2>7. QED
    BY <2>5, <2>6
<1>8. CASE ~(esc /\ b = 1)
  <2>1. /\ Pass(<<>>) /\ UNCHANGED <<g_duplicate_backlog, g_duplicate_pos>>
        /\ IF esc THEN Becomes(FALSE, IF b = 0 THEN StoredIn(FF) ELSE buf)
                  ELSE Becomes(b = FF, IF b = FF THEN buf ELSE StoredIn(b))
    BY <1>8 DEF PortReader
  <2>2. BacklogOK' /\ passed' = <<>>
    BY <2>1, BacklogStays
  <2>3. PassesOn(l, b)
    BY <1>3, <1>8, <2>2 DEF PassesOn
  <2>4. SUFFICES /\ Reads(l, b) /\ ProgramTypes'
                 /\ \A m \in Lines \ {l} : g_reader'[m] = g_reader[m]
    BY <2>2, <2>3
  <2>5. TRUE \in BOOLEAN /\ FALSE \in BOOLEAN
    OBVIOUS
  <2>6. CASE esc /\ b = 0
    <3>1. Becomes(FALSE, StoredIn(FF)) /\ StoredIn(FF) \in Seq(Byte)
      BY <1>1, <1>5, <2>1, <2>6
    <3> HIDE DEF Becomes, StoredIn
    <3>2. /\ Esc(l)' = FALSE /\ Buf(l)' = StoredIn(FF) /\ Count(l)' = Len(StoredIn(FF))
          /\ ProgramTypes'
          /\ \A m \in Lines \ {l} : g_reader'[m] = g_reader[m]
      BY <1>4, <2>5, <3>1
    <3>3. Stored(l, FF)
      BY <1>1, <1>6, <3>2
    <3>4. Reads(l, b)
      <4>1. b # 1 /\ b # FF
        BY <1>1, <2>6
      <4>2. QED
        BY <1>3, <2>5, <2>6, <3>2, <3>3, <4>1, Zenon DEF Reads
    <3>5. QED
      BY <3>2, <3>4
  <2>7. CASE esc /\ b # 0
    <3>1. Becomes(FALSE, buf)
      BY <2>1, <2>7
    <3> HIDE DEF Becomes
    <3>2. /\ Esc(l)' = FALSE /\ Buf(l)' = buf /\ Count(l)' = Len(buf)
          /\ ProgramTypes'
          /\ \A m \in Lines \ {l} : g_reader'[m] = g_reader[m]
      BY <1>1, <1>4, <2>5, <3>1
    <3>3. Reads(l, b)
      BY <1>3, <1>8, <2>5, <2>7, <3>2, Zenon DEF Reads
    <3>4. QED
      BY <3>2, <3>3
  <2>8. CASE ~esc /\ b = FF
    <3>1. Becomes(TRUE, buf)
      BY <2>1, <2>8
    <3> HIDE DEF Becomes
    <3>2. /\ Esc(l)' = TRUE /\ Buf(l)' = buf /\ Count(l)' = Len(buf)
          /\ ProgramTypes'
          /\ \A m \in Lines \ {l} : g_reader'[m] = g_reader[m]
      BY <1>1, <1>4, <2>5, <3>1
    <3>3. Reads(l, b)
      BY <1>3, <2>5, <2>8, <3>2, Zenon DEF Reads
    <3>4. QED
      BY <3>2, <3>3
  <2>9. CASE ~esc /\ b # FF
    <3>1. Becomes(FALSE, StoredIn(b)) /\ StoredIn(b) \in Seq(Byte)
      <4>1. (b = FF) = FALSE
        BY <2>9
      <4>2. QED
        BY <1>5, <2>1, <2>9, <4>1
    <3> HIDE DEF Becomes, StoredIn
    <3>2. /\ Esc(l)' = FALSE /\ Buf(l)' = StoredIn(b) /\ Count(l)' = Len(StoredIn(b))
          /\ ProgramTypes'
          /\ \A m \in Lines \ {l} : g_reader'[m] = g_reader[m]
      BY <1>4, <2>5, <3>1
    <3>3. Stored(l, b)
      BY <1>6, <3>2
    <3>4. Reads(l, b)
      BY <1>3, <2>5, <2>9, <3>2, <3>3, Zenon DEF Reads
    <3>5. QED
      BY <3>2, <3>4
  <2>10. QED
    BY <1>1, <2>6, <2>7, <2>8, <2>9
<1>9. QED
  BY <1>7, <1>8

-----------------------------------------------------------------------------
(* PacketLink: where a byte takes a line and its program.                   *)

(* What a program has of a packet is of its type. *)
LEMMA HasTypes ==
  ASSUME PacketTypes, NEW l \in Lines
  PROVE  /\ Esc(l) \in BOOLEAN /\ Count(l) \in Nat /\ Buf(l) \in Seq(Byte)
         /\ Count(l) <= Size => Len(Buf(l)) = Count(l)
<1>1. /\ Size \in Nat /\ prev \in BOOLEAN /\ len \in 0 .. Size + 1 /\ rx \in Seq(Byte)
      /\ Len(rx) = IF len <= Size THEN len ELSE Size
      /\ g_reader[l].escape \in BOOLEAN /\ g_reader[l].buf \in Seq(Byte)
      /\ Len(g_reader[l].buf) \in Nat
  BY PacketConstants DEF PacketTypes
<1>2. CASE program = "sniffer"
  <2>1. Esc(l) = prev /\ Count(l) = len /\ Buf(l) = rx
    BY <1>2 DEF Esc, Count, Buf
  <2>2. QED
    BY <1>1, <2>1
<1>3. CASE program # "sniffer"
  <2>1. Esc(l) = g_reader[l].escape /\ Count(l) = Len(g_reader[l].buf)
          /\ Buf(l) = g_reader[l].buf
    BY <1>3 DEF Esc, Count, Buf
  <2>2. QED
    BY <1>1, <2>1
<1>4. QED
  BY <1>2, <1>3

(* What another sequence does behind one. *)
LEMMA FromFrontOfTwo ==
  ASSUME NEW S, NEW x \in Seq(S), x # <<>>, NEW z \in Seq(S)
  PROVE  /\ x \o z \in Seq(S) /\ x \o z # <<>>
         /\ Head(x \o z) = Head(x) /\ Tail(x \o z) = Tail(x) \o z
<1> DEFINE h == Head(x)
           t == Tail(x)
<1>1. h \in S /\ t \in Seq(S)
  BY HeadTailProperties
<1>2. x = <<h>> \o t
  BY <1>1
<1> HIDE DEF h, t
<1>3. t \o z \in Seq(S)
  BY <1>1
<1>4. x \o z = <<h>> \o (t \o z)
  BY <1>1, <1>2
<1>5. x \o z \in Seq(S) /\ x \o z # <<>> /\ Head(x \o z) = h /\ Tail(x \o z) = t \o z
  BY <1>1, <1>3, <1>4, FromFront
<1>6. QED
  BY <1>5 DEF h, t

(* The next byte of a packet on the line, and what is left. *)
LEMMA PacketMoves ==
  ASSUME PacketTypes, NEW l \in Lines, todo[l] # <<>>
  PROVE  LET p == packet[l] IN
         /\ ~Between(l)
         /\ AtEnd(l) => Head(todo[l]) = 1 /\ Tail(todo[l]) = <<>>
         /\ \A k \in Nat :
              /\ Inside(l, k) =>
                   IF k = Size
                   THEN Head(todo[l]) = FF /\ Tail(todo[l]) = <<1>>
                   ELSE /\ k + 1 \in 1..Size /\ p[k + 1] \in Byte
                        /\ IF p[k + 1] = FF
                           THEN /\ Head(todo[l]) = FF
                                /\ Tail(todo[l]) = <<0>> \o (Escaped(Rest(p, k + 1)) \o <<FF, 1>>)
                           ELSE /\ Head(todo[l]) = p[k + 1]
                                /\ Tail(todo[l]) = Escaped(Rest(p, k + 1)) \o <<FF, 1>>
              /\ Halfway(l, k) =>
                   /\ Head(todo[l]) = 0
                   /\ Tail(todo[l]) = Escaped(Rest(p, k + 1)) \o <<FF, 1>>
              /\ BeforeAll(l, k) =>
                   /\ k + 1 \in 1..Len(Text)
                   /\ Head(todo[l]) = Text[k + 1] /\ Tail(todo[l]) = Rest(Text, k + 1)
<1> DEFINE p == packet[l]
           z == <<FF, 1>>
<1>1. FF \in Byte /\ 0 \in Byte /\ 1 \in Byte /\ z \in Seq(Byte) /\ Size \in Nat
        /\ Text \in Seq(Byte) /\ Len(Text) \in Nat
  <2>1. FF \in Byte /\ 0 \in Byte /\ 1 \in Byte
    BY DEF FF, Byte
  <2>2. z \in Seq(Byte)
    BY <2>1
  <2>3. QED
    BY <2>1, <2>2, LinkConstants, PacketConstants
<1>2. p # <<>> => p \in Packets /\ p \in Seq(Byte) /\ Len(p) = Size
  BY PacketConstants DEF PacketTypes
<1>3. Head(z) = FF /\ Tail(z) = <<1>>
  OBVIOUS
<1>4. ~Between(l)
  BY DEF Between
<1>5. AtEnd(l) => Head(todo[l]) = 1 /\ Tail(todo[l]) = <<>>
  BY DEF AtEnd
<1> HIDE DEF p, z
<1>6. ASSUME NEW k \in Nat, Inside(l, k)
      PROVE  IF k = Size
             THEN Head(todo[l]) = FF /\ Tail(todo[l]) = <<1>>
             ELSE /\ k + 1 \in 1..Size /\ p[k + 1] \in Byte
                  /\ IF p[k + 1] = FF
                     THEN /\ Head(todo[l]) = FF
                          /\ Tail(todo[l]) = <<0>> \o (Escaped(Rest(p, k + 1)) \o z)
                     ELSE /\ Head(todo[l]) = p[k + 1]
                          /\ Tail(todo[l]) = Escaped(Rest(p, k + 1)) \o z
  <2> DEFINE line == Escaped(Rest(p, k))
             more == Escaped(Rest(p, k + 1))
  <2>1. p # <<>> /\ k \in 0..Size /\ todo[l] = line \o z
    BY <1>6 DEF Inside, p, z
  <2>2. p \in Seq(Byte) /\ Len(p) = Size /\ k \in 0..Len(p)
    BY <1>2, <2>1
  <2>3. CASE k = Size
    <3>1. line = <<>>
      BY <2>2, <2>3, EscapedRest, Zenon
    <3>2. todo[l] = z
      BY <1>1, <2>1, <3>1, ConcatEmptySeq
    <3>3. QED
      BY <1>3, <2>3, <3>2
  <2>4. CASE k # Size
    <3>1. /\ line \in Seq(Byte) /\ line # <<>>
          /\ k + 1 \in 1..Len(p) /\ more \in Seq(Byte)
          /\ IF p[k + 1] = FF
             THEN Head(line) = FF /\ Tail(line) = <<0>> \o more
             ELSE Head(line) = p[k + 1] /\ Tail(line) = more
      BY <2>2, <2>4, EscapedRest, Zenon
    <3>2. p[k + 1] \in Byte
      BY <2>2, <3>1
    <3> HIDE DEF line, more
    <3>3. Head(todo[l]) = Head(line) /\ Tail(todo[l]) = Tail(line) \o z
      <4>1. line \in Seq(Byte) /\ line # <<>>
        BY <3>1
      <4>2. QED
        BY <1>1, <2>1, <4>1, FromFrontOfTwo
    <3>4. (<<0>> \o more) \o z = <<0>> \o (more \o z)
      BY <1>1, <3>1
    <3>5. QED
      BY <2>2, <2>4, <3>1, <3>2, <3>3, <3>4 DEF more
  <2>5. QED
    BY <2>3, <2>4
<1>7. ASSUME NEW k \in Nat, Halfway(l, k)
      PROVE  Head(todo[l]) = 0 /\ Tail(todo[l]) = Escaped(Rest(p, k + 1)) \o z
  <2> DEFINE more == Escaped(Rest(p, k + 1))
  <2>1. p # <<>> /\ k \in 0 .. Size - 1 /\ todo[l] = <<0>> \o (more \o z)
    BY <1>7 DEF Halfway, p, z
  <2>2. p \in Seq(Byte) /\ k + 1 \in 0..Len(p)
    BY <1>1, <1>2, <2>1
  <2>3. more \in Seq(Byte)
    BY <2>2, EscapedRest, Zenon
  <2> HIDE DEF more
  <2>4. more \o z \in Seq(Byte)
    BY <1>1, <2>3
  <2>5. Head(todo[l]) = 0 /\ Tail(todo[l]) = more \o z
    BY <1>1, <2>1, <2>4, FromFront
  <2>6. QED
    BY <2>5 DEF more
<1>8. ASSUME NEW k \in Nat, BeforeAll(l, k)
      PROVE  /\ k + 1 \in 1..Len(Text)
             /\ Head(todo[l]) = Text[k + 1] /\ Tail(todo[l]) = Rest(Text, k + 1)
  <2>1. k \in 0..Len(Text) /\ todo[l] = Rest(Text, k)
    BY <1>8 DEF BeforeAll
  <2>2. k # Len(Text)
    BY <1>1, <2>1, FirstAndRest
  <2>3. k \in 0 .. Len(Text) - 1 /\ k + 1 \in 1..Len(Text)
    BY <1>1, <2>1, <2>2
  <2>4. \A n \in 0 .. Len(Text) - 1 :
          Head(Rest(Text, n)) = Text[n + 1] /\ Tail(Rest(Text, n)) = Rest(Text, n + 1)
    BY <1>1, FirstAndRest
  <2>5. QED
    BY <2>1, <2>3, <2>4, Zenon
<1>9. QED
  BY <1>4, <1>5, <1>6, <1>7, <1>8 DEF p, z

(* What is left where the program need not be in step. *)
Excused(l) == intact[l] = 0 /\ (dropped = 0 => ~Esc(l) /\ Count(l) = 0)

(* It stays so with any byte, as the packet is not one that counts. *)
LEMMA ExcusedMoves ==
  ASSUME PacketTypes, NEW l \in Lines, todo[l] # <<>>, Located(l),
         todo'[l] = Tail(todo[l]), packet'[l] = packet[l], Excused(l)'
  PROVE  Located(l)'
<1> DEFINE p == packet[l]
<1>1. ~(intact'[l] >= 1) /\ ~(intact'[l] = 2) /\ intact'[l] = 0
        /\ (dropped' = 0 => ~Esc(l)' /\ Count(l)' = 0)
  BY DEF Excused
<1>2. Size \in Nat /\ Len(Text) \in Nat /\ Size # 0
  BY LinkConstants, PacketConstants
<1>3. \A k \in Nat : dropped' = 0 => MayMatch(l, k)'
  <2> SUFFICES ASSUME NEW k \in Nat, dropped' = 0, Count(l)' = k
               PROVE  Match(l, k)'
    BY DEF MayMatch
  <2>1. k = 0
    BY <1>1
  <2>2. QED
    BY <2>1 DEF Match
<1>4. ASSUME NEW k \in 0..Size, p # <<>>,
             todo'[l] = Escaped(Rest(p, k)) \o <<FF, 1>>
      PROVE  Inside(l, k)'
  <2>1. k \in Nat
    BY <1>2
  <2>2. QED
    BY <1>1, <1>3, <1>4, <2>1, Zenon DEF Inside
<1>5. ASSUME NEW k \in Nat, Inside(l, k)
      PROVE  Located(l)'
  <2>1. k \in 0..Size /\ p # <<>>
    BY <1>5 DEF Inside
  <2>2. CASE k = Size
    <3>1. todo'[l] = <<1>>
      BY <1>5, <2>2, PacketMoves
    <3>2. AtEnd(l)'
      BY <1>1, <2>1, <3>1 DEF AtEnd
    <3>3. QED
      BY <3>2 DEF Located
  <2>3. CASE k # Size /\ p[k + 1] = FF
    <3>1. todo'[l] = <<0>> \o (Escaped(Rest(p, k + 1)) \o <<FF, 1>>)
      BY <1>5, <2>3, PacketMoves
    <3>2. k \in 0 .. Size - 1
      BY <1>2, <2>1, <2>3
    <3>3. Halfway(l, k)'
      BY <1>1, <2>1, <2>3, <3>1, <3>2, Zenon DEF Halfway
    <3>4. QED
      BY <3>3 DEF Located
  <2>4. CASE k # Size /\ p[k + 1] # FF
    <3>1. todo'[l] = Escaped(Rest(p, k + 1)) \o <<FF, 1>>
      BY <1>5, <2>4, PacketMoves
    <3>2. k + 1 \in 0..Size /\ k + 1 \in Nat
      BY <1>2, <2>1, <2>4
    <3>3. Inside(l, k + 1)'
      BY <1>4, <2>1, <3>1, <3>2
    <3>4. QED
      BY <3>2, <3>3 DEF Located
  <2>5. QED
    BY <2>2, <2>3, <2>4
<1>6. ASSUME NEW k \in Nat, Halfway(l, k)
      PROVE  Located(l)'
  <2>1. k \in 0 .. Size - 1 /\ p # <<>>
    BY <1>6 DEF Halfway
  <2>2. todo'[l] = Escaped(Rest(p, k + 1)) \o <<FF, 1>>
    BY <1>6, PacketMoves
  <2>3. k + 1 \in 0..Size /\ k + 1 \in Nat
    BY <1>2, <2>1
  <2>4. Inside(l, k + 1)'
    BY <1>4, <2>1, <2>2, <2>3
  <2>5. QED
    BY <2>3, <2>4 DEF Located
<1>7. ASSUME NEW k \in Nat, BeforeAll(l, k)
      PROVE  Located(l)'
  <2>1. k + 1 \in 1..Len(Text) /\ todo'[l] = Rest(Text, k + 1)
    BY <1>7, PacketMoves
  <2>2. k + 1 \in 0..Len(Text) /\ k + 1 \in Nat /\ p = <<>>
    BY <1>2, <1>7, <2>1 DEF BeforeAll
  <2>3. BeforeAll(l, k + 1)'
    BY <1>1, <2>1, <2>2, Zenon DEF BeforeAll
  <2>4. QED
    BY <2>2, <2>3 DEF Located
<1>8. ASSUME AtEnd(l)
      PROVE  Located(l)'
  <2>1. todo'[l] = <<>>
    BY <1>8, PacketMoves
  <2>2. Between(l)'
    BY <1>1, <2>1 DEF Between
  <2>3. QED
    BY <2>2 DEF Located
<1>9. ~Between(l)
  BY PacketMoves
<1>10. QED
  BY <1>5, <1>6, <1>7, <1>8, <1>9 DEF Located

(* A byte of the packet is stored. *)
LEMMA StoredNext ==
  ASSUME PacketTypes, NEW l \in Lines, NEW k \in 0 .. Size - 1, packet[l] # <<>>,
         Stored(l, packet[l][k + 1]), packet'[l] = packet[l], intact'[l] = intact[l]
  PROVE  /\ Precise(l, k) => Precise(l, k + 1)'
         /\ MayMatch(l, k) => MayMatch(l, k + 1)'
<1> DEFINE p == packet[l]
           b == p[k + 1]
<1>1. /\ Count(l) \in Nat /\ Buf(l) \in Seq(Byte) /\ Size \in Nat
      /\ Count(l) <= Size => Len(Buf(l)) = Count(l)
  BY HasTypes, PacketConstants
<1>2. p \in Seq(Byte) /\ Len(p) = Size /\ k \in 0 .. Len(p) - 1 /\ k \in Nat /\ k < Size
  BY PacketConstants DEF PacketTypes
<1>3. b \in Byte
  BY <1>2
<1> HIDE DEF b
<1>4. /\ Count(l) < Size => Count(l)' = Count(l) + 1 /\ Buf(l)' = Append(Buf(l), b)
      /\ Count(l) >= Size => Count(l)' > Size
  BY DEF Stored, b
<1> HIDE DEF p
<1>5. ASSUME Precise(l, k)
      PROVE  Precise(l, k + 1)'
  <2>1. Count(l) = k /\ Buf(l) = First(p, k)
    BY <1>5 DEF Precise, p
  <2>2. Count(l)' = k + 1 /\ Buf(l)' = Append(First(p, k), b)
    BY <1>2, <1>4, <2>1
  <2>3. First(p, k + 1) = Append(First(p, k), b)
    BY <1>2, FirstGrows DEF b
  <2>4. QED
    BY <2>2, <2>3 DEF Precise, p
<1>6. ASSUME MayMatch(l, k), Count(l)' = k + 1
      PROVE  Match(l, k + 1)'
  <2>1. Count(l) = k
    BY <1>1, <1>2, <1>4, <1>6
  <2>2. Buf(l)' = Append(Buf(l), b) /\ Len(Buf(l)) = k
    BY <1>1, <1>2, <1>4, <2>1
  <2>3. \A j \in 1..k : j > 1 \/ intact[l] > 0 => Buf(l)[j] = p[j]
    BY <1>6, <2>1 DEF MayMatch, Match, p
  <2> DEFINE old == Buf(l)
             new == Append(old, b)
  <2>4. new[k + 1] = b /\ \A j \in 1..k : new[j] = old[j]
    <3>1. old \in Seq(Byte) /\ Len(old) = k
      BY <1>1, <2>2
    <3> HIDE DEF old
    <3>2. QED
      BY <1>2, <1>3, <3>1
  <2>5. ASSUME NEW j \in 1 .. k + 1, j > 1 \/ intact[l] > 0
        PROVE  new[j] = p[j]
    <3> HIDE DEF new
    <3>1. CASE j = k + 1
      BY <2>4, <3>1 DEF b
    <3>2. CASE j # k + 1
      <4>1. j \in 1..k
        BY <1>2, <3>2
      <4>2. QED
        BY <2>3, <2>4, <2>5, <4>1
    <3>3. QED
      BY <3>1, <3>2
  <2>6. Buf(l)' = new
    BY <2>2
  <2> HIDE DEF new, old
  <2>7. QED
    BY <2>5, <2>6 DEF Match, p
<1>7. QED
  BY <1>5, <1>6 DEF MayMatch

(* A byte received takes the program where it takes the line. *)
LEMMA ReadMoves ==
  ASSUME PacketTypes, NEW l \in Lines, todo[l] # <<>>, Located(l),
         todo'[l] = Tail(todo[l]), packet'[l] = packet[l], dropped' = dropped,
         intact'[l] = intact[l], packet[l] = <<>> => intact[l] = 0,
         Reads(l, Head(todo[l]))
  PROVE  Located(l)'
<1> DEFINE p == packet[l]
           b == Head(todo[l])
<1>1. /\ Esc(l) \in BOOLEAN /\ Esc(l)' \in BOOLEAN /\ Count(l) \in Nat
      /\ Size \in Nat /\ Size >= 2 /\ Len(Text) \in Nat
      /\ intact[l] \in 0..2 /\ FF = 255 /\ dropped \in Nat
  <2>1. Esc(l) \in BOOLEAN /\ Esc(l)' \in BOOLEAN /\ Count(l) \in Nat
    BY HasTypes DEF Reads
  <2>2. intact[l] \in 0..2 /\ dropped \in Nat
    BY DEF PacketTypes
  <2>3. QED
    BY <2>1, <2>2, LinkConstants, PacketConstants
<1>2. /\ ~Esc(l) /\ b # FF => ~Esc(l)' /\ Stored(l, b)
      /\ ~Esc(l) /\ b = FF => Esc(l)' /\ Count(l)' = Count(l) /\ Buf(l)' = Buf(l)
      /\ Esc(l) /\ b = 0 => Stored(l, FF)
      /\ Esc(l) /\ b = 1 => Count(l)' = 0
      /\ Esc(l) /\ b # FF => ~Esc(l)'
  BY DEF Reads
<1> HIDE DEF b
<1>3. \A k \in Nat : Count(l)' = Count(l) /\ Buf(l)' = Buf(l) =>
        /\ Precise(l, k) => Precise(l, k)'
        /\ MayMatch(l, k) => MayMatch(l, k)'
  BY Zenon DEF Precise, MayMatch, Match
<1>4. ASSUME NEW k \in Nat, Inside(l, k)
      PROVE  Located(l)'
  <2>1. /\ p # <<>> /\ k \in 0..Size
        /\ dropped = 0 => ~Esc(l) /\ MayMatch(l, k)
        /\ intact[l] >= 1 /\ k >= 1 => ~Esc(l)
        /\ intact[l] = 2 => ~Esc(l) /\ Precise(l, k)
    BY <1>4 DEF Inside
  <2>2. CASE k = Size
    <3>1. b = FF /\ todo'[l] = <<1>>
      BY <1>4, <2>2, PacketMoves DEF b
    <3>2. ~Esc(l) => Esc(l)' /\ Count(l)' = Count(l) /\ Buf(l)' = Buf(l)
      BY <1>2, <3>1
    <3>3. dropped' = 0 => Esc(l)' /\ MayMatch(l, Size)'
      BY <1>3, <2>1, <2>2, <3>2
    <3>4. intact'[l] >= 1 => Esc(l)'
      BY <1>1, <2>1, <2>2, <3>2
    <3>5. intact'[l] = 2 => Precise(l, Size)'
      BY <1>3, <2>1, <2>2, <3>2
    <3>6. AtEnd(l)'
      BY <2>1, <3>1, <3>3, <3>4, <3>5 DEF AtEnd
    <3>7. QED
      BY <3>6 DEF Located
  <2>3. CASE k # Size /\ p[k + 1] = FF
    <3>1. b = FF /\ todo'[l] = <<0>> \o (Escaped(Rest(p, k + 1)) \o <<FF, 1>>)
            /\ k \in 0 .. Size - 1
      <4>1. k \in 0 .. Size - 1
        BY <1>1, <2>1, <2>3
      <4>2. QED
        BY <1>4, <2>3, <4>1, PacketMoves DEF b
    <3>2. ~Esc(l) => Esc(l)' /\ Count(l)' = Count(l) /\ Buf(l)' = Buf(l)
      BY <1>2, <3>1
    <3>3. dropped' = 0 => Esc(l)' /\ MayMatch(l, k)'
      BY <1>3, <2>1, <3>2
    <3>4. intact'[l] >= 1 /\ k >= 1 => Esc(l)'
      BY <2>1, <3>2
    <3>5. intact'[l] = 2 => Esc(l)' /\ Precise(l, k)'
      BY <1>3, <2>1, <3>2
    <3>6. Halfway(l, k)'
      BY <2>1, <2>3, <3>1, <3>3, <3>4, <3>5, Zenon DEF Halfway
    <3>7. QED
      BY <3>6 DEF Located
  <2>4. CASE k # Size /\ p[k + 1] # FF
    <3>1. b = p[k + 1] /\ todo'[l] = Escaped(Rest(p, k + 1)) \o <<FF, 1>>
            /\ k \in 0 .. Size - 1 /\ k + 1 \in 0..Size /\ k + 1 \in Nat
      <4>1. k \in 0 .. Size - 1 /\ k + 1 \in 0..Size /\ k + 1 \in Nat
        BY <1>1, <2>1, <2>4
      <4>2. QED
        BY <1>4, <2>4, <4>1, PacketMoves DEF b
    <3>2. ~Esc(l)'
      BY <1>1, <1>2, <2>4, <3>1
    <3>3. ~Esc(l) => /\ Precise(l, k) => Precise(l, k + 1)'
                     /\ MayMatch(l, k) => MayMatch(l, k + 1)'
      BY <1>2, <2>1, <2>4, <3>1, StoredNext
    <3>4. /\ dropped' = 0 => MayMatch(l, k + 1)'
          /\ intact'[l] = 2 => Precise(l, k + 1)'
      BY <2>1, <3>3
    <3>5. Inside(l, k + 1)'
      BY <2>1, <3>1, <3>2, <3>4, Zenon DEF Inside
    <3>6. QED
      BY <3>1, <3>5 DEF Located
  <2>5. QED
    BY <2>2, <2>3, <2>4
<1>5. ASSUME NEW k \in Nat, Halfway(l, k)
      PROVE  Located(l)'
  <2>1. /\ p # <<>> /\ k \in 0 .. Size - 1 /\ p[k + 1] = FF
        /\ dropped = 0 => IF Esc(l) THEN MayMatch(l, k) ELSE Count(l) = 0 /\ intact[l] = 0
        /\ intact[l] >= 1 /\ k >= 1 => Esc(l)
        /\ intact[l] = 2 => Esc(l) /\ Precise(l, k)
    BY <1>5 DEF Halfway
  <2>2. b = 0 /\ todo'[l] = Escaped(Rest(p, k + 1)) \o <<FF, 1>>
          /\ k + 1 \in 0..Size /\ k + 1 \in Nat
    <3>1. k + 1 \in 0..Size /\ k + 1 \in Nat
      BY <1>1, <2>1
    <3>2. QED
      BY <1>5, <3>1, PacketMoves DEF b
  <2>3. ~Esc(l)'
    BY <1>1, <1>2, <2>2
  <2>4. Esc(l) => /\ Precise(l, k) => Precise(l, k + 1)'
                  /\ MayMatch(l, k) => MayMatch(l, k + 1)'
    BY <1>2, <2>1, <2>2, StoredNext
  <2>5. ASSUME ~Esc(l), Count(l) = 0, intact[l] = 0
        PROVE  MayMatch(l, k + 1)'
    <3>1. Count(l)' = 1
      BY <1>1, <1>2, <2>2, <2>5 DEF Stored
    <3>2. Count(l)' = k + 1 => k = 0
      BY <3>1
    <3>3. k = 0 => Match(l, k + 1)'
      BY <2>5 DEF Match
    <3>4. QED
      BY <3>2, <3>3 DEF MayMatch
  <2>6. dropped' = 0 => MayMatch(l, k + 1)'
    BY <2>1, <2>4, <2>5
  <2>7. intact'[l] = 2 => Precise(l, k + 1)'
    BY <2>1, <2>4
  <2>8. Inside(l, k + 1)'
    BY <2>1, <2>2, <2>3, <2>6, <2>7, Zenon DEF Inside
  <2>9. QED
    BY <2>2, <2>8 DEF Located
<1>6. ASSUME NEW k \in Nat, BeforeAll(l, k)
      PROVE  Located(l)'
  <2>1. k + 1 \in 1..Len(Text) /\ todo'[l] = Rest(Text, k + 1) /\ b = Text[k + 1]
    BY <1>6, PacketMoves DEF b
  <2>2. k + 1 \in 0..Len(Text) /\ k + 1 \in Nat /\ p = <<>> /\ b # FF
    BY <1>1, <1>6, <2>1, LinkConstants DEF BeforeAll
  <2>3. dropped' = 0 => ~Esc(l)'
    BY <1>2, <2>2
  <2>4. BeforeAll(l, k + 1)'
    BY <2>1, <2>2, <2>3, Zenon DEF BeforeAll
  <2>5. QED
    BY <2>2, <2>4 DEF Located
<1>7. ASSUME AtEnd(l)
      PROVE  Located(l)'
  <2>1. todo'[l] = <<>> /\ b = 1
    BY <1>7, PacketMoves DEF b
  <2>2. ~Esc(l)' /\ (Esc(l) => Count(l)' = 0)
    BY <1>1, <1>2, <2>1
  <2>3. intact[l] >= 1 => Esc(l)
    BY <1>7 DEF AtEnd
  <2>4. Between(l)'
    BY <2>1, <2>2, <2>3 DEF Between
  <2>5. QED
    BY <2>4 DEF Located
<1>8. ~Between(l)
  BY PacketMoves
<1>9. QED
  BY <1>4, <1>5, <1>6, <1>7, <1>8 DEF Located

-----------------------------------------------------------------------------
(* PacketLink: the steps.                                                   *)

(* What neither the line nor its reader has part in. *)
LEMMA LineStays ==
  ASSUME NEW m \in Lines, Located(m), dropped' = 0 => dropped = 0,
         todo'[m] = todo[m], packet'[m] = packet[m], intact'[m] = intact[m],
         Esc(m)' = Esc(m), Count(m)' = Count(m), Buf(m)' = Buf(m)
  PROVE  Located(m)'
<1>1. \A k \in Nat : /\ Precise(m, k) => Precise(m, k)'
                     /\ MayMatch(m, k) => MayMatch(m, k)'
  BY Zenon DEF Precise, MayMatch, Match
<1>2. Between(m) => Between(m)'
  BY Zenon DEF Between
<1>3. AtEnd(m) => AtEnd(m)'
  <2>1. Size \in Nat
    BY PacketConstants
  <2>2. QED
    BY <1>1, <2>1, Zenon DEF AtEnd
<1>4. ASSUME NEW k \in Nat
      PROVE  /\ Inside(m, k) => Inside(m, k)'
             /\ Halfway(m, k) => Halfway(m, k)'
             /\ BeforeAll(m, k) => BeforeAll(m, k)'
  <2>1. Inside(m, k) => Inside(m, k)'
    BY <1>1, Zenon DEF Inside
  <2>2. Halfway(m, k) => Halfway(m, k)'
    BY <1>1, Zenon DEF Halfway
  <2>3. BeforeAll(m, k) => BeforeAll(m, k)'
    BY Zenon DEF BeforeAll
  <2>4. QED
    BY <2>1, <2>2, <2>3
<1>5. QED
  BY <1>2, <1>3, <1>4 DEF Located

(* The end of a packet is still to come. *)
LEMMA NeverEmpty ==
  ASSUME NEW line \in Seq(Byte)
  PROVE  line \o <<FF, 1>> # <<>> /\ line \o <<FF, 1>> \in Seq(Byte)
<1> DEFINE z == <<FF, 1>>
<1>1. z \in Seq(Byte) /\ z # <<>>
  BY DEF FF, Byte
<1> HIDE DEF z
<1>2. CASE line = <<>>
  BY <1>1, <1>2, ConcatEmptySeq DEF z
<1>3. CASE line # <<>>
  BY <1>1, <1>3, FromFrontOfTwo DEF z
<1>4. QED
  BY <1>2, <1>3

(* Where a line is when its reader may write. *)
LEMMA PacketLineIdle ==
  ASSUME PacketTypes, NEW l \in Lines, Located(l), todo[l] = <<>>
  PROVE  Between(l) \/ \E k \in Nat : BeforeAll(l, k)
<1> DEFINE p == packet[l]
           z == <<FF, 1>>
<1>1. FF \in Byte /\ 0 \in Byte /\ 1 \in Byte /\ Size \in Nat /\ z \in Seq(Byte) /\ z # <<>>
  <2>1. FF \in Byte /\ 0 \in Byte /\ 1 \in Byte
    BY DEF FF, Byte
  <2>2. QED
    BY <2>1, PacketConstants
<1>2. p # <<>> => p \in Seq(Byte) /\ Len(p) = Size
  BY PacketConstants DEF PacketTypes
<1> HIDE DEF p, z
<1>3. ASSUME NEW line \in Seq(Byte)
      PROVE  line \o z # <<>> /\ line \o z \in Seq(Byte)
  BY NeverEmpty DEF z
<1>4. ~AtEnd(l)
  BY DEF AtEnd
<1>5. ASSUME NEW k \in Nat, Inside(l, k)
      PROVE  FALSE
  <2>1. p # <<>> /\ k \in 0..Size /\ todo[l] = Escaped(Rest(p, k)) \o z
    BY <1>5 DEF Inside, p, z
  <2>2. Escaped(Rest(p, k)) \in Seq(Byte)
    BY <1>2, <2>1, EscapedRest, Zenon
  <2>3. QED
    BY <1>3, <2>1, <2>2
<1>6. ASSUME NEW k \in Nat, Halfway(l, k)
      PROVE  FALSE
  <2>1. /\ p # <<>> /\ k \in 0 .. Size - 1
        /\ todo[l] = <<0>> \o (Escaped(Rest(p, k + 1)) \o z)
    BY <1>6 DEF Halfway, p, z
  <2>2. p \in Seq(Byte) /\ k + 1 \in 0..Len(p)
    BY <1>1, <1>2, <2>1
  <2>3. Escaped(Rest(p, k + 1)) \in Seq(Byte)
    BY <2>2, EscapedRest, Zenon
  <2>4. Escaped(Rest(p, k + 1)) \o z \in Seq(Byte)
    BY <1>3, <2>3
  <2>5. QED
    BY <1>1, <2>1, <2>4, FromFront
<1>7. QED
  BY <1>4, <1>5, <1>6 DEF Located

(* Initially the readers have text to write, and no program is there. *)
LEMMA PacketStarts == PacketInit => PacketInv
<1> SUFFICES ASSUME PacketInit
             PROVE  PacketInv
  OBVIOUS
<1> DEFINE none == <<>>
<1>1. /\ program \in {"sniffer", "forwarder"} /\ listening = FALSE
      /\ todo = [l \in Lines |-> Text]
      /\ packet = [l \in Lines |-> none] /\ intact = [l \in Lines |-> 0]
      /\ dropped = 0
      /\ prev = FALSE /\ len = 0 /\ rx = none
      /\ g_reader = [l \in Lines |-> [escape |-> FALSE, buf |-> none]]
      /\ g_duplicate_backlog = [i \in 0 .. N - 1 |-> 0]
      /\ g_duplicate_pos = 0
      /\ recent = none
  BY DEF PacketInit, N
<1>2. /\ none \in Seq(Byte) /\ Len(none) = 0 /\ none \in Seq(Seq(Byte))
      /\ Size \in Nat /\ N \in Nat \ {0} /\ Text \in Seq(Byte) /\ Len(Text) \in Nat
  BY PacketConstants, LinkConstants
<1>3. \A l \in Lines : ~Esc(l) /\ Count(l) = 0 /\ intact[l] = 0 /\ packet[l] = <<>>
  <2>1. Len(none) = 0
    BY <1>2
  <2>2. QED
    BY <1>1, <2>1 DEF Esc, Count
<1>4. PacketTypes
  <2>1. listening \in BOOLEAN /\ prev \in BOOLEAN
    BY <1>1
  <2>2. packet \in [Lines -> Packets \cup {<<>>}]
    BY <1>1
  <2> HIDE DEF none
  <2>3. g_reader \in [Lines -> [escape : BOOLEAN, buf : Seq(Byte)]]
    BY <1>1, <1>2
  <2>4. todo \in [Lines -> Seq(Byte)] /\ intact \in [Lines -> 0..2] /\ dropped \in Nat
    BY <1>1, <1>2
  <2>5. len \in 0 .. Size + 1 /\ rx \in Seq(Byte)
          /\ Len(rx) = IF len <= Size THEN len ELSE Size
    BY <1>1, <1>2
  <2>6. QED
    BY <1>1, <2>1, <2>2, <2>3, <2>4, <2>5 DEF PacketTypes
<1>5. Idle
  BY <1>3 DEF Idle, Used, Lines
<1>6. BacklogOK
  <2> HIDE DEF none
  <2>1. recent \in Seq(Seq(Byte)) /\ Len(recent) <= N /\ Len(recent) = 0
    BY <1>1, <1>2
  <2>2. g_duplicate_pos \in 0 .. N - 1
    BY <1>1, <1>2
  <2>3. g_duplicate_backlog = [i \in 0 .. N - 1 |-> g_duplicate_backlog[i]]
          /\ \A i \in 0 .. N - 1 : g_duplicate_backlog[i] = 0
    BY <1>1
  <2>4. \A b \in 1..N : SlotBack(g_duplicate_pos, b) \in 0 .. N - 1
    BY <2>2, Slots
  <2>5. \A b \in 1..N : ~(b <= Len(recent))
    BY <2>1
  <2>6. QED
    BY <2>1, <2>2, <2>3, <2>4, <2>5 DEF BacklogOK
<1>7. ASSUME NEW l \in Lines
      PROVE  Located(l)
  <2>1. Rest(Text, 0) = Text
    BY <1>2, FirstAndRest
  <2>2. BeforeAll(l, 0)
    BY <1>1, <1>2, <1>3, <2>1 DEF BeforeAll
  <2>3. QED
    BY <2>2 DEF Located
<1>8. QED
  BY <1>4, <1>5, <1>6, <1>7 DEF PacketInv, Used, Lines

(* A reader writes the next packet. *)
LEMMA OutputKeeps ==
  ASSUME PacketInv, NEW l \in Used, NEW p \in Packets, Output(l, p)
  PROVE  PacketInv'
<1>1. /\ PacketTypes /\ Idle /\ BacklogOK /\ Located(l) /\ l \in Lines
      /\ \A m \in Used : m \in Lines /\ Located(m)
  BY DEF PacketInv, Used, Lines
<1> DEFINE i == IF listening THEN Min({intact[l] + 1, 2}) ELSE 0
<1>2. /\ todo[l] = <<>>
      /\ todo' = [todo EXCEPT ![l] = Escaped(p) \o <<FF, 1>>]
      /\ packet' = [packet EXCEPT ![l] = p]
      /\ intact' = [intact EXCEPT ![l] = i]
      /\ passed' = <<>>
      /\ UNCHANGED <<program, listening, dropped, prev, len, rx, g_reader,
                     g_duplicate_backlog, g_duplicate_pos, recent>>
  BY DEF Output, sniffer, forwarder
<1>3. /\ todo \in [Lines -> Seq(Byte)] /\ packet \in [Lines -> Packets \cup {<<>>}]
      /\ intact \in [Lines -> 0..2] /\ Size \in Nat
      /\ p \in Seq(Byte) /\ Len(p) = Size /\ p # <<>>
  BY <1>1, PacketConstants DEF PacketTypes
<1>4. i \in 0..2 /\ (~listening => i = 0) /\ (i = 2 => listening /\ intact[l] >= 1)
  <2>1. intact[l] \in 0..2
    BY <1>1, <1>3
  <2>2. Min({intact[l] + 1, 2}) = IF intact[l] + 1 <= 2 THEN intact[l] + 1 ELSE 2
    <3>1. intact[l] + 1 \in Int /\ 2 \in Int
      BY <2>1
    <3>2. QED
      BY <3>1, MinOfTwo, Zenon
  <2>3. QED
    BY <2>1, <2>2
<1> HIDE DEF i
<1>5. todo'[l] = Escaped(p) \o <<FF, 1>> /\ packet'[l] = p /\ intact'[l] = i
        /\ \A m \in Lines \ {l} : todo'[m] = todo[m] /\ packet'[m] = packet[m]
                                    /\ intact'[m] = intact[m]
  BY <1>1, <1>2, <1>3
<1>6. \A m \in Lines : Esc(m)' = Esc(m) /\ Count(m)' = Count(m) /\ Buf(m)' = Buf(m)
  BY <1>2 DEF Esc, Count, Buf
<1>7. Used' = Used
  BY <1>2 DEF Used
<1>8. PacketTypes'
  <2>1. Escaped(p) \in Seq(Byte)
    BY <1>3, EscapedFromFront
  <2>2. FF \in Byte /\ 1 \in Byte
    BY DEF FF, Byte
  <2>3. Escaped(p) \o <<FF, 1>> \in Seq(Byte)
    BY <2>1, <2>2
  <2>4. /\ todo' \in [Lines -> Seq(Byte)] /\ packet' \in [Lines -> Packets \cup {<<>>}]
        /\ intact' \in [Lines -> 0..2]
    BY <1>1, <1>2, <1>3, <1>4, <2>3
  <2>5. (listening \in BOOLEAN /\ prev \in BOOLEAN)'
    BY <1>1, <1>2 DEF PacketTypes
  <2>6. QED
    BY <1>1, <1>2, <2>4, <2>5 DEF PacketTypes
<1>9. Idle'
  <2>1. \A m \in Lines : packet'[m] = <<>> => intact'[m] = 0
    BY <1>1, <1>3, <1>5 DEF Idle
  <2>2. \A m \in Lines \ Used' : packet'[m] = <<>>
    BY <1>1, <1>5, <1>7 DEF Idle
  <2>3. ~listening' => \A m \in Used' : ~Esc(m)' /\ Count(m)' = 0 /\ intact'[m] = 0
    BY <1>1, <1>2, <1>4, <1>5, <1>6, <1>7 DEF Idle
  <2>4. QED
    BY <2>1, <2>2, <2>3 DEF Idle
<1>10. BacklogOK'
  BY <1>1, <1>2 DEF BacklogOK, SlotBack
<1>11. Inside(l, 0)'
  <2>1. Rest(p, 0) = p /\ First(p, 0) = <<>> /\ 0 \in 0..Size
    BY <1>3, FirstAndRest
  <2>2. dropped = 0 => ~Esc(l)
    BY <1>1, <1>2, PacketLineIdle DEF Between, BeforeAll
  <2>3. MayMatch(l, 0)'
    BY DEF MayMatch, Match
  <2>4. i = 2 => ~Esc(l) /\ Precise(l, 0)'
    <3> SUFFICES ASSUME i = 2
                 PROVE  ~Esc(l) /\ Precise(l, 0)'
      OBVIOUS
    <3>1. intact[l] >= 1
      BY <1>4
    <3>2. packet[l] # <<>>
      BY <1>1, <3>1 DEF Idle
    <3>3. Between(l)
      BY <1>1, <1>2, <3>2, PacketLineIdle DEF BeforeAll
    <3>4. ~Esc(l) /\ Count(l) = 0
      BY <3>1, <3>3 DEF Between
    <3>5. Buf(l) = <<>>
      <4>1. Buf(l) \in Seq(Byte) /\ Len(Buf(l)) = 0
        BY <1>1, <1>3, <3>4, HasTypes
      <4>2. QED
        BY <4>1, EmptySeq
    <3>6. QED
      BY <1>1, <1>5, <1>6, <2>1, <3>4, <3>5 DEF Precise
  <2>5. ~(0 >= 1)
    OBVIOUS
  <2>6. QED
    BY <1>1, <1>2, <1>3, <1>5, <1>6, <2>1, <2>2, <2>3, <2>4, <2>5, Zenon DEF Inside
<1>12. ASSUME NEW m \in Used'
       PROVE  Located(m)'
  <2>1. CASE m = l
    BY <1>11, <2>1 DEF Located
  <2>2. CASE m # l
    <3>1. m \in Lines /\ Located(m) /\ m \in Lines \ {l}
      BY <1>1, <1>7, <2>2
    <3>2. QED
      BY <1>2, <1>5, <1>6, <3>1, LineStays
  <2>3. QED
    BY <2>1, <2>2
<1>13. QED
  BY <1>8, <1>9, <1>10, <1>12 DEF PacketInv

(* What happens to a byte on a line that the program reads. *)
LEMMA TransferReads ==
  ASSUME PacketInv, NEW l \in Used, Transfer(l), listening
  PROVE  /\ Reads(l, Head(todo[l])) /\ PassesOn(l, Head(todo[l]))
         /\ ProgramTypes' /\ BacklogOK'
         /\ \A m \in Used \ {l} : Esc(m)' = Esc(m) /\ Count(m)' = Count(m)
                                    /\ Buf(m)' = Buf(m)
<1> DEFINE b == Head(todo[l])
<1>1. /\ PacketTypes /\ BacklogOK /\ l \in Lines /\ todo[l] # <<>>
      /\ program \in {"sniffer", "forwarder"} /\ program' = program
  BY DEF PacketInv, Used, Lines, PacketTypes, Transfer
<1>2. b \in Byte
  <2>1. todo[l] \in Seq(Byte)
    BY <1>1 DEF PacketTypes
  <2>2. QED
    BY <1>1, <2>1
<1> HIDE DEF b
<1>3. CASE program = "sniffer"
  <2>1. l = 1 /\ Used = {1}
    BY <1>3 DEF Used
  <2>2. SnifferReceives(b) /\ UNCHANGED forwarder
    BY <1>3 DEF Transfer, b
  <2>3. Reads(1, b) /\ PassesOn(1, b) /\ ProgramTypes' /\ BacklogOK'
    BY <1>1, <1>2, <1>3, <2>2, SnifferReads
  <2>4. QED
    BY <2>1, <2>3 DEF b
<1>4. CASE program = "forwarder"
  <2>1. PortReader(l, b) /\ UNCHANGED sniffer
    BY <1>4 DEF Transfer, b
  <2>2. /\ Reads(l, b) /\ PassesOn(l, b) /\ ProgramTypes' /\ BacklogOK'
        /\ \A m \in Lines \ {l} : g_reader'[m] = g_reader[m]
    BY <1>1, <1>2, <1>4, <2>1, ForwarderReads
  <2>3. Used = Lines
    BY <1>4 DEF Used
  <2>4. \A m \in Used \ {l} : Esc(m)' = Esc(m) /\ Count(m)' = Count(m) /\ Buf(m)' = Buf(m)
    BY <1>1, <1>4, <2>2, <2>3 DEF Esc, Count, Buf
  <2>5. QED
    BY <2>2, <2>4 DEF b
<1>5. QED
  BY <1>1, <1>3, <1>4

(* A byte arrives, read or not. *)
LEMMA TransferKeeps ==
  ASSUME PacketInv, NEW l \in Used, Transfer(l)
  PROVE  PacketInv'
<1>1. /\ PacketTypes /\ Idle /\ BacklogOK /\ Located(l) /\ l \in Lines
      /\ \A m \in Used : m \in Lines /\ Located(m)
  BY DEF PacketInv, Used, Lines
<1>2. /\ todo[l] # <<>> /\ todo' = [todo EXCEPT ![l] = Tail(todo[l])]
      /\ UNCHANGED <<program, listening, packet, intact, dropped>>
  BY DEF Transfer
<1>3. todo \in [Lines -> Seq(Byte)] /\ todo[l] \in Seq(Byte) /\ Tail(todo[l]) \in Seq(Byte)
  <2>1. todo[l] \in Seq(Byte) /\ todo \in [Lines -> Seq(Byte)]
    BY <1>1 DEF PacketTypes
  <2>2. QED
    BY <1>2, <2>1
<1>4. todo' \in [Lines -> Seq(Byte)] /\ todo'[l] = Tail(todo[l])
        /\ \A m \in Lines \ {l} : todo'[m] = todo[m]
  BY <1>1, <1>2, <1>3
<1>5. Used' = Used
  BY <1>2 DEF Used
<1>6. /\ ProgramTypes' /\ BacklogOK' /\ Located(l)'
      /\ \A m \in Used \ {l} : Esc(m)' = Esc(m) /\ Count(m)' = Count(m)
                                 /\ Buf(m)' = Buf(m)
      /\ ~listening => \A m \in Used : Esc(m)' = Esc(m) /\ Count(m)' = Count(m)
  <2>1. CASE listening
    <3>1. /\ Reads(l, Head(todo[l])) /\ ProgramTypes' /\ BacklogOK'
          /\ \A m \in Used \ {l} : Esc(m)' = Esc(m) /\ Count(m)' = Count(m)
                                     /\ Buf(m)' = Buf(m)
      BY <2>1, TransferReads
    <3>2. packet[l] = <<>> => intact[l] = 0
      BY <1>1 DEF Idle
    <3>3. Located(l)'
      BY <1>1, <1>2, <1>4, <3>1, <3>2, ReadMoves
    <3>4. QED
      BY <2>1, <3>1, <3>3
  <2>2. CASE ~listening
    <3>1. Pass(<<>>) /\ UNCHANGED <<sniffer, forwarder>>
      BY <2>2 DEF Transfer
    <3>2. UNCHANGED <<prev, len, rx, g_reader, g_duplicate_backlog, g_duplicate_pos>>
      BY <3>1 DEF sniffer, forwarder
    <3>3. \A m \in Lines : Esc(m)' = Esc(m) /\ Count(m)' = Count(m) /\ Buf(m)' = Buf(m)
      BY <1>2, <3>2 DEF Esc, Count, Buf
    <3>4. ProgramTypes'
      <4>1. ProgramTypes
        BY <1>1 DEF PacketTypes, ProgramTypes
      <4>2. QED
        BY <3>2, <4>1 DEF ProgramTypes
    <3>5. BacklogOK'
      BY <1>1, <1>2, <3>1, <3>2, BacklogStays
    <3>6. ~Esc(l) /\ Count(l) = 0 /\ intact[l] = 0
      BY <1>1, <2>2 DEF Idle
    <3>7. Excused(l)'
      BY <1>1, <1>2, <3>3, <3>6 DEF Excused
    <3>8. Located(l)'
      BY <1>1, <1>2, <1>4, <3>7, ExcusedMoves
    <3>9. QED
      BY <1>1, <3>3, <3>4, <3>5, <3>8
  <2>3. QED
    BY <2>1, <2>2
<1>7. PacketTypes'
  <2>1. listening' \in BOOLEAN
    BY <1>1, <1>2 DEF PacketTypes
  <2>2. QED
    BY <1>1, <1>2, <1>4, <1>6, <2>1 DEF PacketTypes, ProgramTypes
<1>8. Idle'
  <2>1. \A m \in Lines : packet'[m] = <<>> => intact'[m] = 0
    BY <1>1, <1>2 DEF Idle
  <2>2. \A m \in Lines \ Used' : packet'[m] = <<>>
    BY <1>1, <1>2, <1>5 DEF Idle
  <2>3. ~listening' => \A m \in Used' : ~Esc(m)' /\ Count(m)' = 0 /\ intact'[m] = 0
    BY <1>1, <1>2, <1>5, <1>6 DEF Idle
  <2>4. QED
    BY <2>1, <2>2, <2>3 DEF Idle
<1>9. ASSUME NEW m \in Used'
      PROVE  Located(m)'
  <2>1. CASE m = l
    BY <1>6, <2>1
  <2>2. CASE m # l
    <3>1. m \in Lines /\ Located(m) /\ m \in Lines \ {l} /\ m \in Used \ {l}
      BY <1>1, <1>5, <2>2
    <3>2. QED
      BY <1>2, <1>4, <1>6, <3>1, LineStays
  <2>3. QED
    BY <2>1, <2>2
<1>10. QED
  BY <1>6, <1>7, <1>8, <1>9 DEF PacketInv

(* A byte is lost. *)
LEMMA DropKeeps ==
  ASSUME PacketInv, NEW l \in Used, Drop(l)
  PROVE  PacketInv'
<1>1. /\ PacketTypes /\ Idle /\ BacklogOK /\ Located(l) /\ l \in Lines
      /\ \A m \in Used : m \in Lines /\ Located(m)
  BY DEF PacketInv, Used, Lines
<1>2. /\ todo[l] # <<>> /\ todo' = [todo EXCEPT ![l] = Tail(todo[l])]
      /\ listening /\ dropped' = dropped + 1
      /\ intact' = [intact EXCEPT ![l] = 0] /\ Pass(<<>>)
      /\ UNCHANGED <<program, listening, packet, prev, len, rx, g_reader,
                     g_duplicate_backlog, g_duplicate_pos>>
  BY DEF Drop, sniffer, forwarder
<1>3. /\ todo \in [Lines -> Seq(Byte)] /\ todo[l] \in Seq(Byte)
      /\ Tail(todo[l]) \in Seq(Byte) /\ intact \in [Lines -> 0..2] /\ dropped \in Nat
  <2>1. todo[l] \in Seq(Byte) /\ todo \in [Lines -> Seq(Byte)]
          /\ intact \in [Lines -> 0..2] /\ dropped \in Nat
    BY <1>1 DEF PacketTypes
  <2>2. QED
    BY <1>2, <2>1
<1>4. /\ todo' \in [Lines -> Seq(Byte)] /\ todo'[l] = Tail(todo[l])
      /\ intact' \in [Lines -> 0..2] /\ intact'[l] = 0
      /\ dropped' \in Nat /\ dropped' # 0
      /\ \A m \in Lines \ {l} : todo'[m] = todo[m] /\ intact'[m] = intact[m]
  BY <1>1, <1>2, <1>3
<1>5. Used' = Used
  BY <1>2 DEF Used
<1>6. \A m \in Lines : Esc(m)' = Esc(m) /\ Count(m)' = Count(m) /\ Buf(m)' = Buf(m)
  BY <1>2 DEF Esc, Count, Buf
<1>7. PacketTypes'
  <2>1. (listening \in BOOLEAN /\ prev \in BOOLEAN)'
    BY <1>1, <1>2 DEF PacketTypes
  <2>2. QED
    BY <1>1, <1>2, <1>4, <2>1 DEF PacketTypes
<1>8. Idle'
  <2>1. \A m \in Lines : packet'[m] = <<>> => intact'[m] = 0
    BY <1>1, <1>2, <1>4 DEF Idle
  <2>2. \A m \in Lines \ Used' : packet'[m] = <<>>
    BY <1>1, <1>2, <1>5 DEF Idle
  <2>3. QED
    BY <1>2, <2>1, <2>2 DEF Idle
<1>9. BacklogOK'
  BY <1>1, <1>2, BacklogStays
<1>10. ASSUME NEW m \in Used'
       PROVE  Located(m)'
  <2>1. CASE m = l
    <3>1. Excused(l)'
      BY <1>4 DEF Excused
    <3>2. QED
      BY <1>1, <1>2, <1>4, <2>1, <3>1, ExcusedMoves
  <2>2. CASE m # l
    <3>1. m \in Lines /\ Located(m) /\ m \in Lines \ {l}
      BY <1>1, <1>5, <2>2
    <3>2. QED
      BY <1>2, <1>4, <1>6, <3>1, LineStays
  <2>3. QED
    BY <2>1, <2>2
<1>11. QED
  BY <1>7, <1>8, <1>9, <1>10 DEF PacketInv

(* The program is started. *)
LEMMA ListenKeeps ==
  ASSUME PacketInv, Listen \/ UNCHANGED packetVars
  PROVE  PacketInv'
<1>1. /\ PacketTypes /\ Idle /\ BacklogOK
      /\ \A m \in Used : m \in Lines /\ Located(m)
  BY DEF PacketInv, Used, Lines
<1>2. /\ UNCHANGED <<program, todo, packet, intact, dropped, prev, len, rx, g_reader,
                     g_duplicate_backlog, g_duplicate_pos>>
      /\ listening' = TRUE \/ listening' = listening
      /\ Pass(<<>>) \/ recent' = recent
  BY DEF Listen, packetVars, sniffer, forwarder
<1>3. PacketTypes'
  <2>1. (listening \in BOOLEAN /\ prev \in BOOLEAN)'
    BY <1>1, <1>2 DEF PacketTypes
  <2>2. QED
    BY <1>1, <1>2, <2>1 DEF PacketTypes
<1>4. Used' = Used
  BY <1>2 DEF Used
<1>5. \A m \in Lines : Esc(m)' = Esc(m) /\ Count(m)' = Count(m) /\ Buf(m)' = Buf(m)
  BY <1>2 DEF Esc, Count, Buf
<1>6. Idle'
  BY <1>1, <1>2, <1>4, <1>5 DEF Idle
<1>7. recent' = recent
  BY <1>1, <1>2, PassesNone
<1>8. BacklogOK'
  BY <1>1, <1>2, <1>7 DEF BacklogOK, SlotBack
<1>9. \A m \in Used' : Located(m)'
  BY <1>1, <1>2, <1>4, <1>5, LineStays
<1>10. QED
  BY <1>3, <1>6, <1>8, <1>9 DEF PacketInv

(* Wherever a line is, the program that reads it is there too. *)
LEMMA PacketInvariant == PacketSpec => []PacketInv
<1>1. PacketInit => PacketInv
  BY PacketStarts
<1>2. PacketInv /\ [PacketNext]_packetVars => PacketInv'
  <2> SUFFICES ASSUME PacketInv, [PacketNext]_packetVars
               PROVE  PacketInv'
    OBVIOUS
  <2>1. ASSUME NEW l \in Used, \E p \in Packets : Output(l, p)
        PROVE  PacketInv'
    BY <2>1, OutputKeeps
  <2>2. ASSUME NEW l \in Used, Transfer(l)
        PROVE  PacketInv'
    BY <2>2, TransferKeeps
  <2>3. ASSUME NEW l \in Used, Drop(l)
        PROVE  PacketInv'
    BY <2>3, DropKeeps
  <2>4. CASE Listen \/ UNCHANGED packetVars
    BY <2>4, ListenKeeps
  <2>5. QED
    BY <2>1, <2>2, <2>3, <2>4 DEF PacketNext, Used
<1>3. QED
  BY <1>1, <1>2, PTL DEF PacketSpec

-----------------------------------------------------------------------------
(* PacketLink: the theorem.                                                 *)

(* The last byte of a packet is where the program expects it. *)
LEMMA EndIsThere ==
  ASSUME PacketInv, NEW l \in Lines, packet[l] # <<>>
  PROVE  todo[l] = <<1>> => l \in Used /\ AtEnd(l)
<1> HAVE todo[l] = <<1>>
<1>1. PacketTypes /\ Idle /\ Size \in Nat
  BY PacketConstants DEF PacketInv
<1>2. l \in Used /\ Located(l)
  BY <1>1 DEF Idle, PacketInv
<1>3. todo[l] # <<>> /\ Head(todo[l]) = 1 /\ Tail(todo[l]) = <<>> /\ FF = 255
  BY DEF FF
<1>4. packet[l] \in Seq(Byte) /\ Len(packet[l]) = Size
  BY <1>1, PacketConstants DEF PacketTypes
<1>5. ASSUME NEW k \in Nat, Inside(l, k)
      PROVE  FALSE
  <2>1. k # Size
    BY <1>1, <1>3, <1>5, PacketMoves
  <2>2. /\ k + 1 \in 1..Size /\ Head(todo[l]) = packet[l][k + 1]
        /\ Tail(todo[l]) = Escaped(Rest(packet[l], k + 1)) \o <<FF, 1>>
    <3>1. /\ k + 1 \in 1..Size
          /\ IF packet[l][k + 1] = FF
             THEN Head(todo[l]) = FF
             ELSE /\ Head(todo[l]) = packet[l][k + 1]
                  /\ Tail(todo[l]) = Escaped(Rest(packet[l], k + 1)) \o <<FF, 1>>
      <4>1. PacketTypes /\ todo[l] # <<>>
        BY <1>1, <1>3, Zenon
      <4>2. QED
        BY <1>5, <2>1, <4>1, PacketMoves
    <3>2. packet[l][k + 1] # FF
      BY <1>3, <3>1
    <3>3. QED
      BY <3>1, <3>2
  <2>3. k + 1 \in 0..Len(packet[l])
    BY <1>4, <2>2
  <2>4. Escaped(Rest(packet[l], k + 1)) \in Seq(Byte)
    BY <1>4, <2>3, EscapedRest, Zenon
  <2>5. QED
    BY <1>3, <2>2, <2>4, NeverEmpty
<1>6. ASSUME NEW k \in Nat, Halfway(l, k)
      PROVE  FALSE
  <2>1. Head(todo[l]) = 0
    BY <1>1, <1>3, <1>6, PacketMoves
  <2>2. QED
    BY <1>3, <2>1
<1>7. QED
  BY <1>1, <1>2, <1>3, <1>5, <1>6, PacketMoves DEF Located, BeforeAll

(* The packet that ends is the one that the program has. *)
LEMMA ArrivesExactly ==
  ASSUME PacketInv, NEW l \in Lines, Ended(l), intact[l] = 2
  PROVE  \/ passed' = <<packet[l]>>
              /\ (program = "forwarder" => ~SentBefore(packet[l]))
         \/ passed' = <<>> /\ program = "forwarder"
              /\ (Crc32[Bytes(packet[l])] = 0 \/ SentBefore(packet[l]))
<1> DEFINE p == packet[l]
<1>1. todo[l] = <<1>> /\ p # <<>> /\ Transfer(l) /\ Head(todo[l]) = 1
  BY DEF Ended
<1>2. l \in Used /\ AtEnd(l) /\ Idle /\ PacketTypes
  BY <1>1, EndIsThere DEF PacketInv
<1>3. listening
  BY <1>2 DEF Idle
<1>4. PassesOn(l, 1)
  BY <1>1, <1>2, <1>3, TransferReads
<1>5. Esc(l) /\ Count(l) = Size /\ Buf(l) = First(p, Size)
  BY <1>2 DEF AtEnd, Precise
<1>6. First(p, Size) = p
  <2>1. p \in Seq(Byte) /\ Len(p) = Size
    BY <1>1, <1>2, PacketConstants DEF PacketTypes
  <2>2. QED
    BY <2>1, FirstAndRest
<1>7. QED
  BY <1>4, <1>5, <1>6 DEF PassesOn

(* What is passed on without losses is a packet that was sent. *)
LEMMA ArrivesWhole ==
  ASSUME PacketInv, PacketNext, dropped = 0, passed' # <<>>
  PROVE  \E l \in Lines :
           /\ Ended(l) /\ Bytes(passed'[1]) = Bytes(packet[l])
           /\ intact[l] > 0 => passed' = <<packet[l]>>
<1>1. PacketTypes /\ Idle /\ BacklogOK
  BY DEF PacketInv
<1>2. PICK l \in Used : Transfer(l)
  <2>1. \A l \in Lines : Drop(l) => passed' = <<>>
    BY <1>1, PassesNone DEF Drop
  <2>2. Listen => passed' = <<>>
    BY <1>1, PassesNone DEF Listen
  <2>3. \A l \in Lines : \A p \in Packets : Output(l, p) => passed' = <<>>
    BY DEF Output
  <2>4. \A l \in Used : l \in Lines
    BY DEF Used, Lines
  <2>5. QED
    BY <2>1, <2>2, <2>3, <2>4 DEF PacketNext, Used
<1>3. l \in Lines /\ Located(l) /\ todo[l] # <<>>
  BY <1>2 DEF PacketInv, Used, Lines, Transfer
<1>4. listening
  <2>1. SUFFICES ASSUME ~listening
                 PROVE  FALSE
    OBVIOUS
  <2>2. Pass(<<>>)
    BY <1>2, <2>1 DEF Transfer
  <2>3. QED
    BY <1>1, <2>2, PassesNone
<1>5. PassesOn(l, Head(todo[l]))
  BY <1>2, <1>4, TransferReads
<1>6. Esc(l) /\ Head(todo[l]) = 1 /\ Count(l) = Size /\ passed' = <<Buf(l)>>
  BY <1>5 DEF PassesOn
<1>7. AtEnd(l)
  <2>1. ~Between(l)
    BY <1>3 DEF Between
  <2>2. \A k \in Nat : ~Inside(l, k) /\ ~BeforeAll(l, k)
    BY <1>6 DEF Inside, BeforeAll
  <2>3. \A k \in Nat : ~Halfway(l, k)
    BY <1>1, <1>3, <1>6, PacketMoves
  <2>4. QED
    BY <1>3, <2>1, <2>2, <2>3 DEF Located
<1> DEFINE p == packet[l]
           q == Buf(l)
<1>8. Match(l, Size) /\ p # <<>> /\ todo[l] = <<1>>
  BY <1>6, <1>7 DEF AtEnd, MayMatch
<1>9. Ended(l)
  BY <1>2, <1>8 DEF Ended
<1>10. /\ p \in Seq(Byte) /\ Len(p) = Size /\ Size \in Nat /\ Size >= 2
       /\ q \in Seq(Byte) /\ Len(q) = Size
  <2>1. Size \in Nat /\ Size >= 2 /\ p \in Packets
    BY <1>1, <1>3, <1>8, PacketConstants DEF PacketTypes
  <2>2. QED
    BY <1>1, <1>3, <1>6, <2>1, PacketConstants, HasTypes
<1>11. \A j \in 1..Size : j > 1 \/ intact[l] > 0 => q[j] = p[j]
  BY <1>8 DEF Match
<1> HIDE DEF p, q
<1>12. Tail(q) = Tail(p)
  <2>1. p # <<>> /\ q # <<>>
    BY <1>10
  <2>2. /\ Tail(p) \in Seq(Byte) /\ Len(Tail(p)) = Size - 1
        /\ Tail(q) \in Seq(Byte) /\ Len(Tail(q)) = Size - 1
        /\ \A i \in 1 .. Size - 1 : Tail(p)[i] = p[i + 1] /\ Tail(q)[i] = q[i + 1]
    BY <1>10, <2>1, HeadTailProperties
  <2>3. \A i \in 1 .. Size - 1 : Tail(q)[i] = Tail(p)[i]
    <3> TAKE i \in 1 .. Size - 1
    <3>1. i + 1 \in 1..Size /\ i + 1 > 1
      BY <1>10
    <3>2. QED
      BY <1>11, <2>2, <3>1
  <2>4. QED
    BY <2>2, <2>3, SeqEqual
<1>13. intact[l] > 0 => q = p
  BY <1>10, <1>11, SeqEqual
<1>14. Bytes(passed'[1]) = Bytes(p) /\ (intact[l] > 0 => passed' = <<p>>)
  BY <1>6, <1>12, <1>13 DEF Bytes, q
<1>15. QED
  BY <1>3, <1>9, <1>14 DEF p

(* Two packets without losses are enough for the second to be recognised,   *)
(* by both programs: it is passed on as it was sent, unless its checksum is *)
(* that of one of the last that the forwarder sent, or zero; and without    *)
(* losses nothing else is passed on.                                        *)
THEOREM PacketLinkArriveOnce == PacketSpec => PacketsArriveOnce
<1> DEFINE P ==
      \A l \in Lines :
       /\ Ended(l) /\ intact[l] = 2 =>
            \/ passed' = <<packet[l]>>
                 /\ (program = "forwarder" => ~SentBefore(packet[l]))
            \/ passed' = <<>> /\ program = "forwarder"
                 /\ (Crc32[Bytes(packet[l])] = 0 \/ SentBefore(packet[l]))
       /\ dropped = 0 /\ passed' # <<>> =>
            \E k \in Lines :
              /\ Ended(k) /\ Bytes(passed'[1]) = Bytes(packet[k])
              /\ intact[k] > 0 => passed' = <<packet[k]>>
<1>1. PacketInv /\ [PacketNext]_packetVars => [P]_packetVars
  <2> SUFFICES ASSUME PacketInv, PacketNext
               PROVE  P
    BY Zenon
  <2>1. QED
    BY ArrivesExactly, ArrivesWhole
<1>2. QED
  BY <1>1, PacketInvariant, PTL DEF PacketSpec, PacketsArriveOnce
=============================================================================
