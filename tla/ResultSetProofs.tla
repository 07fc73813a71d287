-------------------------- MODULE ResultSetProofs --------------------------
(**************************************************************************)
(* Proofs about ResultSet and Conversion, for any widths of the integers, *)
(* any results and any number of executions, result sets and calls: what  *)
(* a result set of a prepared statement shows, that its buffer has the    *)
(* room, that its fetches leave the others alone, and that the parameter  *)
(* set last is sent. Each result set is Sound (its buffer), Showing (its  *)
(* row) and Placed (among the executions), and InStep with the statement  *)
(* while it is the one of the last execution. That the low bytes of a     *)
(* number can be replaced rests on powers of two dividing each other,     *)
(* which is shown by counting subsets.                                    *)
(**************************************************************************)
EXTENDS ResultSet, SequenceTheorems, FiniteSetTheorems, WellFoundedInduction, TLAPS

-----------------------------------------------------------------------------
(* Powers of two, division, and the greatest of some numbers.               *)

\* A set of n elements has 2 ^ n subsets.
LEMMA PowerCounts ==
    ASSUME NEW n \in Nat
    PROVE  IsFiniteSet(SUBSET (1 .. n)) /\ Cardinality(SUBSET (1 .. n)) = 2 ^ n
<1>1. IsFiniteSet(1 .. n) /\ Cardinality(1 .. n) = n
  BY FS_Interval
<1> QED
  BY <1>1, FS_SUBSET

LEMMA PowerPositive ==
    ASSUME NEW n \in Nat
    PROVE  2 ^ n \in Nat /\ 2 ^ n > 0
<1>1. /\ Cardinality(SUBSET (1 .. n)) \in Nat
      /\ Cardinality(SUBSET (1 .. n)) = 0 <=> SUBSET (1 .. n) = {}
  BY PowerCounts, FS_CardinalityType, FS_EmptySet
<1>2. {} \in SUBSET (1 .. n)
  OBVIOUS
<1>3. Cardinality(SUBSET (1 .. n)) # 0
  BY <1>1, <1>2
<1>4. Cardinality(SUBSET (1 .. n)) > 0
  BY <1>1, <1>3
<1>5. Cardinality(SUBSET (1 .. n)) = 2 ^ n
  BY PowerCounts
<1> QED
  BY <1>1, <1>4, <1>5, Zenon

\* A subset of 1 .. n + m is one of 1 .. n and one of 1 .. m.
LEMMA PowerAdds ==
    ASSUME NEW n \in Nat, NEW m \in Nat
    PROVE  2 ^ (n + m) = 2 ^ n * 2 ^ m
<1> DEFINE Low == SUBSET (1 .. n)
           High == SUBSET (1 .. m)
           Both == SUBSET (1 .. n + m)
           f == [p \in Low \X High |-> p[1] \cup {n + i : i \in p[2]}]
<1>1. f \in [Low \X High -> Both]
  <2>1. ASSUME NEW p \in Low \X High PROVE p[1] \cup {n + i : i \in p[2]} \in Both
    BY <2>1
  <2> QED
    BY <2>1
<1>2. ASSUME NEW p \in Low \X High, NEW q \in Low \X High, f[p] = f[q]
      PROVE  p = q
  <2>1. p[1] \cup {n + i : i \in p[2]} = q[1] \cup {n + i : i \in q[2]}
    BY <1>2
  <2>2. /\ p[1] \subseteq 1 .. n /\ q[1] \subseteq 1 .. n
        /\ p[2] \subseteq 1 .. m /\ q[2] \subseteq 1 .. m
    OBVIOUS
  <2>3. \A i \in 1 .. m : n + i \notin 1 .. n
    OBVIOUS
  <2>4. p[1] = q[1]
    <3>1. \A r \in Low \X High : r[1] = (r[1] \cup {n + i : i \in r[2]}) \cap (1 .. n)
      BY <2>3
    <3> QED
      BY <2>1, <3>1
  <2>5. p[2] = q[2]
    <3>1. \A r \in Low \X High : \A j \in 1 .. m :
            j \in r[2] <=> n + j \in r[1] \cup {n + i : i \in r[2]}
      <4> SUFFICES ASSUME NEW r \in Low \X High, NEW j \in 1 .. m
                   PROVE  j \in r[2] <=> n + j \in r[1] \cup {n + i : i \in r[2]}
        OBVIOUS
      <4>1. \A i \in 1 .. m : n + i = n + j => i = j
        OBVIOUS
      <4>2. r[2] \subseteq 1 .. m /\ r[1] \subseteq 1 .. n
        OBVIOUS
      <4> QED
        BY <2>3, <4>1, <4>2
    <3> QED
      BY <2>1, <2>2, <3>1
  <2> QED
    BY <2>4, <2>5
<1>3. ASSUME NEW b \in Both
      PROVE  \E p \in Low \X High : f[p] = b
  <2> DEFINE low == b \cap (1 .. n)
             high == {i \in 1 .. m : n + i \in b}
  <2>1. low \in Low /\ high \in High
    OBVIOUS
  <2>2. low \cup {n + i : i \in high} = b
    <3>1. ASSUME NEW x \in b, x \notin 1 .. n
          PROVE  x \in {n + i : i \in high}
      <4>1. x \in 1 .. n + m /\ x - n \in 1 .. m /\ n + (x - n) = x
        BY <3>1
      <4>2. x - n \in high
        BY <4>1
      <4> QED
        BY <4>1, <4>2
    <3> QED
      BY <3>1
  <2>3. <<low, high>> \in Low \X High
    BY <2>1
  <2>4. f[<<low, high>>] = low \cup {n + i : i \in high}
    BY <2>3
  <2> QED
    BY <2>2, <2>3, <2>4
<1> HIDE DEF f, Low, High, Both
<1>4. f \in Bijection(Low \X High, Both)
  <2>1. f \in Injection(Low \X High, Both)
    BY <1>1, <1>2 DEF Injection, IsInjective
  <2>2. f \in Surjection(Low \X High, Both)
    BY <1>1, <1>3 DEF Surjection
  <2> QED
    BY <2>1, <2>2 DEF Bijection
<1>5. /\ IsFiniteSet(Low) /\ Cardinality(Low) = 2 ^ n
      /\ IsFiniteSet(High) /\ Cardinality(High) = 2 ^ m
      /\ Cardinality(Both) = 2 ^ (n + m)
  <2>1. n + m \in Nat
    OBVIOUS
  <2> QED
    BY <2>1, PowerCounts, Zenon DEF Low, High, Both
<1>6. IsFiniteSet(Low \X High) /\ Cardinality(Low \X High) = 2 ^ n * 2 ^ m
  BY <1>5, FS_Product
<1>7. ExistsBijection(Low \X High, Both)
  BY <1>4 DEF ExistsBijection
<1>8. Cardinality(Both) = Cardinality(Low \X High)
  BY <1>6, <1>7, FS_Bijection
<1> QED
  BY <1>5, <1>6, <1>8

LEMMA TwoToOne == 2 ^ 1 = 2
OBVIOUS

\* Every size has an even number of patterns, and a larger one at least twice as
\* many, a multiple.
LEMMA Widths ==
    /\ \A size \in Sizes : \E h \in Nat \ {0} : Patterns(size) = 2 * h
    /\ \A n, m \in Sizes : Bits[n] < Bits[m] =>
          \E h \in Nat \ {0} : Patterns(m) = 2 * h * Patterns(n)
<1>1. ASSUME NEW b \in Nat \ {0}
      PROVE  2 ^ b = 2 * 2 ^ (b - 1) /\ 2 ^ (b - 1) \in Nat \ {0}
  <2>1. b - 1 \in Nat /\ 1 + (b - 1) = b
    OBVIOUS
  <2>2. 2 ^ (1 + (b - 1)) = 2 ^ 1 * 2 ^ (b - 1)
    BY <2>1, PowerAdds
  <2>3. 2 ^ (b - 1) \in Nat /\ 2 ^ (b - 1) > 0
    BY <2>1, PowerPositive
  <2> QED
    BY <2>1, <2>2, <2>3, TwoToOne
<1>2. ASSUME NEW size \in Sizes
      PROVE  \E h \in Nat \ {0} : Patterns(size) = 2 * h
  <2>1. Bits[size] \in Nat \ {0}
    BY ConversionAssumption
  <2> QED
    BY <1>1, <2>1, Zenon DEF Patterns
<1>3. ASSUME NEW n \in Sizes, NEW m \in Sizes, Bits[n] < Bits[m]
      PROVE  \E h \in Nat \ {0} : Patterns(m) = 2 * h * Patterns(n)
  <2> DEFINE a == Bits[n]
             b == Bits[m] - Bits[n]
  <2>1. a \in Nat /\ b \in Nat \ {0} /\ Bits[m] = b + a
    <3>1. Bits[n] \in Nat /\ Bits[m] \in Nat
      BY ConversionAssumption
    <3> QED
      BY <1>3, <3>1
  <2> HIDE DEF a, b
  <2>2. 2 ^ (b + a) = 2 ^ b * 2 ^ a
    BY <2>1, PowerAdds
  <2>3. 2 ^ b = 2 * 2 ^ (b - 1) /\ 2 ^ (b - 1) \in Nat \ {0}
    BY <1>1, <2>1
  <2>4. Patterns(m) = 2 * 2 ^ (b - 1) * Patterns(n)
    BY <2>1, <2>2, <2>3 DEF Patterns, a
  <2> QED
    BY <2>3, <2>4
<1> QED
  BY <1>2, <1>3

LEMMA Remainders ==
    ASSUME NEW p \in Nat \ {0}, NEW q \in Int, NEW r \in 0 .. p - 1
    PROVE  (p * q + r) % p = r
BY SMTT(30)

\* A remainder is below the divisor, and the rest is a multiple of it.
LEMMA Division ==
    ASSUME NEW p \in Nat \ {0}, NEW u \in Nat
    PROVE  \E q \in Nat, r \in 0 .. p - 1 : u = p * q + r /\ u % p = r
<1> DEFINE Rests == {x \in Nat : \E q \in Nat : u = p * q + x}
<1>1. Rests \subseteq Nat /\ Rests # {}
  <2>1. u = p * 0 + u
    OBVIOUS
  <2> QED
    BY <2>1
<1>2. PICK x \in Rests : \A y \in Rests : ~(<<y, x>> \in OpToRel(<, Nat))
  BY <1>1, NatLessThanWellFounded, WFMin
<1>3. \A y \in Rests : ~(y < x)
  BY <1>1, <1>2 DEF OpToRel
<1>4. PICK q \in Nat : u = p * q + x
  OBVIOUS
<1>5. x < p
  <2> SUFFICES ASSUME x >= p PROVE FALSE
    OBVIOUS
  <2>1. x - p \in Nat /\ x - p < x
    BY <1>1
  <2>2. p * (q + 1) = p * q + p
    OBVIOUS
  <2>3. p * q \in Nat
    OBVIOUS
  <2>4. u = p * (q + 1) + (x - p)
    BY <1>1, <1>4, <2>2, <2>3
  <2>5. x - p \in Rests
    BY <2>1, <2>4
  <2> QED
    BY <1>3, <2>1, <2>5
<1>6. x \in 0 .. p - 1
  BY <1>1, <1>5
<1>7. (p * q + x) % p = x
  BY <1>6, Remainders
<1> QED
  BY <1>4, <1>6, <1>7

-----------------------------------------------------------------------------
(* What a getter makes of a number, for every choice of Bits.               *)

LEMMA PatternsOf ==
    ASSUME NEW size \in Sizes
    PROVE  /\ Patterns(size) \in Nat \ {0}
           /\ Patterns(size) \div 2 \in Nat /\ Patterns(size) = 2 * (Patterns(size) \div 2)
           /\ Patterns(size) >= 2
<1>1. PICK h \in Nat \ {0} : Patterns(size) = 2 * h
  BY Widths
<1>2. (2 * h) \div 2 = h
  OBVIOUS
<1> QED
  BY <1>1, <1>2

\* A larger size has at least twice as many patterns.
LEMMA PatternsGrow ==
    ASSUME NEW n \in Sizes, NEW m \in Sizes, Bits[n] < Bits[m]
    PROVE  Patterns(m) >= 2 * Patterns(n)
<1>1. PICK h \in Nat \ {0} : Patterns(m) = 2 * h * Patterns(n)
  BY Widths
<1>2. ASSUME NEW p \in Nat PROVE 2 * h * p >= 2 * p
  BY Z3
<1>3. Patterns(n) \in Nat
  BY PatternsOf
<1> QED
  BY <1>1, <1>2, <1>3

\* The largest size has a multiple of the patterns of every size.
LEMMA LongestIsMultiple ==
    ASSUME NEW size \in Sizes
    PROVE  /\ \E k \in Nat \ {0} : Patterns("longlong") = Patterns(size) * k
           /\ Patterns(size) <= Patterns("longlong")
<1>1. size = "longlong" \/ Bits[size] < Bits["longlong"]
  BY ConversionAssumption DEF Sizes
<1>2. "longlong" \in Sizes
  BY DEF Sizes
<1>3. Patterns(size) \in Nat
  BY PatternsOf
<1>4. CASE size = "longlong"
  <2>1. Patterns("longlong") = Patterns(size) * 1
    BY <1>3, <1>4
  <2> QED
    BY <1>3, <1>4, <2>1
<1>5. CASE Bits[size] < Bits["longlong"]
  <2>1. PICK h \in Nat \ {0} : Patterns("longlong") = 2 * h * Patterns(size)
    BY <1>2, <1>5, Widths
  <2>2. 2 * h \in Nat \ {0} /\ Patterns("longlong") = Patterns(size) * (2 * h)
    BY <1>3, <2>1
  <2>3. Patterns("longlong") >= 2 * Patterns(size)
    BY <1>2, <1>5, PatternsGrow
  <2> QED
    BY <1>3, <2>2, <2>3
<1> QED
  BY <1>1, <1>4, <1>5

LEMMA RemainderRange ==
    ASSUME NEW p \in Nat \ {0}, NEW v \in Int
    PROVE  v % p \in 0 .. p - 1
<1>1. v % p \in Int
  BY SMTT(30)
<1>2. 0 <= v % p
  BY SMTT(30)
<1>3. v % p < p
  BY SMTT(30)
<1> QED
  BY <1>1, <1>2, <1>3

\* A fetch writes the number modulo its patterns, and leaves the union within its bytes.
LEMMA WrittenLow ==
    ASSUME NEW u \in 0 .. Patterns("longlong") - 1, NEW v \in Int, NEW size \in Sizes
    PROVE  /\ WriteLow(u, v, size) \in 0 .. Patterns("longlong") - 1
           /\ WriteLow(u, v, size) % Patterns(size) = v % Patterns(size)
<1> DEFINE p == Patterns(size)
           w == v % p
<1>1. p \in Nat \ {0} /\ "longlong" \in Sizes /\ Patterns("longlong") \in Nat
  BY PatternsOf DEF Sizes
<1>2. w \in 0 .. p - 1
  BY <1>1, RemainderRange
<1>3. u \in Nat
  BY <1>1
<1> HIDE DEF p, w
<1>4. PICK q \in Nat, r \in 0 .. p - 1 : u = p * q + r /\ u % p = r
  BY <1>1, <1>3, Division
<1>5. WriteLow(u, v, size) = p * q + w
  <2>1. WriteLow(u, v, size) = (u - (u % p)) + w
    BY Zenon DEF WriteLow, p, w
  <2>2. \A m \in Nat : ((m + r) - r) + w = m + w
    BY <1>2
  <2>3. p * q \in Nat
    BY <1>1
  <2>4. ((p * q + r) - r) + w = p * q + w
    BY <2>2, <2>3, Zenon
  <2> QED
    BY <1>4, <2>1, <2>4, Zenon
<1>6. (p * q + w) % p = w
  BY <1>1, <1>2, Remainders
<1>7. PICK k \in Nat \ {0} : Patterns("longlong") = p * k
  BY LongestIsMultiple DEF p
<1>8. q < k
  <2> SUFFICES ASSUME q >= k PROVE FALSE
    OBVIOUS
  <2>1. p * q >= p * k
    <3>1. PICK d \in Nat : q = k + d
      <4>1. q - k \in Nat /\ q = k + (q - k)
        OBVIOUS
      <4> QED
        BY <4>1
    <3>2. p * q = p * k + p * d /\ p * d \in Nat /\ p * k \in Nat
      BY <1>1, <3>1
    <3> QED
      BY <3>2
  <2>2. p * q \in Nat /\ p * k \in Nat
    BY <1>1
  <2> QED
    BY <1>1, <1>4, <1>7, <2>1, <2>2
<1>9. p * q + w < p * k
  <2>1. PICK d \in Nat : k = q + 1 + d
    <3>1. k - q - 1 \in Nat /\ k = q + 1 + (k - q - 1)
      BY <1>8
    <3> QED
      BY <3>1
  <2>2. p * k = p * q + p + p * d /\ p * d \in Nat /\ p * q \in Nat /\ p * k \in Nat
    BY <1>1, <2>1
  <2> QED
    BY <1>1, <1>2, <2>2
<1>10. p * q + w \in Nat
  BY <1>1, <1>2
<1>11. WriteLow(u, v, size) \in 0 .. Patterns("longlong") - 1
  BY <1>1, <1>5, <1>7, <1>9, <1>10
<1> QED
  BY <1>5, <1>6, <1>11 DEF p, w

LEMMA LimitsOf ==
    ASSUME NEW type \in IntTypes
    PROVE  /\ type.size \in Sizes /\ type.signed \in BOOLEAN
           /\ Lowest(type) \in Int /\ Highest(type) \in Nat
           /\ Patterns(type.size) \in Nat
           /\ type.signed => /\ Patterns(type.size) = 2 * (Highest(type) + 1)
                             /\ Lowest(type) = -(Highest(type) + 1)
           /\ ~type.signed => Lowest(type) = 0 /\ Patterns(type.size) = Highest(type) + 1
<1>1. type.size \in Sizes /\ type.signed \in BOOLEAN
  BY DEF IntTypes
<1>2. /\ Patterns(type.size) \in Nat \ {0} /\ Patterns(type.size) >= 2
      /\ Patterns(type.size) \div 2 \in Nat
      /\ Patterns(type.size) = 2 * (Patterns(type.size) \div 2)
  BY <1>1, PatternsOf
<1> QED
  BY <1>1, <1>2 DEF Lowest, Highest

LEMMA NamedNumbers ==
    ASSUME NEW type \in IntTypes, NEW name \in NumberNames
    PROVE  NumberOf(name, type) \in Int
<1>1. Lowest(type) \in Int /\ Highest(type) \in Int
  BY LimitsOf
<1>2. CASE name = "lowest"
  BY <1>1, <1>2, Zenon DEF NumberOf
<1>3. CASE name = "minus one"
  <2>1. NumberOf(name, type) = IF type.signed THEN -1 ELSE 1
    BY <1>3 DEF NumberOf
  <2> QED
    BY <2>1
<1>4. CASE name = "zero"
  BY <1>4 DEF NumberOf
<1>5. CASE name = "one"
  BY <1>5 DEF NumberOf
<1>6. CASE name = "highest"
  BY <1>1, <1>6 DEF NumberOf
<1> QED
  BY <1>2, <1>3, <1>4, <1>5, <1>6 DEF NumberNames

\* The low bytes of a number that fits: itself, or its complement.
LEMMA LowBytes ==
    ASSUME NEW type \in IntTypes, NEW v \in Int, Fits(v, type)
    PROVE  v % Patterns(type.size) = IF v < 0 THEN v + Patterns(type.size) ELSE v
<1> DEFINE p == Patterns(type.size)
<1>1. p \in Nat \ {0}
  BY PatternsOf DEF IntTypes
<1>2. -p <= v /\ v < p
  BY LimitsOf, <1>1 DEF Fits
<1> HIDE DEF p
<1>3. CASE v < 0
  <2>1. v + p \in 0 .. p - 1
    BY <1>1, <1>2, <1>3
  <2>2. (p * (-1) + (v + p)) % p = v + p
    BY <1>1, <2>1, Remainders
  <2>3. p * (-1) + (v + p) = v
    BY <1>1
  <2>4. v % p = v + p
    BY <2>2, <2>3
  <2> QED
    BY <1>3, <2>4 DEF p
<1>4. CASE v >= 0
  <2>1. v \in 0 .. p - 1
    BY <1>1, <1>2, <1>4
  <2>2. (p * 0 + v) % p = v
    BY <1>1, <2>1, Remainders
  <2>3. p * 0 + v = v
    BY <1>1
  <2>4. v % p = v
    BY <2>2, <2>3
  <2> QED
    BY <1>4, <2>4 DEF p
<1> QED
  BY <1>3, <1>4

LEMMA StatementReads ==
    ASSUME NEW type \in IntTypes, NEW v \in Int, Fits(v, type), NEW u \in Nat,
           u % Patterns(type.size) = v % Patterns(type.size)
    PROVE  ThroughStatement(u, type) =
             IF v < 0 /\ type.size \in {"tiny", "short"} THEN 0 ELSE v
<1> DEFINE low == u % Patterns(type.size)
<1>1. low = IF v < 0 THEN v + Patterns(type.size) ELSE v
  BY LowBytes
<1> HIDE DEF low
<1>2. Lowest(type) <= v /\ v <= Highest(type)
  BY DEF Fits
<1>3. CASE type.signed /\ type.size \in {"long", "longlong"}
  <2>1. ThroughStatement(u, type) = AsSigned(low, type.size)
    BY <1>3 DEF ThroughStatement, low
  <2>2. AsSigned(low, type.size) = v
    BY <1>1, <1>2, <1>3, LimitsOf DEF AsSigned
  <2> QED
    BY <1>3, <2>1, <2>2
<1>4. CASE ~(type.signed /\ type.size \in {"long", "longlong"})
  <2>1. ThroughStatement(u, type) = CheckedCast(low, type)
    BY <1>4 DEF ThroughStatement, low
  <2>2. CASE v >= 0
    <3>1. low = v /\ Fits(low, type)
      BY <1>1, <2>2
    <3> QED
      BY <2>1, <2>2, <3>1 DEF CheckedCast
  <2>3. CASE v < 0
    <3>1. type.signed /\ type.size \in {"tiny", "short"}
      BY <1>2, <1>4, <2>3, LimitsOf DEF Sizes
    <3>2. low > Highest(type)
      BY <1>1, <1>2, <2>3, <3>1, LimitsOf
    <3>3. ~Fits(low, type)
      BY <1>1, <2>3, <3>2, LimitsOf DEF Fits
    <3> QED
      BY <2>1, <2>3, <3>1, <3>3 DEF CheckedCast
  <2> QED
    BY <2>2, <2>3
<1> QED
  BY <1>3, <1>4

LEMMA TextReads ==
    ASSUME NEW type \in IntTypes, NEW v \in Int, Fits(v, type)
    PROVE  ThroughText(v, type) = {v}
<1>1. Lowest(type) <= v /\ v <= Highest(type)
  BY DEF Fits
<1>2. CASE type.size = "longlong" /\ type.signed
  BY <1>2 DEF ThroughText
<1>3. CASE type.size \in {"long", "longlong"} /\ ~type.signed
  <2>1. ThroughText(v, type) = {CheckedCast(v % Patterns("longlong"), type)}
    BY <1>3 DEF ThroughText
  <2>2. 0 <= v /\ v < Patterns(type.size) /\ Patterns(type.size) <= Patterns("longlong")
    BY <1>1, <1>3, LimitsOf, LongestIsMultiple
  <2> DEFINE p == Patterns("longlong")
  <2>3. p \in Nat \ {0} /\ Patterns(type.size) \in Nat
    BY PatternsOf, LimitsOf DEF Sizes
  <2>4. v \in 0 .. p - 1
    BY <2>2, <2>3
  <2> HIDE DEF p
  <2>5. (p * 0 + v) % p = v /\ p * 0 + v = v
    BY <2>3, <2>4, Remainders
  <2>6. v % Patterns("longlong") = v
    BY <2>5 DEF p
  <2> QED
    BY <2>1, <2>6 DEF CheckedCast
<1>4. CASE type.size \in {"tiny", "short"} \/ (type.size = "long" /\ type.signed)
  <2>1. ThroughText(v, type) = {CheckedCast(x, type) : x \in {y \in {v} : Fits(y, Int32)}}
    BY <1>4 DEF ThroughText
  <2>2. Int32 \in IntTypes /\ Int32.size = "long" /\ Int32.signed
    BY DEF Int32, IntTypes, Sizes
  <2>3. /\ Patterns("long") = 2 * (Highest(Int32) + 1)
        /\ Lowest(Int32) = -(Highest(Int32) + 1) /\ Highest(Int32) \in Nat
    BY <2>2, LimitsOf
  <2>4. Fits(v, Int32)
    <3>1. CASE type.size = "long" /\ type.signed
      BY <1>1, <2>3, <3>1, LimitsOf DEF Fits
    <3>2. CASE type.size \in {"tiny", "short"}
      <4>1. Patterns("long") >= 2 * Patterns(type.size)
        <5>1. /\ "long" \in Sizes /\ "short" \in Sizes /\ "tiny" \in Sizes
              /\ Bits \in [Sizes -> Nat]
          BY ConversionAssumption DEF Sizes
        <5>2. Bits[type.size] < Bits["long"]
          BY <3>2, <5>1, ConversionAssumption
        <5> QED
          BY <5>1, <5>2, PatternsGrow, LimitsOf
      <4>2. v < Patterns(type.size) /\ -Patterns(type.size) <= v
        BY <1>1, LimitsOf
      <4> QED
        BY <2>3, <4>1, <4>2, LimitsOf DEF Fits
    <3> QED
      BY <1>4, <3>1, <3>2
  <2>5. {y \in {v} : Fits(y, Int32)} = {v} /\ CheckedCast(v, type) = v
    BY <2>4 DEF CheckedCast
  <2> QED
    BY <2>1, <2>5
<1> QED
  BY <1>2, <1>3, <1>4, LimitsOf DEF Sizes

LEMMA BooleanReads ==
    ASSUME NEW v \in {0, 1}, NEW u \in Nat, u % Patterns("tiny") = v % Patterns("tiny")
    PROVE  BooleanThroughText(v) = BooleanThroughStatement(u)
<1> DEFINE p == Patterns("tiny")
<1>1. p \in Nat /\ p >= 2
  BY PatternsOf DEF Sizes
<1> HIDE DEF p
<1>2. (p * 0 + v) % p = v /\ p * 0 + v = v
  BY <1>1, Remainders
<1>3. v % Patterns("tiny") = v
  BY <1>2 DEF p
<1>4. BooleanThroughStatement(u) <=> v # 0
  BY <1>3 DEF BooleanThroughStatement
<1> QED
  BY <1>4 DEF BooleanThroughText, BooleanThroughStatement

-----------------------------------------------------------------------------
(* Rows, and the greatest length of their texts.                            *)

AllRows == Results \cup {<<>>}

IsText(t) == t \in Seq(Bytes \ {Unwritten})

LEMMA Bounds ==
    /\ MaxExecutions \in Nat /\ MaxResultSets \in Nat /\ MaxOutdated \in Nat
    /\ MaxSets \in Nat /\ MaxSetExecutions \in Nat /\ MaxSetExecutions <= MaxExecutions
BY ResultSetAssumption

LEMMA RowsOf ==
    ASSUME NEW r \in AllRows
    PROVE  /\ Len(r) \in Nat /\ DOMAIN r = 1 .. Len(r)
           /\ \A i \in 1 .. Len(r) :
                /\ r[i].text = Null \/ IsText(r[i].text)
                /\ r[i].number = Null \/ r[i].number \in NumberNames
<1>1. CASE r \in Results
  <2>1. r \in Seq({r[i] : i \in DOMAIN r})
    BY <1>1, ResultSetAssumption
  <2>2. Len(r) \in Nat /\ DOMAIN r = 1 .. Len(r)
    BY <2>1, LenProperties
  <2> QED
    BY <1>1, <2>2, ResultSetAssumption DEF IsText
<1>2. CASE r = <<>>
  BY <1>2
<1> QED
  BY <1>1, <1>2 DEF AllRows

LEMMA MinOfTwo ==
    ASSUME NEW m \in Int, NEW n \in Int
    PROVE  Min({m, n}) = IF m <= n THEN m ELSE n
BY DEF Min

\* A finite sequence of numbers has a bound.
LEMMA LengthsBounded ==
    ASSUME NEW n \in Nat, NEW S \in SUBSET Nat, NEW f \in [1 .. n -> S]
    PROVE  \E b \in Nat : \A i \in 1 .. n : f[i] <= b
<1> DEFINE Left == {k \in 0 .. n : \E b \in Nat : \A i \in 1 .. (n - k) : f[i] <= b}
<1>1. n \in Left
  <2>1. 0 \in Nat /\ \A i \in 1 .. (n - n) : f[i] <= 0
    OBVIOUS
  <2> QED
    BY <2>1
<1>2. Left \subseteq 0 .. n /\ Left \subseteq Nat /\ Left # {}
  <2>1. Left \subseteq 0 .. n
    BY Zenon
  <2> HIDE DEF Left
  <2> QED
    BY <1>1, <2>1
<1>3. PICK k \in Left : \A j \in Left : ~(<<j, k>> \in OpToRel(<, Nat))
  BY <1>2, NatLessThanWellFounded, WFMin
<1>4. \A j \in Left : ~(j < k)
  BY <1>2, <1>3 DEF OpToRel
<1>5. PICK b \in Nat : \A i \in 1 .. (n - k) : f[i] <= b
  OBVIOUS
<1>6. k = 0
  <2> SUFFICES ASSUME k # 0 PROVE FALSE
    OBVIOUS
  <2>1. /\ k \in 0 .. n /\ k - 1 \in 0 .. n /\ k - 1 < k
        /\ n - (k - 1) = (n - k) + 1 /\ n - (k - 1) \in 1 .. n
    <3>1. k \in 0 .. n
      BY <1>2
    <3> HIDE DEF Left
    <3> QED
      BY <3>1
  <2>2. f[n - (k - 1)] \in Nat
    BY <2>1
  <2>3. PICK c \in Nat : c >= b /\ c >= f[n - (k - 1)]
    <3>1. CASE b >= f[n - (k - 1)]
      BY <2>2, <3>1
    <3>2. CASE f[n - (k - 1)] >= b
      BY <2>2, <3>2
    <3> QED
      BY <2>2, <3>1, <3>2
  <2>4. ASSUME NEW i \in 1 .. (n - (k - 1)) PROVE f[i] <= c
    <3>1. i \in 1 .. n /\ f[i] \in Nat
      <4>1. i \in 1 .. n
        BY <2>1, k \in Nat, n - (k - 1) \in Nat
      <4> HIDE DEF Left
      <4> QED
        BY <4>1
    <3>2. CASE i = n - (k - 1)
      BY <2>3, <3>2
    <3>3. CASE i # n - (k - 1)
      <4>1. i \in 1 .. (n - k)
        BY <2>1, <3>3
      <4> QED
        BY <1>5, <2>3, <3>1, <4>1
    <3> QED
      BY <3>2, <3>3
  <2>5. k - 1 \in Left
    BY <2>1, <2>4
  <2> QED
    BY <1>4, <2>1, <2>5
<1> QED
  BY <1>5, <1>6

\* Numbers with a bound have a greatest.
LEMMA GreatestExists ==
    ASSUME NEW S \in SUBSET Nat, S # {}, NEW b \in Nat, \A x \in S : x <= b
    PROVE  Max(S) \in S /\ \A x \in S : x <= Max(S)
<1> DEFINE Below == {b - x : x \in S}
<1>1. Below \subseteq Nat /\ Below # {}
  <2>1. \A x \in S : b - x \in Nat
    OBVIOUS
  <2> QED
    BY <2>1
<1>2. PICK y \in Below : \A z \in Below : ~(<<z, y>> \in OpToRel(<, Nat))
  BY <1>1, NatLessThanWellFounded, WFMin
<1>3. \A z \in Below : ~(z < y)
  BY <1>1, <1>2 DEF OpToRel
<1>4. PICK m \in S : y = b - m
  OBVIOUS
<1>5. ASSUME NEW x \in S PROVE m >= x
  <2>1. b - x \in Below /\ ~(b - x < y)
    BY <1>3
  <2> QED
    BY <1>4, <2>1
<1>6. Max(S) \in S /\ \A x \in S : Max(S) >= x
  BY <1>5 DEF Max
<1> QED
  BY <1>6

\* With stored rows, every text fits into the buffer of its result set.
LEMMA MaxLengthBounds ==
    ASSUME NEW r \in AllRows
    PROVE  /\ MaxLength(r) \in Nat
           /\ ~store => MaxLength(r) = 0
           /\ store => \A i \in 1 .. Len(r) :
                r[i].text # Null => Len(r[i].text) <= MaxLength(r)
<1> DEFINE Size(i) == IF r[i].text = Null THEN 0 ELSE Len(r[i].text)
           S == {Len(t) : t \in Texts(r)} \cup {0}
<1>1. /\ Len(r) \in Nat /\ DOMAIN r = 1 .. Len(r)
      /\ \A i \in 1 .. Len(r) : r[i].text # Null => Len(r[i].text) \in Nat
  BY RowsOf DEF IsText
<1>2. S \subseteq Nat /\ S # {}
  BY <1>1 DEF Texts
<1>3. [i \in 1 .. Len(r) |-> Size(i)] \in [1 .. Len(r) -> Nat]
  BY <1>1
<1>4. PICK b \in Nat : \A i \in 1 .. Len(r) : [j \in 1 .. Len(r) |-> Size(j)][i] <= b
  BY <1>1, <1>3, LengthsBounded
<1>5. \A x \in S : x <= b
  <2>1. \A i \in 1 .. Len(r) : Size(i) <= b
    BY <1>4
  <2>2. ASSUME NEW i \in DOMAIN r, r[i].text # Null PROVE Len(r[i].text) <= b
    BY <1>1, <2>1, <2>2
  <2> QED
    BY <1>1, <2>2 DEF Texts
<1>6. Max(S) \in S /\ \A x \in S : x <= Max(S)
  BY <1>2, <1>5, GreatestExists
<1>7. \A i \in 1 .. Len(r) : r[i].text # Null => Len(r[i].text) \in S
  BY <1>1 DEF Texts
<1>8. MaxLength(r) = IF store THEN Max(S) ELSE 0
  BY DEF MaxLength
<1> HIDE DEF S
<1>9. MaxLength(r) \in Nat
  <2>1. Max(S) \in Nat
    BY <1>2, <1>6, Zenon
  <2>2. CASE store
    BY <1>8, <2>1, <2>2
  <2>3. CASE ~store
    BY <1>8, <2>3
  <2> QED
    BY <2>2, <2>3
<1>10. ~store => MaxLength(r) = 0
  BY <1>8
<1>11. ASSUME store, NEW i \in 1 .. Len(r), r[i].text # Null
       PROVE  Len(r[i].text) <= MaxLength(r)
  BY <1>6, <1>7, <1>8, <1>11
<1> QED
  BY <1>9, <1>10, <1>11

-----------------------------------------------------------------------------
(* Bytes written over the beginning of a buffer.                            *)

LEMMA OverWrites ==
    ASSUME NEW data \in Seq(Bytes), NEW bytes \in Seq(Bytes), Len(bytes) <= Len(data)
    PROVE  /\ Over(data, bytes) \in Seq(Bytes)
           /\ Len(Over(data, bytes)) = Len(data)
           /\ SubSeq(Over(data, bytes), 1, Len(bytes)) = bytes
<1> DEFINE rest == SubSeq(data, Len(bytes) + 1, Len(data))
<1>1. Len(data) \in Nat /\ Len(bytes) \in Nat
  BY LenProperties
<1>2. \A i \in Len(bytes) + 1 .. Len(data) : data[i] \in Bytes
  BY <1>1, ElementOfSeq
<1>3. /\ rest \in Seq(Bytes)
      /\ Len(rest) = IF Len(bytes) + 1 <= Len(data) THEN Len(data) - (Len(bytes) + 1) + 1 ELSE 0
  BY <1>1, <1>2, SubSeqProperties
<1>4. Len(rest) = Len(data) - Len(bytes)
  BY <1>1, <1>3
<1>5. Over(data, bytes) = bytes \o rest
  BY DEF Over
<1> HIDE DEF rest
<1>6. /\ bytes \o rest \in Seq(Bytes) /\ Len(bytes \o rest) = Len(bytes) + Len(rest)
      /\ \A i \in 1 .. Len(bytes) + Len(rest) : (bytes \o rest)[i] =
            IF i <= Len(bytes) THEN bytes[i] ELSE rest[i - Len(bytes)]
  BY <1>3, ConcatProperties
<1>7. \A i \in 1 .. Len(bytes) : (bytes \o rest)[i] = bytes[i]
  BY <1>1, <1>4, <1>6
<1>8. SubSeq(bytes \o rest, 1, Len(bytes)) = bytes
  <2>1. \A i \in 1 .. Len(bytes) : (bytes \o rest)[i] \in Bytes
    BY <1>7, ElementOfSeq
  <2>2. /\ SubSeq(bytes \o rest, 1, Len(bytes)) \in Seq(Bytes)
        /\ Len(SubSeq(bytes \o rest, 1, Len(bytes))) =
             IF 1 <= Len(bytes) THEN Len(bytes) - 1 + 1 ELSE 0
        /\ \A i \in 1 .. Len(bytes) - 1 + 1 :
             SubSeq(bytes \o rest, 1, Len(bytes))[i] = (bytes \o rest)[1 + i - 1]
    BY <1>1, <2>1, SubSeqProperties
  <2>3. Len(SubSeq(bytes \o rest, 1, Len(bytes))) = Len(bytes)
    BY <1>1, <2>2
  <2>4. \A i \in 1 .. Len(bytes) : SubSeq(bytes \o rest, 1, Len(bytes))[i] = bytes[i]
    <3>1. \A i \in 1 .. Len(bytes) : i \in 1 .. Len(bytes) - 1 + 1 /\ 1 + i - 1 = i
      BY <1>1
    <3> QED
      BY <1>7, <2>2, <3>1
  <2> QED
    BY <2>2, <2>3, <2>4, SeqEqual
<1> QED
  BY <1>1, <1>4, <1>5, <1>6, <1>8

\* What is written of a text: as much of it as there is room for.
LEMMA Written ==
    ASSUME NEW t, IsText(t), NEW room \in Nat
    PROVE  /\ Len(t) \in Nat
           /\ SubSeq(t, 1, Min({Len(t), room})) \in Seq(Bytes)
           /\ Len(SubSeq(t, 1, Min({Len(t), room}))) <= room
           /\ Len(t) <= room => SubSeq(t, 1, Min({Len(t), room})) = t
           /\ room = 0 => SubSeq(t, 1, Min({Len(t), room})) = <<>>
<1> DEFINE n == Min({Len(t), room})
<1>1. t \in Seq(Bytes) /\ Len(t) \in Nat
  BY LenProperties, SeqMonotonic DEF IsText
<1>2. n = IF Len(t) <= room THEN Len(t) ELSE room
  BY <1>1, MinOfTwo
<1> HIDE DEF n
<1>3. \A i \in 1 .. n : t[i] \in Bytes
  BY <1>1, <1>2, ElementOfSeq
<1>4. /\ SubSeq(t, 1, n) \in Seq(Bytes)
      /\ Len(SubSeq(t, 1, n)) = IF 1 <= n THEN n - 1 + 1 ELSE 0
  BY <1>1, <1>2, <1>3, SubSeqProperties
<1>5. Len(SubSeq(t, 1, n)) <= room
  BY <1>1, <1>2, <1>4
<1>6. Len(t) <= room => SubSeq(t, 1, n) = t
  BY <1>1, <1>2, SubSeqFull
<1>7. room = 0 => SubSeq(t, 1, n) = <<>>
  BY <1>1, <1>2, SubSeqEmpty
<1> QED
  BY <1>1, <1>4, <1>5, <1>6, <1>7 DEF n

LEMMA UnwrittenBytes ==
    ASSUME NEW n \in Nat
    PROVE  /\ [i \in 1 .. n |-> Unwritten] \in Seq(Bytes)
           /\ Len([i \in 1 .. n |-> Unwritten]) = n
BY DEF Unwritten, Bytes

-----------------------------------------------------------------------------
(* What a fetch does to a result set.                                       *)

Unions == 0 .. Patterns("longlong") - 1

Buffered ==
    [alive : {TRUE}, fetched : BOOLEAN, data : Seq(Bytes), length : Nat, error : BOOLEAN,
     room : Nat, moved : Nat, row : Nat, text_null : BOOLEAN, union : Unions,
     num_null : BOOLEAN, damaged : BOOLEAN, execution : Nat, rows : Results, at : Nat,
     spoiled : BOOLEAN, touched : BOOLEAN, outdated : BOOLEAN]

\* The result set is otherwise as it was: all but its column of text, and all but
\* its column of integers.
SameIdentity(r, rs) ==
    /\ r.alive = rs.alive /\ r.fetched = rs.fetched /\ r.room = rs.room
    /\ r.execution = rs.execution /\ r.rows = rs.rows /\ r.at = rs.at
    /\ r.spoiled = rs.spoiled /\ r.touched = rs.touched /\ r.outdated = rs.outdated

SameText(r, rs) ==
    /\ r.data = rs.data /\ r.length = rs.length /\ r.error = rs.error
    /\ r.moved = rs.moved /\ r.row = rs.row /\ r.text_null = rs.text_null
    /\ r.damaged = rs.damaged

SameNumber(r, rs) == r.union = rs.union /\ r.num_null = rs.num_null

\* The fetch through the copy of the bind never writes beyond the buffer it knows.
LEMMA FetchTextDoes ==
    ASSUME NEW rs \in Buffered, rs.room <= Len(rs.data), NEW t, t = Null \/ IsText(t)
    PROVE  /\ FetchText(rs, t) \in Buffered
           /\ SameIdentity(FetchText(rs, t), rs)
           /\ SameNumber(FetchText(rs, t), rs)
           /\ FetchText(rs, t).moved = rs.moved /\ FetchText(rs, t).row = rs.row
           /\ Len(FetchText(rs, t).data) = Len(rs.data)
           /\ FetchText(rs, t).text_null <=> t = Null
           /\ t = Null => /\ FetchText(rs, t).length = rs.length
                          /\ FetchText(rs, t).error = rs.error
                          /\ FetchText(rs, t).damaged = rs.damaged
           /\ t # Null =>
                /\ Len(t) \in Nat
                /\ FetchText(rs, t).length = Len(t)
                /\ FetchText(rs, t).error <=> Len(t) > rs.room
                /\ rs.moved = 0 \/ rs.room = 0 => FetchText(rs, t).damaged = rs.damaged
                /\ Len(t) <= rs.room /\ rs.moved = 0 =>
                     SubSeq(FetchText(rs, t).data, 1, Len(t)) = t
<1>1. CASE t = Null
  <2>1. FetchText(rs, t) = [rs EXCEPT !.text_null = TRUE]
    BY <1>1 DEF FetchText
  <2> QED
    BY <1>1, <2>1 DEF Buffered, SameIdentity, SameNumber
<1>2. CASE t # Null
  <2> DEFINE written == SubSeq(t, 1, Min({Len(t), rs.room}))
             data == IF rs.moved = 0 THEN Over(rs.data, written) ELSE rs.data
             damaged == rs.damaged \/ (rs.moved > 0 /\ written # <<>>)
  <2>1. IsText(t) /\ rs.room \in Nat /\ rs.data \in Seq(Bytes) /\ rs.moved \in Nat
    BY <1>2 DEF Buffered
  <2>2. /\ Len(t) \in Nat /\ written \in Seq(Bytes) /\ Len(written) <= rs.room
        /\ Len(t) <= rs.room => written = t
        /\ rs.room = 0 => written = <<>>
    BY <2>1, Written
  <2>3. FetchText(rs, t) =
          [rs EXCEPT !.text_null = FALSE, !.length = Len(t), !.error = Len(t) > rs.room,
                     !.data = data, !.damaged = damaged]
    BY <1>2 DEF FetchText
  <2> HIDE DEF written
  <2>4. Len(written) <= Len(rs.data)
    BY <2>1, <2>2, LenProperties
  <2>5. /\ data \in Seq(Bytes) /\ Len(data) = Len(rs.data)
        /\ rs.moved = 0 => SubSeq(data, 1, Len(written)) = written
    BY <2>1, <2>2, <2>4, OverWrites
  <2>6. /\ damaged \in BOOLEAN
        /\ rs.moved = 0 \/ rs.room = 0 => damaged = rs.damaged
    <3>1. rs.damaged \in BOOLEAN
      BY DEF Buffered
    <3>2. rs.moved = 0 \/ rs.room = 0 => ~(rs.moved > 0 /\ written # <<>>)
      BY <2>1, <2>2
    <3> QED
      BY <3>1, <3>2
  <2> HIDE DEF data, damaged
  <2> DEFINE long == Len(t) > rs.room
  <2>7. long \in BOOLEAN
    OBVIOUS
  <2>8. FetchText(rs, t) =
          [rs EXCEPT !.text_null = FALSE, !.length = Len(t), !.error = long,
                     !.data = data, !.damaged = damaged]
    BY <2>3
  <2> HIDE DEF long
  <2>9. /\ FetchText(rs, t) \in Buffered
        /\ FetchText(rs, t).length = Len(t) /\ FetchText(rs, t).error = long
        /\ FetchText(rs, t).data = data /\ FetchText(rs, t).damaged = damaged
        /\ FetchText(rs, t).text_null = FALSE
    BY <2>2, <2>5, <2>6, <2>7, <2>8 DEF Buffered
  <2>10. /\ SameIdentity(FetchText(rs, t), rs) /\ SameNumber(FetchText(rs, t), rs)
         /\ FetchText(rs, t).moved = rs.moved /\ FetchText(rs, t).row = rs.row
    BY <2>8 DEF Buffered, SameIdentity, SameNumber
  <2>11. Len(t) <= rs.room /\ rs.moved = 0 => SubSeq(data, 1, Len(t)) = t
    BY <2>2, <2>5
  <2> QED
    BY <1>2, <2>2, <2>5, <2>6, <2>9, <2>10, <2>11 DEF long
<1> QED
  BY <1>1, <1>2

LEMMA FetchNumberDoes ==
    ASSUME NEW rs \in Buffered, column \in IntTypes,
           NEW name, name = Null \/ name \in NumberNames
    PROVE  /\ FetchNumber(rs, name) \in Buffered
           /\ SameIdentity(FetchNumber(rs, name), rs)
           /\ SameText(FetchNumber(rs, name), rs)
           /\ FetchNumber(rs, name).num_null <=> name = Null
           /\ name # Null =>
                FetchNumber(rs, name).union % Patterns(column.size) =
                  NumberOf(name, column) % Patterns(column.size)
<1>1. CASE name = Null
  <2>1. FetchNumber(rs, name) = [rs EXCEPT !.num_null = TRUE]
    BY <1>1 DEF FetchNumber
  <2> QED
    BY <1>1, <2>1 DEF Buffered, SameIdentity, SameText
<1>2. CASE name # Null
  <2> DEFINE u == WriteLow(rs.union, NumberOf(name, column), column.size)
  <2>1. rs.union \in Unions /\ column.size \in Sizes
    BY DEF Buffered, IntTypes
  <2>2. NumberOf(name, column) \in Int
    BY <1>2, NamedNumbers
  <2>3. /\ u \in Unions
        /\ u % Patterns(column.size) = NumberOf(name, column) % Patterns(column.size)
    BY <2>1, <2>2, WrittenLow DEF Unions
  <2>4. FetchNumber(rs, name) = [rs EXCEPT !.num_null = FALSE, !.union = u]
    BY <1>2 DEF FetchNumber
  <2> HIDE DEF u
  <2>5. /\ FetchNumber(rs, name) \in Buffered
        /\ FetchNumber(rs, name).union = u /\ FetchNumber(rs, name).num_null = FALSE
    BY <2>3, <2>4 DEF Buffered
  <2>6. SameIdentity(FetchNumber(rs, name), rs) /\ SameText(FetchNumber(rs, name), rs)
    BY <2>4 DEF Buffered, SameIdentity, SameText
  <2> QED
    BY <1>2, <2>3, <2>5, <2>6
<1> QED
  BY <1>1, <1>2

\* A buffer that is too small for its length is replaced by a larger one, and m_row follows.
LEMMA EnlargedDoes ==
    ASSUME NEW rs \in Buffered
    PROVE  /\ Enlarged(rs) \in Buffered
           /\ SameIdentity(Enlarged(rs), rs) /\ SameNumber(Enlarged(rs), rs)
           /\ Enlarged(rs).damaged = rs.damaged /\ Enlarged(rs).text_null = rs.text_null
           /\ Enlarged(rs).length = rs.length
           /\ Enlarged(rs).row = Enlarged(rs).moved
           /\ Len(Enlarged(rs).data) \in Nat
           /\ Len(Enlarged(rs).data) >= Len(rs.data)
           /\ Len(Enlarged(rs).data) >= rs.length
<1> DEFINE more == [i \in 1 .. (rs.length - Len(rs.data)) |-> Unwritten]
           buffer == IF Len(rs.data) < rs.length THEN rs.data \o more ELSE rs.data
           moved == IF Len(rs.data) < rs.length THEN rs.moved + 1 ELSE rs.moved
<1>1. /\ rs.data \in Seq(Bytes) /\ Len(rs.data) \in Nat /\ rs.length \in Nat
      /\ rs.moved \in Nat
  BY LenProperties DEF Buffered
<1>2. Resize(rs) = [rs EXCEPT !.data = buffer, !.moved = moved]
  <2>1. CASE Len(rs.data) < rs.length
    BY <2>1 DEF Resize
  <2>2. CASE ~(Len(rs.data) < rs.length)
    BY <2>2 DEF Resize, Buffered
  <2> QED
    BY <2>1, <2>2
<1>3. /\ buffer \in Seq(Bytes) /\ moved \in Nat /\ Len(buffer) \in Nat
      /\ rs.length <= Len(buffer) /\ Len(rs.data) <= Len(buffer)
  <2>1. CASE Len(rs.data) < rs.length
    <3>1. rs.length - Len(rs.data) \in Nat
      BY <1>1, <2>1
    <3>2. more \in Seq(Bytes) /\ Len(more) = rs.length - Len(rs.data)
      BY <3>1, UnwrittenBytes
    <3> HIDE DEF more
    <3>3. buffer \in Seq(Bytes) /\ Len(buffer) = Len(rs.data) + Len(more)
      BY <1>1, <2>1, <3>2, ConcatProperties
    <3> QED
      BY <1>1, <2>1, <3>1, <3>2, <3>3
  <2>2. CASE ~(Len(rs.data) < rs.length)
    BY <1>1, <2>2
  <2> QED
    BY <2>1, <2>2
<1> HIDE DEF buffer, moved, more
<1>4. Enlarged(rs) = [rs EXCEPT !.data = buffer, !.moved = moved, !.row = moved]
  BY <1>2 DEF Enlarged, Buffered
<1>5. PICK e : e = Enlarged(rs)
  OBVIOUS
<1>6. /\ e \in Buffered /\ e.data = buffer /\ e.moved = moved /\ e.row = moved
      /\ e.length = rs.length /\ e.damaged = rs.damaged /\ e.text_null = rs.text_null
  BY <1>3, <1>4, <1>5 DEF Buffered
<1>7. SameIdentity(e, rs) /\ SameNumber(e, rs)
  BY <1>4, <1>5 DEF Buffered, SameIdentity, SameNumber
<1> QED
  BY <1>1, <1>3, <1>5, <1>6, <1>7

\* A buffer that was too small is replaced by one the text fits into.
LEMMA TruncatedDoes ==
    ASSUME NEW rs \in Buffered, NEW t, IsText(t)
    PROVE  /\ FetchTruncated(rs, t) \in Buffered
           /\ SameIdentity(FetchTruncated(rs, t), rs)
           /\ SameNumber(FetchTruncated(rs, t), rs)
           /\ FetchTruncated(rs, t).damaged = rs.damaged
           /\ FetchTruncated(rs, t).text_null = rs.text_null
           /\ Len(FetchTruncated(rs, t).data) >= Len(rs.data)
           /\ rs.row = rs.moved => FetchTruncated(rs, t).row = FetchTruncated(rs, t).moved
           /\ ~rs.error => FetchTruncated(rs, t) = rs
           /\ rs.error => /\ FetchTruncated(rs, t).length = Len(t)
                          /\ FetchTruncated(rs, t).length <= Len(FetchTruncated(rs, t).data)
                             \/ Len(t) > rs.length
                          /\ FetchTruncated(rs, t).error <=> Len(t) > rs.length
                          /\ rs.length = Len(t) =>
                               SubSeq(FetchTruncated(rs, t).data, 1, Len(t)) = t
<1>1. CASE ~rs.error
  <2>1. FetchTruncated(rs, t) = rs
    BY <1>1 DEF FetchTruncated
  <2>2. Len(rs.data) \in Nat
    BY LenProperties DEF Buffered
  <2> QED
    BY <1>1, <2>1, <2>2 DEF SameIdentity, SameNumber
<1>2. CASE rs.error
  <2>1. PICK e : e = Enlarged(rs)
    OBVIOUS
  <2>2. /\ e \in Buffered /\ SameIdentity(e, rs) /\ SameNumber(e, rs)
        /\ e.damaged = rs.damaged /\ e.text_null = rs.text_null /\ e.length = rs.length
        /\ e.row = e.moved /\ Len(e.data) \in Nat
        /\ Len(e.data) >= Len(rs.data) /\ Len(e.data) >= rs.length
    BY <2>1, EnlargedDoes
  <2>3. e.data \in Seq(Bytes) /\ rs.length \in Nat /\ Len(rs.data) \in Nat
    BY <2>2, LenProperties DEF Buffered
  <2> DEFINE written == SubSeq(t, 1, Min({Len(t), rs.length}))
             data == Over(e.data, written)
             long == Len(t) > rs.length
  <2>4. /\ Len(t) \in Nat /\ written \in Seq(Bytes) /\ Len(written) <= rs.length
        /\ Len(t) <= rs.length => written = t
    BY <2>3, Written
  <2> HIDE DEF written
  <2>5. Len(written) <= Len(e.data)
    BY <2>2, <2>3, <2>4, LenProperties
  <2>6. /\ data \in Seq(Bytes) /\ Len(data) = Len(e.data)
        /\ SubSeq(data, 1, Len(written)) = written
    BY <2>3, <2>4, <2>5, OverWrites
  <2>7. FetchTruncated(rs, t) = [e EXCEPT !.data = data, !.length = Len(t), !.error = long]
    BY <1>2, <2>1, <2>2 DEF FetchTruncated, FetchColumn, written
  <2>8. long \in BOOLEAN
    OBVIOUS
  <2> HIDE DEF long, data
  <2>9. /\ FetchTruncated(rs, t) \in Buffered
        /\ FetchTruncated(rs, t).length = Len(t) /\ FetchTruncated(rs, t).error = long
        /\ FetchTruncated(rs, t).data = data /\ FetchTruncated(rs, t).moved = e.moved
        /\ FetchTruncated(rs, t).row = e.row
    BY <2>2, <2>4, <2>6, <2>7, <2>8 DEF Buffered
  <2>10. /\ SameIdentity(FetchTruncated(rs, t), rs) /\ SameNumber(FetchTruncated(rs, t), rs)
         /\ FetchTruncated(rs, t).damaged = rs.damaged
         /\ FetchTruncated(rs, t).text_null = rs.text_null
    BY <2>2, <2>7 DEF Buffered, SameIdentity, SameNumber
  <2>11. rs.length = Len(t) => SubSeq(data, 1, Len(t)) = t
    BY <2>3, <2>4, <2>6
  <2>12. Len(t) <= Len(data) \/ Len(t) > rs.length
    BY <2>2, <2>3, <2>4, <2>6
  <2> QED
    BY <1>2, <2>2, <2>3, <2>6, <2>9, <2>10, <2>11, <2>12 DEF long
<1> QED
  BY <1>1, <1>2, rs.error \in BOOLEAN DEF Buffered

\* A row fetched through the copy of a result set's binds, and what the result set
\* has in the end when it was the one that was asked.
IsRow(row) ==
    /\ row.text = Null \/ IsText(row.text)
    /\ row.number = Null \/ row.number \in NumberNames

Fetched(rs, row) == FetchNumber(FetchText(rs, row.text), row.number)

TooLong(rs, row) == row.text # Null /\ Len(row.text) > rs.room

FetchedOwn(rs, row) ==
    IF TooLong(rs, row) THEN FetchTruncated(Fetched(rs, row), row.text) ELSE Fetched(rs, row)

LEMMA FetchedDoes ==
    ASSUME NEW rs \in Buffered, column \in IntTypes, rs.room <= Len(rs.data),
           NEW row, IsRow(row)
    PROVE  /\ Fetched(rs, row) \in Buffered
           /\ SameIdentity(Fetched(rs, row), rs)
           /\ Fetched(rs, row).moved = rs.moved /\ Fetched(rs, row).row = rs.row
           /\ Len(Fetched(rs, row).data) = Len(rs.data)
<1> DEFINE f == FetchText(rs, row.text)
<1>1. /\ f \in Buffered /\ SameIdentity(f, rs)
      /\ f.moved = rs.moved /\ f.row = rs.row /\ Len(f.data) = Len(rs.data)
  BY FetchTextDoes DEF IsRow
<1>2. /\ Fetched(rs, row) \in Buffered
      /\ SameIdentity(Fetched(rs, row), f) /\ SameText(Fetched(rs, row), f)
  BY <1>1, FetchNumberDoes DEF IsRow, Fetched
<1> HIDE DEF f
<1> QED
  BY <1>1, <1>2 DEF SameIdentity, SameText

LEMMA FetchedOwnDoes ==
    ASSUME NEW rs \in Buffered, column \in IntTypes, rs.room <= Len(rs.data),
           NEW row, IsRow(row)
    PROVE  /\ FetchedOwn(rs, row) \in Buffered
           /\ SameIdentity(FetchedOwn(rs, row), rs)
           /\ rs.row = rs.moved => FetchedOwn(rs, row).row = FetchedOwn(rs, row).moved
           /\ Len(FetchedOwn(rs, row).data) >= Len(rs.data)
           /\ FetchedOwn(rs, row).text_null <=> row.text = Null
           /\ FetchedOwn(rs, row).num_null <=> row.number = Null
           /\ row.number # Null =>
                FetchedOwn(rs, row).union % Patterns(column.size) =
                  NumberOf(row.number, column) % Patterns(column.size)
           /\ ~rs.error /\ rs.length <= Len(rs.data) =>
                /\ ~FetchedOwn(rs, row).error
                /\ FetchedOwn(rs, row).length <= Len(FetchedOwn(rs, row).data)
           /\ rs.moved = 0 \/ rs.room = 0 =>
                /\ FetchedOwn(rs, row).damaged = rs.damaged
                /\ row.text # Null =>
                     SubSeq(FetchedOwn(rs, row).data, 1, FetchedOwn(rs, row).length) = row.text
           /\ ~TooLong(rs, row) => FetchedOwn(rs, row).moved = rs.moved
<1> DEFINE t == row.text
           f == FetchText(rs, t)
           g == Fetched(rs, row)
           r == FetchedOwn(rs, row)
<1>1. t = Null \/ IsText(t)
  BY DEF IsRow
<1>2. /\ f \in Buffered /\ SameIdentity(f, rs)
      /\ f.moved = rs.moved /\ f.row = rs.row /\ Len(f.data) = Len(rs.data)
      /\ f.text_null <=> t = Null
      /\ t = Null => f.length = rs.length /\ f.error = rs.error /\ f.damaged = rs.damaged
      /\ t # Null =>
           /\ Len(t) \in Nat /\ f.length = Len(t) /\ (f.error <=> Len(t) > rs.room)
           /\ rs.moved = 0 \/ rs.room = 0 => f.damaged = rs.damaged
           /\ Len(t) <= rs.room /\ rs.moved = 0 => SubSeq(f.data, 1, Len(t)) = t
  BY <1>1, FetchTextDoes
<1>3. /\ g \in Buffered /\ SameIdentity(g, f) /\ SameText(g, f)
      /\ g.num_null <=> row.number = Null
      /\ row.number # Null => g.union % Patterns(column.size) =
                                NumberOf(row.number, column) % Patterns(column.size)
  BY <1>2, FetchNumberDoes DEF IsRow, Fetched
<1> HIDE DEF f
<1>4. /\ SameIdentity(g, rs)
      /\ g.moved = rs.moved /\ g.row = rs.row /\ Len(g.data) = Len(rs.data)
      /\ g.text_null <=> t = Null
      /\ t = Null => g.length = rs.length /\ g.error = rs.error /\ g.damaged = rs.damaged
      /\ t # Null =>
           /\ Len(t) \in Nat /\ g.length = Len(t) /\ (g.error <=> Len(t) > rs.room)
           /\ rs.moved = 0 \/ rs.room = 0 => g.damaged = rs.damaged
           /\ Len(t) <= rs.room /\ rs.moved = 0 => SubSeq(g.data, 1, Len(t)) = t
  BY <1>2, <1>3 DEF SameIdentity, SameText
<1>5. Len(rs.data) \in Nat /\ rs.room \in Nat /\ rs.moved \in Nat
  BY LenProperties DEF Buffered
<1>6. CASE TooLong(rs, row)
  <2>1. r = FetchTruncated(g, t) /\ t # Null /\ IsText(t) /\ Len(t) > rs.room
    BY <1>1, <1>6 DEF FetchedOwn, TooLong
  <2>2. g.error /\ g.length = Len(t) /\ Len(t) \in Nat
    BY <1>4, <2>1
  <2> HIDE DEF g, t, r
  <2>3. /\ r \in Buffered /\ SameIdentity(r, g) /\ SameNumber(r, g)
        /\ r.damaged = g.damaged /\ r.text_null = g.text_null
        /\ Len(r.data) >= Len(g.data)
        /\ g.row = g.moved => r.row = r.moved
        /\ r.length = Len(t) /\ (r.length <= Len(r.data) \/ Len(t) > g.length)
        /\ r.error <=> Len(t) > g.length
        /\ g.length = Len(t) => SubSeq(r.data, 1, Len(t)) = t
    BY <1>3, <2>1, <2>2, TruncatedDoes
  <2>4. ~r.error /\ r.length <= Len(r.data) /\ SubSeq(r.data, 1, r.length) = t
    BY <2>2, <2>3
  <2>5. r \in Buffered /\ SameIdentity(r, rs) /\ (rs.row = rs.moved => r.row = r.moved)
    BY <1>4, <2>3 DEF SameIdentity
  <2>6. /\ Len(r.data) >= Len(rs.data) /\ (r.text_null <=> t = Null)
        /\ rs.moved = 0 \/ rs.room = 0 => r.damaged = rs.damaged
    BY <1>4, <2>1, <2>3
  <2>7. r.num_null = g.num_null /\ r.union = g.union
    BY <2>3 DEF SameNumber
  <2> QED
    BY <1>3, <1>6, <2>4, <2>5, <2>6, <2>7 DEF r, t
<1>7. CASE ~TooLong(rs, row)
  <2>1. r = g /\ (t # Null => Len(t) <= rs.room)
    BY <1>4, <1>5, <1>7 DEF FetchedOwn, TooLong
  <2>2. ASSUME t # Null, rs.moved = 0 \/ rs.room = 0
        PROVE  SubSeq(g.data, 1, g.length) = t
    <3>1. CASE rs.moved = 0
      BY <1>4, <2>1, <2>2, <3>1
    <3>2. CASE rs.room = 0
      <4>1. Len(t) = 0 /\ IsText(t)
        BY <1>1, <1>4, <2>1, <2>2, <3>2
      <4>2. t = <<>>
        BY <4>1, EmptySeq DEF IsText
      <4>3. SubSeq(g.data, 1, 0) = <<>>
        BY SubSeqEmpty
      <4> QED
        BY <1>4, <2>2, <4>1, <4>2, <4>3
    <3> QED
      BY <2>2, <3>1, <3>2
  <2>3. ~rs.error /\ rs.length <= Len(rs.data) => ~g.error /\ g.length <= Len(g.data)
    <3>1. CASE t = Null
      BY <1>4, <3>1
    <3>2. CASE t # Null
      BY <1>4, <1>5, <2>1, <3>2
    <3> QED
      BY <3>1, <3>2
  <2>4. rs.moved = 0 \/ rs.room = 0 => g.damaged = rs.damaged
    BY <1>4
  <2> HIDE DEF g, t, r
  <2> QED
    BY <1>3, <1>4, <1>5, <1>7, <2>1, <2>2, <2>3, <2>4 DEF r, t
<1> QED
  BY <1>6, <1>7

-----------------------------------------------------------------------------
(* The inductive invariant.                                                 *)

Statements ==
    [held : BOOLEAN, executions : 0 .. MaxExecutions, rows : AllRows, cursor : Nat \ {0},
     made : 0 .. MaxResultSets, bound : 0 .. MaxResultSets, strays : 0 .. MaxOutdated,
     broken : BOOLEAN]

Kinds == Regions \cup {"null"}

Typed ==
    /\ store \in BOOLEAN /\ column \in IntTypes
    /\ mixed \in BOOLEAN /\ set_calls \in 0 .. MaxSets
    /\ param \in [type : Kinds, buffer : Regions, number : Values \cup {Null},
                  time : Values \cup {Null}, text : Values \cup {Null}]
    /\ stmt \in Statements
    /\ stmt.cursor <= Len(stmt.rows) + 1
    /\ stmt.bound = stmt.made
    /\ sets \in [ResultSets -> Buffered \cup {Nothing}]

\* The buffer points to what was set last, unless a number followed a date or a text.
ParamInv ==
    ~mixed =>
        IF param.type = "null" THEN wanted = [kind |-> "null", value |-> Null]
        ELSE /\ param.buffer = param.type
             /\ wanted = [kind |-> param.type, value |-> param[param.type]]

\* A result set in itself: its buffer has room for what the connector believes it has,
\* with stored rows for every text of the result, so that it is then never replaced.
Sound(rs) ==
    /\ rs.row = rs.moved
    /\ rs.room = MaxLength(rs.rows) /\ rs.room <= Len(rs.data)
    /\ rs.at <= Len(rs.rows) + 1
    /\ ~rs.touched => ~rs.error /\ rs.length <= Len(rs.data)
    /\ ~rs.touched /\ ~rs.outdated => ~rs.damaged /\ (store => rs.moved = 0)

\* The row it shows is the one that is due.
Showing(rs) ==
    rs.fetched /\ ~rs.touched /\ ~rs.outdated =>
        /\ rs.at \in 1 .. Len(rs.rows)
        /\ rs.text_null <=> rs.rows[rs.at].text = Null
        /\ rs.num_null <=> rs.rows[rs.at].number = Null
        /\ rs.rows[rs.at].text # Null => SubSeq(rs.data, 1, rs.length) = rs.rows[rs.at].text
        /\ rs.rows[rs.at].number # Null =>
             rs.union % Patterns(column.size) =
               NumberOf(rs.rows[rs.at].number, column) % Patterns(column.size)

\* Its place among the executions: only the result set bound last can be that of the
\* last execution; one that is not has been fetched from late, if it is outdated.
Placed(s) ==
    /\ s <= stmt.made
    /\ sets[s].execution \in 1 .. stmt.executions
    /\ s # stmt.bound \/ sets[s].outdated => sets[s].execution < stmt.executions

\* The statement has the rows of its last execution, at the row after the one that is
\* due, unless the destructor of a result set has freed them.
InStep(s) ==
    sets[s].execution = stmt.executions /\ ~sets[s].touched =>
        IF sets[s].spoiled THEN stmt.rows = <<>>
        ELSE /\ stmt.rows = sets[s].rows
             /\ stmt.cursor = Min({sets[s].at, Len(sets[s].rows)}) + 1

SetInv(s) ==
    sets[s].alive => Sound(sets[s]) /\ Showing(sets[s]) /\ Placed(s) /\ InStep(s)

BrokenInv == stmt.broken => \E s \in ResultSets : sets[s].alive /\ sets[s].outdated

IInv == /\ Typed /\ ParamInv /\ BrokenInv /\ NextHonest
        /\ \A s \in ResultSets : SetInv(s)

LEMMA Objects ==
    ASSUME Typed, NEW s \in ResultSets, sets[s].alive
    PROVE  /\ sets[s] \in Buffered
           /\ sets[s].rows \in Results /\ sets[s].rows \in AllRows
           /\ Len(sets[s].rows) \in Nat /\ Len(sets[s].data) \in Nat
           /\ sets[s].at \in Nat /\ sets[s].execution \in Nat
           /\ sets[s].spoiled \in BOOLEAN /\ sets[s].touched \in BOOLEAN
           /\ sets[s].outdated \in BOOLEAN
<1>1. sets[s] \in Buffered \cup {Nothing}
  BY DEF Typed
<1>2. Nothing.alive = FALSE
  BY DEF Nothing
<1>3. sets[s] \in Buffered
  BY <1>1, <1>2
<1> QED
  BY <1>3, RowsOf, LenProperties DEF Buffered, AllRows

LEMMA Statement ==
    ASSUME Typed
    PROVE  /\ stmt \in Statements /\ stmt.rows \in AllRows /\ Len(stmt.rows) \in Nat
           /\ stmt.cursor \in 1 .. Len(stmt.rows) + 1
           /\ stmt.executions \in 0 .. MaxExecutions /\ MaxExecutions \in Nat
           /\ stmt.made \in 0 .. MaxResultSets /\ stmt.bound = stmt.made
           /\ MaxResultSets \in Nat
<1>1. stmt \in Statements /\ stmt.rows \in AllRows
  BY DEF Typed, Statements
<1>2. Len(stmt.rows) \in Nat
  BY <1>1, RowsOf
<1> QED
  BY <1>1, <1>2, Bounds DEF Typed, Statements

\* While a result set lives, there is one whose binds were copied last.
LEMMA BoundExists ==
    ASSUME Typed, NEW s \in ResultSets, sets[s].alive, Placed(s)
    PROVE  stmt.bound \in ResultSets /\ stmt.bound \in Nat
BY Statement DEF Placed, ResultSets

\* What is said of a result set itself stays true where it and the account stay.
LEMMA Stays ==
    ASSUME NEW s \in ResultSets, NEW rs, sets'[s] = rs, UNCHANGED fixedVars,
           Sound(rs), Showing(rs)
    PROVE  Sound(sets[s])' /\ Showing(sets[s])'
<1>1. store' = store /\ column' = column
  BY DEF fixedVars
<1>2. Sound(sets[s])'
  BY <1>1 DEF Sound, MaxLength, Texts
<1>3. Showing(sets[s])'
  BY <1>1 DEF Showing, NumberOf
<1> QED
  BY <1>2, <1>3

LEMMA OtherKeeps ==
    ASSUME NEW s \in ResultSets, sets'[s] = sets[s], UNCHANGED fixedVars,
           Sound(sets[s]), Showing(sets[s])
    PROVE  Sound(sets[s])' /\ Showing(sets[s])'
<1>1. PICK rs : rs = sets[s]
  OBVIOUS
<1>2. Sound(rs) /\ Showing(rs)
  BY <1>1
<1> QED
  BY <1>1, <1>2, Stays

-----------------------------------------------------------------------------
(* Fetching.                                                                *)

\* The call of the result set whose binds were copied last.
Own(rs, rows, c, at, executions) ==
    [(IF c <= Len(rows) THEN FetchedOwn(rs, rows[c]) ELSE rs)
       EXCEPT !.fetched = c <= Len(rows), !.at = at,
              !.outdated = @ \/ rs.execution # executions]

LEMMA FetchedRow ==
    ASSUME Typed, NEW c \in 1 .. Len(stmt.rows)
    PROVE  IsRow(stmt.rows[c])
BY Statement, RowsOf DEF IsRow

LEMMA FetchedAlive ==
    ASSUME NEW rs \in Buffered, NEW row
    PROVE  Fetched(rs, row).alive = rs.alive
<1>1. PICK f : f = FetchText(rs, row.text)
  OBVIOUS
<1>2. f.alive = rs.alive /\ DOMAIN f = DOMAIN rs
  BY <1>1 DEF FetchText, Buffered
<1>3. FetchNumber(f, row.number).alive = f.alive
  BY <1>2 DEF FetchNumber, Buffered
<1> QED
  BY <1>1, <1>2, <1>3 DEF Fetched

LEMMA FetchOwn ==
    ASSUME Typed, NEW s \in ResultSets, sets[s].alive, s = stmt.bound,
           NEW c \in 1 .. Len(stmt.rows) + 1, NEW at, Fetch(s, c, at)
    PROVE  /\ sets' = [sets EXCEPT ![s] = Own(sets[s], stmt.rows, c, at, stmt.executions)]
           /\ stmt'.broken = FALSE
<1> DEFINE row == stmt.rows[c]
           more == c <= Len(stmt.rows)
           outdated == sets[s].execution # stmt.executions
           gone == more /\ ~sets[stmt.bound].alive
<1>1. gone = FALSE
  OBVIOUS
<1>2. sets' = Disturb(s, [(IF more /\ ~gone THEN FetchRow(s, row) ELSE sets)
                 EXCEPT ![s].fetched = more, ![s].at = at, ![s].outdated = @ \/ outdated])
  BY DEF Fetch
<1>3. sets' = [(IF more THEN FetchRow(s, row) ELSE sets)
                 EXCEPT ![s].fetched = more, ![s].at = at, ![s].outdated = @ \/ outdated]
  BY <1>1, <1>2 DEF Disturb
<1>4. /\ sets \in [ResultSets -> Buffered \cup {Nothing}] /\ DOMAIN sets = ResultSets
  BY DEF Typed
<1>5. FetchRow(s, row) = [sets EXCEPT ![s] = FetchedOwn(sets[s], row)]
  <2> DEFINE filled == [sets EXCEPT ![s] = Fetched(sets[s], row)]
  <2>1. FetchRow(s, row) =
          IF TooLong(sets[s], row) THEN [filled EXCEPT ![s] = FetchTruncated(@, row.text)]
          ELSE filled
    BY DEF FetchRow, Filled, CutOff, TooLong, Fetched
  <2>2. filled[s] = Fetched(sets[s], row)
    BY <1>4
  <2>3. [filled EXCEPT ![s] = FetchTruncated(@, row.text)] =
          [sets EXCEPT ![s] = FetchTruncated(Fetched(sets[s], row), row.text)]
    BY <1>4, <2>2
  <2> QED
    BY <2>1, <2>3 DEF FetchedOwn
<1>6. PICK m : m = IF more THEN FetchedOwn(sets[s], row) ELSE sets[s]
  OBVIOUS
<1>7. sets' = [sets EXCEPT ![s] =
         [m EXCEPT !.fetched = more, !.at = at, !.outdated = @ \/ outdated]]
  <2>1. CASE more
    <3>1. FetchRow(s, row)[s] = m
      BY <1>4, <1>5, <1>6, <2>1
    <3>2. sets' = [FetchRow(s, row) EXCEPT ![s] =
             [FetchRow(s, row)[s] EXCEPT !.fetched = more, !.at = at, !.outdated = @ \/ outdated]]
      BY <1>3, <2>1
    <3> QED
      BY <1>4, <1>5, <3>1, <3>2
  <2>2. CASE ~more
    <3>1. m = sets[s]
      BY <1>6, <2>2
    <3> QED
      BY <1>3, <1>4, <2>2, <3>1
  <2> QED
    BY <2>1, <2>2
<1>8. Own(sets[s], stmt.rows, c, at, stmt.executions) =
        [m EXCEPT !.fetched = more, !.at = at, !.outdated = @ \/ outdated]
  <2> HIDE DEF more, outdated
  <2> QED
    BY <1>6 DEF Own, more, outdated
<1>9. stmt'.broken = FALSE
  <2>1. stmt' = [stmt EXCEPT !.cursor = IF more THEN c + 1 ELSE c,
                             !.strays = IF outdated THEN @ + 1 ELSE @, !.broken = gone]
    BY DEF Fetch
  <2> QED
    BY <1>1, <2>1 DEF Typed, Statements
<1> QED
  BY <1>7, <1>8, <1>9, Zenon

\* What an outdated call of s does, when b is the result set bound last.
FetchedLate(s, b, c, at) ==
    /\ sets' = [e \in ResultSets |-> sets'[e]]
    /\ \A e \in ResultSets \ {s, b} : sets'[e] = sets[e]
    /\ sets[b].alive =>
         /\ stmt'.broken = FALSE
         /\ \/ sets'[b] = [sets[b] EXCEPT !.touched = TRUE]
            \/ /\ c \in 1 .. Len(stmt.rows)
               /\ sets'[b] = [Fetched(sets[b], stmt.rows[c]) EXCEPT !.touched = TRUE]
    /\ ~sets[b].alive => sets'[b] = sets[b]
    /\ \E rs \in {sets[s]} \cup
           {FetchTruncated(sets[s], stmt.rows[i].text) :
              i \in {j \in 1 .. Len(stmt.rows) : stmt.rows[j].text # Null}} :
         sets'[s] = [rs EXCEPT !.fetched = c <= Len(stmt.rows), !.at = at, !.outdated = TRUE]

\* The call of an outdated result set: the binds of the last one are filled, and its own
\* column is fetched again if an earlier call left it with an error.
LEMMA FetchOther ==
    ASSUME Typed, NEW s \in ResultSets, sets[s].alive, NEW b \in ResultSets,
           b = stmt.bound, s # b, sets[s].execution # stmt.executions,
           NEW c \in 1 .. Len(stmt.rows) + 1, NEW at, Fetch(s, c, at)
    PROVE  FetchedLate(s, b, c, at)
<1> DEFINE row == stmt.rows[c]
           more == c <= Len(stmt.rows)
           gone == more /\ ~sets[b].alive
           outdated == sets[s].execution # stmt.executions
           base == IF more /\ ~gone THEN FetchRow(s, row) ELSE sets
           marked == [base EXCEPT ![s].fetched = more, ![s].at = at,
                                  ![s].outdated = @ \/ outdated]
<1>1. sets' = Disturb(s, marked)
  BY DEF Fetch
<1>2. DOMAIN sets = ResultSets /\ sets = [e \in ResultSets |-> sets[e]]
  BY DEF Typed
<1>3. /\ c \in Nat /\ Len(stmt.rows) \in Nat /\ (more <=> c \in 1 .. Len(stmt.rows))
  BY Statement
<1>4. /\ base = [e \in ResultSets |-> base[e]]
      /\ \A e \in ResultSets \ {s, b} : base[e] = sets[e]
      /\ base[s] = sets[s] \/ (more /\ row.text # Null /\
                               base[s] = FetchTruncated(sets[s], row.text))
      /\ base[b] = IF more /\ ~gone THEN Fetched(sets[b], row) ELSE sets[b]
  <2>1. CASE more /\ ~gone
    <3> DEFINE filled == [sets EXCEPT ![b] = Fetched(sets[b], row)]
    <3>1. base = IF TooLong(sets[b], row)
                 THEN [filled EXCEPT ![s] = FetchTruncated(@, row.text)] ELSE filled
      BY <2>1 DEF FetchRow, Filled, CutOff, TooLong, Fetched
    <3>2. /\ filled = [e \in ResultSets |-> filled[e]] /\ filled[s] = sets[s]
          /\ filled[b] = Fetched(sets[b], row)
          /\ \A e \in ResultSets \ {s, b} : filled[e] = sets[e]
      BY <1>2
    <3> HIDE DEF filled, base
    <3> QED
      BY <2>1, <3>1, <3>2 DEF TooLong
  <2>2. CASE ~(more /\ ~gone)
    BY <1>2, <2>2
  <2> QED
    BY <2>1, <2>2
<1> HIDE DEF base
<1>5. /\ marked = [e \in ResultSets |-> marked[e]]
      /\ \A e \in ResultSets \ {s} : marked[e] = base[e]
      /\ marked[s] = [base[s] EXCEPT !.fetched = more, !.at = at, !.outdated = TRUE]
  BY <1>4
<1> HIDE DEF marked
<1>6. marked[b].alive = sets[b].alive
  <2>1. CASE more /\ ~gone
    <3>1. IsRow(row) /\ sets[b].alive /\ column \in IntTypes
      BY <1>3, <2>1, FetchedRow DEF Typed
    <3>2. Fetched(sets[b], row).alive = sets[b].alive
      BY <3>1, Objects, FetchedAlive
    <3> QED
      BY <1>4, <1>5, <2>1, <3>2
  <2>2. CASE ~(more /\ ~gone)
    BY <1>4, <1>5, <2>2
  <2> QED
    BY <2>1, <2>2
<1>7. sets' = IF sets[b].alive THEN [marked EXCEPT ![b].touched = TRUE] ELSE marked
  BY <1>1, <1>6 DEF Disturb
<1>8. /\ sets' = [e \in ResultSets |-> sets'[e]]
      /\ \A e \in ResultSets \ {b} : sets'[e] = marked[e]
      /\ sets'[b] = IF sets[b].alive THEN [marked[b] EXCEPT !.touched = TRUE] ELSE marked[b]
  BY <1>5, <1>7
<1>9. \A e \in ResultSets \ {s, b} : sets'[e] = sets[e]
  BY <1>4, <1>5, <1>8
<1>10. ASSUME sets[b].alive
       PROVE  /\ stmt'.broken = FALSE
              /\ \/ sets'[b] = [sets[b] EXCEPT !.touched = TRUE]
                 \/ /\ c \in 1 .. Len(stmt.rows)
                    /\ sets'[b] = [Fetched(sets[b], stmt.rows[c]) EXCEPT !.touched = TRUE]
  <2>1. stmt'.broken = FALSE
    BY <1>10 DEF Fetch, Typed, Statements
  <2>2. CASE more
    <3>1. marked[b] = Fetched(sets[b], row)
      BY <1>4, <1>5, <1>10, <2>2
    <3>2. sets'[b] = [Fetched(sets[b], row) EXCEPT !.touched = TRUE]
      BY <1>8, <1>10, <3>1
    <3> QED
      BY <1>3, <2>1, <2>2, <3>2
  <2>3. CASE ~more
    BY <1>3, <1>4, <1>5, <1>8, <1>10, <2>1, <2>3
  <2> QED
    BY <2>2, <2>3
<1>11. ~sets[b].alive => sets'[b] = sets[b]
  BY <1>4, <1>5, <1>8
<1>12. \E rs \in {sets[s]} \cup
           {FetchTruncated(sets[s], stmt.rows[i].text) :
              i \in {j \in 1 .. Len(stmt.rows) : stmt.rows[j].text # Null}} :
         sets'[s] = [rs EXCEPT !.fetched = c <= Len(stmt.rows), !.at = at, !.outdated = TRUE]
  <2>1. sets'[s] = [base[s] EXCEPT !.fetched = more, !.at = at, !.outdated = TRUE]
    BY <1>5, <1>8
  <2>2. base[s] \in {sets[s]} \cup
           {FetchTruncated(sets[s], stmt.rows[i].text) :
              i \in {j \in 1 .. Len(stmt.rows) : stmt.rows[j].text # Null}}
    BY <1>3, <1>4
  <2> QED
    BY <2>1, <2>2
<1> QED
  BY <1>8, <1>9, <1>10, <1>11, <1>12 DEF FetchedLate

\* The row that is due, when the statement is in step with the result set: it is then
\* never too long for a buffer of stored rows.
LEMMA OwnDoes ==
    ASSUME Typed, NEW rs \in Buffered, Sound(rs),
           NEW c \in 1 .. Len(stmt.rows) + 1, NEW at \in 1 .. Len(rs.rows) + 1,
           rs.execution = stmt.executions /\ ~rs.touched =>
             IF rs.spoiled THEN stmt.rows = <<>> ELSE stmt.rows = rs.rows /\ c = at,
           NEW r, r = Own(rs, stmt.rows, c, at, stmt.executions)
    PROVE  /\ r \in Buffered /\ Sound(r) /\ Showing(r)
           /\ r.execution = rs.execution /\ r.rows = rs.rows /\ r.spoiled = rs.spoiled
           /\ r.touched = rs.touched /\ r.at = at
           /\ r.outdated <=> rs.outdated \/ rs.execution # stmt.executions
<1> DEFINE more == c <= Len(stmt.rows)
           outdated == rs.execution # stmt.executions
           row == stmt.rows[c]
<1>1. PICK m : m = IF more THEN FetchedOwn(rs, row) ELSE rs
  OBVIOUS
<1>2. /\ Len(stmt.rows) \in Nat /\ c \in Nat /\ column \in IntTypes
      /\ rs.rows \in AllRows /\ Len(rs.rows) \in Nat /\ Len(rs.data) \in Nat
      /\ rs.room \in Nat /\ rs.moved \in Nat
      /\ rs.touched \in BOOLEAN /\ rs.outdated \in BOOLEAN /\ store \in BOOLEAN
  BY Statement, RowsOf, LenProperties DEF Typed, Buffered, AllRows
<1>3. more => c \in 1 .. Len(stmt.rows) /\ IsRow(row)
  BY <1>2, FetchedRow
<1>4. /\ rs.row = rs.moved /\ rs.room = MaxLength(rs.rows) /\ rs.room <= Len(rs.data)
      /\ ~rs.touched => ~rs.error /\ rs.length <= Len(rs.data)
      /\ ~rs.touched /\ ~rs.outdated => ~rs.damaged /\ (store => rs.moved = 0)
  BY DEF Sound
<1>5. ~store => rs.room = 0
  BY <1>2, <1>4, MaxLengthBounds
<1>6. /\ m \in Buffered /\ SameIdentity(m, rs) /\ m.row = m.moved
      /\ Len(m.data) >= Len(rs.data)
      /\ ~rs.touched => ~m.error /\ m.length <= Len(m.data)
  <2>1. CASE more
    <3>1. m = FetchedOwn(rs, row)
      BY <1>1, <2>1
    <3> QED
      BY <1>2, <1>3, <1>4, <2>1, <3>1, FetchedOwnDoes
  <2>2. CASE ~more
    <3>1. m = rs
      BY <1>1, <2>2
    <3> QED
      BY <1>2, <1>4, <3>1 DEF SameIdentity
  <2> QED
    BY <2>1, <2>2
<1>7. ASSUME ~rs.touched, ~rs.outdated, ~outdated
      PROVE  ~m.damaged /\ (store => m.moved = 0)
  <2>1. ~rs.damaged /\ (store => rs.moved = 0) /\ (rs.moved = 0 \/ rs.room = 0)
    BY <1>4, <1>5, <1>7
  <2>2. CASE more
    <3>1. m = FetchedOwn(rs, row)
      BY <1>1, <2>2
    <3>2. m.damaged = rs.damaged /\ (~TooLong(rs, row) => m.moved = rs.moved)
      BY <1>2, <1>3, <1>4, <2>1, <2>2, <3>1, FetchedOwnDoes
    <3>3. stmt.rows = rs.rows /\ c = at
      BY <1>2, <1>7, <2>2
    <3>4. store => ~TooLong(rs, row)
      <4> SUFFICES ASSUME store, row.text # Null PROVE ~(Len(row.text) > rs.room)
        BY DEF TooLong
      <4>1. c \in 1 .. Len(rs.rows) /\ row = rs.rows[c]
        BY <1>3, <2>2, <3>3
      <4>2. Len(row.text) <= MaxLength(rs.rows)
        BY <1>2, <4>1, MaxLengthBounds
      <4>3. Len(row.text) \in Nat
        BY <1>3, <2>2, LenProperties DEF IsRow, IsText
      <4> QED
        BY <1>2, <1>4, <4>2, <4>3
    <3> QED
      BY <2>1, <3>2, <3>4
  <2>3. CASE ~more
    BY <1>1, <2>1, <2>3
  <2> QED
    BY <2>2, <2>3
<1>8. ASSUME more, ~rs.touched, ~rs.outdated, ~outdated
      PROVE  /\ at \in 1 .. Len(rs.rows)
             /\ m.text_null <=> rs.rows[at].text = Null
             /\ m.num_null <=> rs.rows[at].number = Null
             /\ rs.rows[at].text # Null => SubSeq(m.data, 1, m.length) = rs.rows[at].text
             /\ rs.rows[at].number # Null =>
                  m.union % Patterns(column.size) =
                    NumberOf(rs.rows[at].number, column) % Patterns(column.size)
  <2>1. m = FetchedOwn(rs, row) /\ (rs.moved = 0 \/ rs.room = 0)
    BY <1>1, <1>4, <1>5, <1>8
  <2>2. stmt.rows = rs.rows /\ c = at /\ at \in 1 .. Len(rs.rows)
    BY <1>2, <1>3, <1>8
  <2>3. row = rs.rows[at]
    BY <2>2
  <2>4. /\ m.text_null <=> row.text = Null
        /\ m.num_null <=> row.number = Null
        /\ row.text # Null => SubSeq(m.data, 1, m.length) = row.text
        /\ row.number # Null => m.union % Patterns(column.size) =
                                  NumberOf(row.number, column) % Patterns(column.size)
    BY <1>2, <1>3, <1>4, <1>8, <2>1, FetchedOwnDoes
  <2> QED
    BY <2>2, <2>3, <2>4
<1> DEFINE late == rs.outdated \/ outdated
<1>9. m.outdated = rs.outdated
  BY <1>6 DEF SameIdentity
<1>10. r = [m EXCEPT !.fetched = more, !.at = at, !.outdated = late]
  <2>1. r = [m EXCEPT !.fetched = more, !.at = at, !.outdated = m.outdated \/ outdated]
    <3> HIDE DEF more, row, outdated
    <3> QED
      BY <1>1 DEF Own, more, row, outdated
  <2> QED
    BY <1>9, <2>1
<1>11. more \in BOOLEAN /\ late \in BOOLEAN /\ at \in Nat
  BY <1>2
<1> HIDE DEF more, late
<1>12. /\ r \in Buffered
       /\ r.fetched = more /\ r.at = at /\ r.outdated = late
       /\ r.data = m.data /\ r.length = m.length /\ r.error = m.error /\ r.room = m.room
       /\ r.moved = m.moved /\ r.row = m.row /\ r.text_null = m.text_null
       /\ r.union = m.union /\ r.num_null = m.num_null /\ r.damaged = m.damaged
       /\ r.execution = m.execution /\ r.rows = m.rows /\ r.spoiled = m.spoiled
       /\ r.touched = m.touched
  BY <1>6, <1>10, <1>11 DEF Buffered
<1>13. /\ r.execution = rs.execution /\ r.rows = rs.rows /\ r.spoiled = rs.spoiled
       /\ r.touched = rs.touched /\ r.room = rs.room
  BY <1>6, <1>12 DEF SameIdentity
<1>14. Len(m.data) \in Nat
  BY <1>6, LenProperties DEF Buffered
<1>15. Sound(r)
  <2>1. r.row = r.moved /\ r.room = MaxLength(r.rows) /\ r.room <= Len(r.data)
    BY <1>2, <1>4, <1>6, <1>12, <1>13, <1>14
  <2>2. ~r.touched => ~r.error /\ r.length <= Len(r.data)
    BY <1>6, <1>12, <1>13
  <2>3. ~r.touched /\ ~r.outdated => ~r.damaged /\ (store => r.moved = 0)
    BY <1>7, <1>12, <1>13 DEF late
  <2>4. r.at <= Len(r.rows) + 1
    BY <1>2, <1>12, <1>13
  <2> QED
    BY <2>1, <2>2, <2>3, <2>4 DEF Sound
<1>16. Showing(r)
  BY <1>8, <1>12, <1>13 DEF Showing, late
<1> QED
  BY <1>12, <1>13, <1>15, <1>16 DEF late

LEMMA FetchedStatement ==
    ASSUME Typed, NEW s \in ResultSets, NEW c \in 1 .. Len(stmt.rows) + 1, NEW at,
           Fetch(s, c, at)
    PROVE  /\ stmt' \in Statements
           /\ stmt'.rows = stmt.rows /\ stmt'.executions = stmt.executions
           /\ stmt'.made = stmt.made /\ stmt'.bound = stmt.bound
           /\ stmt'.cursor = IF c <= Len(stmt.rows) THEN c + 1 ELSE c
           /\ stmt'.cursor <= Len(stmt'.rows) + 1
           /\ UNCHANGED fixedVars /\ UNCHANGED paramVars
           /\ last' = [op |-> "fetch", set |-> s, told |-> c <= Len(stmt.rows)]
<1> DEFINE more == c <= Len(stmt.rows)
           gone == more /\ ~sets[stmt.bound].alive
           outdated == sets[s].execution # stmt.executions
           strays == IF outdated THEN stmt.strays + 1 ELSE stmt.strays
           cursor == IF more THEN c + 1 ELSE c
<1>1. stmt' = [stmt EXCEPT !.cursor = cursor, !.strays = strays, !.broken = gone]
  BY DEF Fetch
<1>2. outdated => stmt.strays < MaxOutdated
  BY DEF Fetch
<1>3. stmt \in Statements /\ Len(stmt.rows) \in Nat
  BY Statement
<1>4. gone \in BOOLEAN /\ cursor \in Nat \ {0} /\ cursor <= Len(stmt.rows) + 1
  BY <1>3
<1>5. strays \in 0 .. MaxOutdated
  BY <1>2, <1>3, Bounds DEF Statements
<1>6. /\ UNCHANGED fixedVars /\ UNCHANGED paramVars
      /\ last' = [op |-> "fetch", set |-> s, told |-> more]
  BY DEF Fetch
<1> HIDE DEF gone, cursor, strays
<1>7. /\ stmt' \in Statements
      /\ stmt'.rows = stmt.rows /\ stmt'.executions = stmt.executions
      /\ stmt'.made = stmt.made /\ stmt'.bound = stmt.bound
      /\ stmt'.cursor = cursor
  BY <1>1, <1>3, <1>4, <1>5 DEF Statements
<1> QED
  BY <1>4, <1>6, <1>7 DEF cursor

\* What depends on the parameter and the account only.
LEMMA ParamKeeps ==
    ASSUME Typed, ParamInv, UNCHANGED paramVars, UNCHANGED fixedVars
    PROVE  /\ ParamInv'
           /\ (store \in BOOLEAN /\ column \in IntTypes)'
           /\ (mixed \in BOOLEAN /\ set_calls \in 0 .. MaxSets)'
           /\ (param \in [type : Kinds, buffer : Regions, number : Values \cup {Null},
                          time : Values \cup {Null}, text : Values \cup {Null}])'
<1>1. /\ param' = param /\ wanted' = wanted /\ mixed' = mixed /\ set_calls' = set_calls
      /\ store' = store /\ column' = column
  BY DEF paramVars, fixedVars
<1>2. ParamInv'
  BY <1>1 DEF ParamInv
<1> QED
  BY <1>1, <1>2 DEF Typed

\* The call tells whether there is a row that is due.
LEMMA InvFetchOwn ==
    ASSUME IInv, NEW s \in ResultSets, sets[s].alive, s = stmt.bound,
           NEW c \in 1 .. Len(stmt.rows) + 1, NEW at \in 1 .. Len(sets[s].rows) + 1,
           Fetch(s, c, at),
           sets[s].execution = stmt.executions /\ ~sets[s].touched /\ ~sets[s].spoiled => c = at
    PROVE  IInv'
<1> DEFINE more == c <= Len(stmt.rows)
           outdated == sets[s].execution # stmt.executions
<1>1. Typed /\ ParamInv /\ \A e \in ResultSets : SetInv(e)
  BY DEF IInv
<1>2. Sound(sets[s]) /\ Showing(sets[s]) /\ Placed(s) /\ InStep(s)
  BY <1>1 DEF SetInv
<1>3. PICK rs : rs = sets[s]
  OBVIOUS
<1>4. PICK r : r = Own(rs, stmt.rows, c, at, stmt.executions)
  OBVIOUS
<1>5. sets' = [sets EXCEPT ![s] = r] /\ stmt'.broken = FALSE
  BY <1>1, <1>3, <1>4, FetchOwn
<1>6. /\ stmt' \in Statements
      /\ stmt'.rows = stmt.rows /\ stmt'.executions = stmt.executions
      /\ stmt'.made = stmt.made /\ stmt'.bound = stmt.bound
      /\ stmt'.cursor = IF more THEN c + 1 ELSE c
      /\ stmt'.cursor <= Len(stmt'.rows) + 1
      /\ UNCHANGED fixedVars /\ UNCHANGED paramVars
      /\ last' = [op |-> "fetch", set |-> s, told |-> more]
  BY <1>1, FetchedStatement
<1>7. /\ rs \in Buffered /\ Sound(rs) /\ Len(rs.rows) \in Nat
      /\ rs.spoiled \in BOOLEAN /\ rs.touched \in BOOLEAN /\ rs.outdated \in BOOLEAN
  BY <1>1, <1>2, <1>3, Objects
<1>8. /\ outdated \in BOOLEAN
      /\ ~outdated /\ ~rs.touched =>
           IF rs.spoiled THEN stmt.rows = <<>> ELSE stmt.rows = rs.rows /\ c = at
  BY <1>2, <1>3 DEF InStep
<1>9. /\ r \in Buffered /\ Sound(r) /\ Showing(r)
      /\ r.execution = rs.execution /\ r.rows = rs.rows /\ r.spoiled = rs.spoiled
      /\ r.touched = rs.touched /\ r.at = at /\ (r.outdated <=> rs.outdated \/ outdated)
  BY <1>1, <1>3, <1>4, <1>7, <1>8, OwnDoes
<1>10. /\ sets' \in [ResultSets -> Buffered \cup {Nothing}]
       /\ sets'[s] = r /\ \A e \in ResultSets \ {s} : sets'[e] = sets[e]
  BY <1>1, <1>5, <1>9 DEF Typed
<1>11. Typed' /\ ParamInv'
  <2>1. /\ ParamInv'
        /\ (store \in BOOLEAN /\ column \in IntTypes)'
        /\ (mixed \in BOOLEAN /\ set_calls \in 0 .. MaxSets)'
        /\ (param \in [type : Kinds, buffer : Regions, number : Values \cup {Null},
                       time : Values \cup {Null}, text : Values \cup {Null}])'
    BY <1>1, <1>6, ParamKeeps
  <2>2. stmt'.bound = stmt'.made
    BY <1>1, <1>6 DEF Typed
  <2> QED
    BY <1>6, <1>10, <2>1, <2>2 DEF Typed
<1>12. BrokenInv'
  BY <1>5 DEF BrokenInv
<1>13. /\ Placed(s)'
       /\ InStep(s)'
  <2>1. Placed(s)'
    <3>1. /\ stmt.executions \in Nat /\ rs.execution \in 1 .. stmt.executions
          /\ s <= stmt.made
          /\ s # stmt.bound \/ rs.outdated => rs.execution < stmt.executions
      BY <1>1, <1>2, <1>3, Statement DEF Placed
    <3>2. r.outdated => rs.execution < stmt.executions
      BY <1>3, <1>9, <3>1
    <3> QED
      BY <1>6, <1>9, <1>10, <3>1, <3>2 DEF Placed
  <2>2. ASSUME r.execution = stmt.executions, ~r.touched
        PROVE  IF r.spoiled THEN stmt.rows = <<>>
               ELSE /\ stmt.rows = r.rows
                    /\ stmt'.cursor = Min({r.at, Len(r.rows)}) + 1
    <3>1. CASE r.spoiled
      BY <1>3, <1>8, <1>9, <2>2, <3>1
    <3>2. CASE ~r.spoiled
      <4>1. stmt.rows = r.rows /\ c = at /\ c \in Nat /\ Len(r.rows) \in Nat
        BY <1>3, <1>7, <1>8, <1>9, <2>2, <3>2
      <4>2. Min({at, Len(r.rows)}) = IF at <= Len(r.rows) THEN at ELSE Len(r.rows)
        BY <4>1, MinOfTwo
      <4> QED
        BY <1>6, <1>9, <3>2, <4>1, <4>2
    <3> QED
      BY <3>1, <3>2
  <2>3. InStep(s)'
    BY <1>6, <1>10, <2>2 DEF InStep
  <2> QED
    BY <2>1, <2>3
<1>14. SetInv(s)'
  BY <1>6, <1>9, <1>10, <1>13, Stays DEF SetInv
<1>15. ASSUME NEW e \in ResultSets \ {s}, sets'[e].alive
       PROVE  SetInv(e)'
  <2>1. sets[e].alive /\ sets'[e] = sets[e]
    BY <1>10, <1>15
  <2>2. Sound(sets[e]) /\ Showing(sets[e]) /\ Placed(e) /\ InStep(e)
    BY <1>1, <2>1 DEF SetInv
  <2>3. Sound(sets[e])' /\ Showing(sets[e])'
    BY <1>6, <2>1, <2>2, OtherKeeps
  <2>4. Placed(e)'
    BY <1>6, <2>1, <2>2 DEF Placed
  <2>5. sets[e].execution < stmt.executions
    BY <2>2 DEF Placed
  <2>6. InStep(e)'
    BY <1>1, <1>6, <2>1, <2>5, Statement, Objects DEF InStep
  <2> QED
    BY <2>3, <2>4, <2>6 DEF SetInv
<1>16. \A e \in ResultSets : SetInv(e)'
  BY <1>14, <1>15 DEF SetInv
<1>17. NextHonest'
  <2>1. ASSUME ~r.touched, ~r.outdated
        PROVE  (more => r.at <= Len(r.rows)) /\ (~more => r.spoiled \/ r.at > Len(r.rows))
    <3>1. IF rs.spoiled THEN stmt.rows = <<>> ELSE stmt.rows = rs.rows /\ c = at
      BY <1>8, <1>9, <2>1
    <3>2. Len(stmt.rows) \in Nat
      BY <1>1, Statement
    <3>3. CASE rs.spoiled
      BY <1>7, <1>9, <3>1, <3>2, <3>3
    <3>4. CASE ~rs.spoiled
      BY <1>7, <1>9, <3>1, <3>2, <3>4
    <3> QED
      BY <1>7, <3>3, <3>4
  <2>2. last'.set = s /\ last'.told = more
    BY <1>6
  <2> QED
    BY <1>10, <2>1, <2>2 DEF NextHonest, Undisturbed
<1> QED
  BY <1>11, <1>12, <1>16, <1>17 DEF IInv

\* A result set with a flag or two changed by a call it is not to be relied on after.
LEMMA LateDoes ==
    ASSUME Typed, NEW rs \in Buffered, Sound(rs),
           NEW more \in BOOLEAN, NEW at \in 0 .. Len(rs.rows) + 1,
           NEW r, r = [rs EXCEPT !.fetched = more, !.at = at, !.outdated = TRUE]
    PROVE  r \in Buffered /\ Sound(r) /\ Showing(r)
<1>1. rs.rows \in AllRows /\ Len(rs.rows) \in Nat /\ at \in Nat
  BY RowsOf DEF Buffered, AllRows
<1>2. /\ r \in Buffered /\ r.at = at /\ r.outdated = TRUE
      /\ r.row = rs.row /\ r.moved = rs.moved /\ r.room = rs.room /\ r.rows = rs.rows
      /\ r.data = rs.data /\ r.touched = rs.touched /\ r.error = rs.error
      /\ r.length = rs.length
  BY <1>1 DEF Buffered
<1> QED
  BY <1>1, <1>2 DEF Sound, Showing

LEMMA TouchedDoes ==
    ASSUME Typed, NEW rs \in Buffered, rs.row = rs.moved, rs.room = MaxLength(rs.rows),
           rs.room <= Len(rs.data), rs.at <= Len(rs.rows) + 1,
           NEW r, r = [rs EXCEPT !.touched = TRUE]
    PROVE  r \in Buffered /\ Sound(r) /\ Showing(r)
<1>1. /\ r \in Buffered /\ r.touched = TRUE /\ r.at = rs.at
      /\ r.row = rs.row /\ r.moved = rs.moved /\ r.room = rs.room /\ r.rows = rs.rows
      /\ r.data = rs.data
  BY DEF Buffered
<1> QED
  BY <1>1 DEF Sound, Showing

LEMMA TruncatedSound ==
    ASSUME Typed, NEW rs \in Buffered, Sound(rs), NEW t, IsText(t),
           NEW r, r = FetchTruncated(rs, t)
    PROVE  r \in Buffered /\ r.rows = rs.rows /\ r.execution = rs.execution
           /\ r.outdated = rs.outdated /\ r.alive
           /\ Sound([r EXCEPT !.outdated = TRUE])
<1>1. /\ r \in Buffered /\ SameIdentity(r, rs)
      /\ Len(r.data) >= Len(rs.data) /\ (rs.row = rs.moved => r.row = r.moved)
      /\ ~rs.error => r = rs
  BY TruncatedDoes
<1>2. /\ rs.row = rs.moved /\ rs.room = MaxLength(rs.rows) /\ rs.room <= Len(rs.data)
      /\ rs.at <= Len(rs.rows) + 1
      /\ ~rs.touched => ~rs.error /\ rs.length <= Len(rs.data)
  BY DEF Sound
<1>3. Len(rs.data) \in Nat /\ Len(r.data) \in Nat /\ rs.room \in Nat
  BY <1>1, LenProperties DEF Buffered
<1>4. /\ r.row = r.moved /\ r.room = MaxLength(r.rows) /\ r.room <= Len(r.data)
      /\ r.at <= Len(r.rows) + 1
      /\ ~r.touched => ~r.error /\ r.length <= Len(r.data)
  BY <1>1, <1>2, <1>3 DEF SameIdentity
<1>5. PICK q : q = [r EXCEPT !.outdated = TRUE]
  OBVIOUS
<1>6. /\ q.row = r.row /\ q.moved = r.moved /\ q.room = r.room /\ q.rows = r.rows
      /\ q.data = r.data /\ q.at = r.at /\ q.touched = r.touched /\ q.error = r.error
      /\ q.length = r.length /\ q.outdated = TRUE
  BY <1>1, <1>5 DEF Buffered
<1>7. Sound(q)
  BY <1>4, <1>6 DEF Sound
<1> QED
  BY <1>1, <1>5, <1>7 DEF SameIdentity, Buffered

\* An outdated call: the result set that was asked is outdated, the one whose row or
\* cursor it took is touched, and the others stay.
LEMMA InvFetchOther ==
    ASSUME IInv, NEW s \in ResultSets, sets[s].alive, s # stmt.bound,
           NEW c \in 1 .. Len(stmt.rows) + 1, NEW at \in 1 .. Len(sets[s].rows) + 1,
           Fetch(s, c, at)
    PROVE  IInv'
<1> DEFINE more == c <= Len(stmt.rows)
<1>1. Typed /\ ParamInv /\ \A e \in ResultSets : SetInv(e)
  BY DEF IInv
<1>2. Sound(sets[s]) /\ Showing(sets[s]) /\ Placed(s) /\ InStep(s)
  BY <1>1 DEF SetInv
<1>3. PICK b \in ResultSets : b = stmt.bound
  BY <1>1, <1>2, BoundExists
<1>4. /\ sets[s].execution < stmt.executions /\ sets[s].execution # stmt.executions
      /\ s # b /\ s <= stmt.made
  BY <1>1, <1>2, <1>3, Objects, Statement DEF Placed
<1>5. /\ sets' = [e \in ResultSets |-> sets'[e]]
      /\ \A e \in ResultSets \ {s, b} : sets'[e] = sets[e]
      /\ sets[b].alive =>
           /\ stmt'.broken = FALSE
           /\ \/ sets'[b] = [sets[b] EXCEPT !.touched = TRUE]
              \/ /\ c \in 1 .. Len(stmt.rows)
                 /\ sets'[b] = [Fetched(sets[b], stmt.rows[c]) EXCEPT !.touched = TRUE]
      /\ ~sets[b].alive => sets'[b] = sets[b]
      /\ \E rs \in {sets[s]} \cup
             {FetchTruncated(sets[s], stmt.rows[i].text) :
                i \in {j \in 1 .. Len(stmt.rows) : stmt.rows[j].text # Null}} :
           sets'[s] = [rs EXCEPT !.fetched = c <= Len(stmt.rows), !.at = at, !.outdated = TRUE]
  <2>1. FetchedLate(s, b, c, at)
    BY <1>1, <1>3, <1>4, FetchOther
  <2> QED
    BY <2>1 DEF FetchedLate
<1>6. /\ stmt' \in Statements
      /\ stmt'.rows = stmt.rows /\ stmt'.executions = stmt.executions
      /\ stmt'.made = stmt.made /\ stmt'.bound = stmt.bound
      /\ stmt'.cursor <= Len(stmt'.rows) + 1
      /\ UNCHANGED fixedVars /\ UNCHANGED paramVars
      /\ last' = [op |-> "fetch", set |-> s, told |-> more]
  BY <1>1, FetchedStatement
<1>7. PICK rs \in Buffered :
        /\ sets'[s] = [rs EXCEPT !.fetched = c <= Len(stmt.rows), !.at = at, !.outdated = TRUE]
        /\ rs.rows = sets[s].rows /\ rs.execution = sets[s].execution
        /\ Sound([rs EXCEPT !.outdated = TRUE])
  <2>1. PICK q \in {sets[s]} \cup
             {FetchTruncated(sets[s], stmt.rows[i].text) :
                i \in {j \in 1 .. Len(stmt.rows) : stmt.rows[j].text # Null}} :
           sets'[s] = [q EXCEPT !.fetched = c <= Len(stmt.rows), !.at = at, !.outdated = TRUE]
    BY <1>5
  <2>2. sets[s] \in Buffered /\ stmt.rows \in AllRows
    BY <1>1, Objects, Statement
  <2>3. CASE q = sets[s]
    <3>1. PICK p : p = [q EXCEPT !.outdated = TRUE]
      OBVIOUS
    <3>2. /\ p.row = q.row /\ p.moved = q.moved /\ p.room = q.room /\ p.rows = q.rows
          /\ p.data = q.data /\ p.at = q.at /\ p.touched = q.touched /\ p.error = q.error
          /\ p.length = q.length /\ p.outdated = TRUE
      BY <2>2, <2>3, <3>1 DEF Buffered
    <3>3. Sound(q)
      BY <1>2, <2>3
    <3>4. Sound(p)
      BY <3>2, <3>3 DEF Sound
    <3> QED
      BY <2>1, <2>2, <2>3, <3>1, <3>4
  <2>4. CASE q # sets[s]
    <3>1. PICK i \in 1 .. Len(stmt.rows) :
            stmt.rows[i].text # Null /\ q = FetchTruncated(sets[s], stmt.rows[i].text)
      BY <2>4
    <3>2. PICK t : t = stmt.rows[i].text
      OBVIOUS
    <3>3. IsText(t) /\ q = FetchTruncated(sets[s], t)
      BY <2>2, <3>1, <3>2, RowsOf
    <3>4. PICK o \in Buffered : o = sets[s]
      BY <2>2
    <3>5. /\ q \in Buffered /\ q.rows = o.rows /\ q.execution = o.execution
          /\ Sound([q EXCEPT !.outdated = TRUE])
      BY <1>1, <1>2, <3>3, <3>4, TruncatedSound
    <3> QED
      BY <2>1, <3>4, <3>5
  <2> QED
    BY <2>3, <2>4
<1>8. PICK r : r = sets'[s]
  OBVIOUS
<1>9. /\ r \in Buffered /\ Sound(r) /\ Showing(r)
      /\ r.rows = sets[s].rows /\ r.execution = sets[s].execution /\ r.outdated = TRUE
  <2>1. PICK q : q = [rs EXCEPT !.outdated = TRUE]
    OBVIOUS
  <2>2. q \in Buffered /\ q.rows = rs.rows /\ q.execution = rs.execution /\ Sound(q)
    BY <1>7, <2>1 DEF Buffered
  <2>3. more \in BOOLEAN /\ at \in 0 .. Len(q.rows) + 1
    <3>1. Len(q.rows) \in Nat
      BY <2>2, RowsOf DEF Buffered, AllRows
    <3> QED
      BY <1>7, <2>2, <3>1
  <2> HIDE DEF more
  <2>4. r = [q EXCEPT !.fetched = more, !.at = at, !.outdated = TRUE]
    BY <1>7, <1>8, <2>1 DEF more, Buffered
  <2>5. r \in Buffered /\ Sound(r) /\ Showing(r)
    BY <1>1, <2>2, <2>3, <2>4, LateDoes
  <2>6. r.rows = q.rows /\ r.execution = q.execution /\ r.outdated = TRUE
    BY <2>2, <2>4 DEF Buffered
  <2> QED
    BY <1>7, <2>2, <2>5, <2>6
<1>10. sets[b].alive =>
         /\ sets'[b] \in Buffered /\ sets'[b].touched = TRUE
         /\ sets'[b].execution = sets[b].execution /\ sets'[b].rows = sets[b].rows
         /\ sets'[b].outdated = sets[b].outdated
         /\ Sound(sets[b])' /\ Showing(sets[b])'
  <2> SUFFICES ASSUME sets[b].alive
               PROVE  /\ sets'[b] \in Buffered /\ sets'[b].touched = TRUE
                      /\ sets'[b].execution = sets[b].execution /\ sets'[b].rows = sets[b].rows
                      /\ sets'[b].outdated = sets[b].outdated
                      /\ Sound(sets[b])' /\ Showing(sets[b])'
    OBVIOUS
  <2>1. PICK o \in Buffered : o = sets[b]
    BY <1>1, Objects
  <2>2. Sound(o)
    BY <1>1, <2>1 DEF SetInv
  <2>3. /\ o.row = o.moved /\ o.room = MaxLength(o.rows)
        /\ o.room <= Len(o.data) /\ o.at <= Len(o.rows) + 1
    BY <2>2 DEF Sound
  <2>4. PICK q \in Buffered :
          /\ sets'[b] = [q EXCEPT !.touched = TRUE]
          /\ q.row = q.moved /\ q.room = MaxLength(q.rows)
          /\ q.room <= Len(q.data) /\ q.at <= Len(q.rows) + 1
          /\ q.execution = o.execution /\ q.rows = o.rows /\ q.outdated = o.outdated
    <3>1. CASE sets'[b] = [sets[b] EXCEPT !.touched = TRUE]
      BY <2>1, <2>3, <3>1
    <3>2. CASE /\ c \in 1 .. Len(stmt.rows)
               /\ sets'[b] = [Fetched(sets[b], stmt.rows[c]) EXCEPT !.touched = TRUE]
      <4>1. PICK row : row = stmt.rows[c]
        OBVIOUS
      <4>2. IsRow(row) /\ column \in IntTypes
        BY <1>1, <3>2, <4>1, FetchedRow DEF Typed
      <4>3. PICK f : f = Fetched(o, row)
        OBVIOUS
      <4>4. /\ f \in Buffered /\ SameIdentity(f, o)
            /\ f.moved = o.moved /\ f.row = o.row /\ Len(f.data) = Len(o.data)
        BY <2>3, <4>2, <4>3, FetchedDoes
      <4>5. sets'[b] = [f EXCEPT !.touched = TRUE]
        BY <2>1, <3>2, <4>1, <4>3
      <4> QED
        BY <2>3, <4>4, <4>5 DEF SameIdentity
    <3> QED
      BY <1>5, <3>1, <3>2
  <2>5. PICK p : p = sets'[b]
    OBVIOUS
  <2>6. p \in Buffered /\ Sound(p) /\ Showing(p)
    BY <1>1, <2>4, <2>5, TouchedDoes
  <2>7. /\ p.touched = TRUE /\ p.execution = q.execution /\ p.rows = q.rows
        /\ p.outdated = q.outdated
    BY <2>4, <2>5 DEF Buffered
  <2>8. Sound(sets[b])' /\ Showing(sets[b])'
    BY <1>6, <2>5, <2>6, Stays
  <2> QED
    BY <2>1, <2>4, <2>5, <2>6, <2>7, <2>8
<1>11. sets' \in [ResultSets -> Buffered \cup {Nothing}]
  <2>1. sets' = [e \in ResultSets |-> sets'[e]]
    BY <1>5
  <2>2. \A e \in ResultSets : sets[e] \in Buffered \cup {Nothing}
    BY <1>1 DEF Typed
  <2>3. sets'[b] \in Buffered \cup {Nothing}
    BY <1>5, <1>10, <2>2
  <2>4. \A e \in ResultSets : sets'[e] \in Buffered \cup {Nothing}
    BY <1>5, <1>8, <1>9, <2>2, <2>3
  <2> QED
    BY <2>1, <2>4
<1>12. Typed' /\ ParamInv'
  <2>1. /\ ParamInv'
        /\ (store \in BOOLEAN /\ column \in IntTypes)'
        /\ (mixed \in BOOLEAN /\ set_calls \in 0 .. MaxSets)'
        /\ (param \in [type : Kinds, buffer : Regions, number : Values \cup {Null},
                       time : Values \cup {Null}, text : Values \cup {Null}])'
    BY <1>1, <1>6, ParamKeeps
  <2>2. stmt'.bound = stmt'.made
    BY <1>1, <1>6 DEF Typed
  <2> QED
    BY <1>6, <1>11, <2>1, <2>2 DEF Typed
<1>13. BrokenInv'
  <2>1. sets'[s].alive /\ sets'[s].outdated
    BY <1>8, <1>9 DEF Buffered
  <2> QED
    BY <2>1 DEF BrokenInv
<1>14. SetInv(s)'
  <2>1. Sound(sets[s])' /\ Showing(sets[s])'
    BY <1>6, <1>8, <1>9, Stays
  <2>2. Placed(s)'
    BY <1>2, <1>4, <1>6, <1>8, <1>9 DEF Placed
  <2>3. InStep(s)'
    BY <1>4, <1>6, <1>8, <1>9 DEF InStep
  <2> QED
    BY <2>1, <2>2, <2>3 DEF SetInv
<1>15. SetInv(b)'
  <2>1. CASE sets[b].alive
    <3>1. Placed(b)
      BY <1>1, <2>1 DEF SetInv
    <3>2. Placed(b)'
      BY <1>3, <1>6, <1>10, <2>1, <3>1 DEF Placed
    <3>3. InStep(b)'
      BY <1>10, <2>1 DEF InStep
    <3> QED
      BY <1>10, <2>1, <3>2, <3>3 DEF SetInv
  <2>2. CASE ~sets[b].alive
    BY <1>5, <2>2 DEF SetInv
  <2> QED
    BY <2>1, <2>2
<1>16. ASSUME NEW e \in ResultSets \ {s, b}, sets'[e].alive
       PROVE  SetInv(e)'
  <2>1. sets[e].alive /\ sets'[e] = sets[e]
    BY <1>5, <1>16
  <2>2. Sound(sets[e]) /\ Showing(sets[e]) /\ Placed(e) /\ InStep(e)
    BY <1>1, <2>1 DEF SetInv
  <2>3. Sound(sets[e])' /\ Showing(sets[e])'
    BY <1>6, <2>1, <2>2, OtherKeeps
  <2>4. Placed(e)'
    BY <1>6, <2>1, <2>2 DEF Placed
  <2>5. sets[e].execution < stmt.executions
    BY <1>3, <2>2 DEF Placed
  <2>6. InStep(e)'
    BY <1>1, <1>6, <2>1, <2>5, Statement, Objects DEF InStep
  <2> QED
    BY <2>3, <2>4, <2>6 DEF SetInv
<1>17. \A e \in ResultSets : SetInv(e)'
  BY <1>14, <1>15, <1>16 DEF SetInv
<1>18. NextHonest'
  BY <1>6, <1>8, <1>9 DEF NextHonest, Undisturbed
<1> QED
  BY <1>12, <1>13, <1>17, <1>18 DEF IInv

LEMMA InvFetch ==
    ASSUME IInv, NEW s \in ResultSets, sets[s].alive,
           NEW c \in 1 .. Len(stmt.rows) + 1, NEW at \in 1 .. Len(sets[s].rows) + 1,
           Fetch(s, c, at),
           sets[s].execution = stmt.executions /\ ~sets[s].touched /\ ~sets[s].spoiled => c = at
    PROVE  IInv'
<1>1. CASE s = stmt.bound
  BY <1>1, InvFetchOwn
<1>2. CASE s # stmt.bound
  BY <1>2, InvFetchOther
<1> QED
  BY <1>1, <1>2

\* A call that fails leaves the statement at a row, or without rows, and tells of none.
\* The result set that was asked is touched or its rows are gone; if it is not the one
\* bound last, that one is touched as by any outdated call.
Kept(n, o) ==
    /\ n \in Buffered /\ Sound(n) /\ Showing(n)
    /\ n.execution = o.execution /\ n.rows = o.rows

Failed(s, b) ==
    /\ stmt' \in Statements /\ stmt'.cursor <= Len(stmt'.rows) + 1
    /\ stmt'.executions = stmt.executions /\ stmt'.made = stmt.made
    /\ stmt'.bound = stmt.bound /\ stmt'.broken = FALSE
    /\ UNCHANGED fixedVars /\ UNCHANGED paramVars
    /\ last'.op \in {"fetch", "throw"} /\ last'.set = s /\ last'.told = FALSE
    /\ sets' = [e \in ResultSets |-> sets'[e]]
    /\ \A e \in ResultSets \ {s, b} : sets'[e] = sets[e]
    /\ Kept(sets'[s], sets[s])
    /\ sets'[s].outdated <=> sets[s].outdated \/ sets[s].execution # stmt.executions
    /\ sets'[s].touched \/ (sets'[s].spoiled /\ stmt'.rows = <<>>)
    /\ s # b /\ sets[b].alive =>
         /\ Kept(sets'[b], sets[b])
         /\ sets'[b].touched /\ sets'[b].outdated = sets[b].outdated
    /\ s # b /\ ~sets[b].alive => sets'[b] = sets[b]

LEMMA DisturbDoes ==
    ASSUME NEW s \in ResultSets, NEW b \in ResultSets, b = stmt.bound,
           NEW all, all = [e \in ResultSets |-> all[e]], NEW d, d = Disturb(s, all)
    PROVE  /\ d = [e \in ResultSets |-> d[e]]
           /\ \A e \in ResultSets \ {b} : d[e] = all[e]
           /\ b = s \/ ~all[b].alive => d[b] = all[b]
           /\ b # s /\ all[b].alive => d[b] = [all[b] EXCEPT !.touched = TRUE]
BY DEF Disturb

\* A result set of which nothing more is promised.
LEMMA RuinedDoes ==
    ASSUME Typed, NEW rs \in Buffered, rs.row = rs.moved, rs.room = MaxLength(rs.rows),
           rs.room <= Len(rs.data), NEW at \in 1 .. Len(rs.rows) + 1, NEW late \in BOOLEAN,
           NEW r, r = [rs EXCEPT !.at = at, !.outdated = late, !.touched = TRUE]
    PROVE  Kept(r, rs) /\ r.touched /\ r.outdated = late
<1>1. Len(rs.rows) \in Nat /\ at \in Nat
  BY RowsOf DEF Buffered, AllRows
<1>2. /\ r \in Buffered /\ r.touched = TRUE /\ r.at = at
      /\ r.row = rs.row /\ r.moved = rs.moved /\ r.room = rs.room /\ r.rows = rs.rows
      /\ r.data = rs.data /\ r.execution = rs.execution /\ r.outdated = late
  BY <1>1 DEF Buffered
<1> QED
  BY <1>1, <1>2 DEF Kept, Sound, Showing

\* The result set whose row, or whose cursor, was taken.
LEMMA RobbedDoes ==
    ASSUME Typed, NEW o \in Buffered, Sound(o),
           NEW q \in Buffered, SameIdentity(q, o), q.moved = o.moved, q.row = o.row,
           Len(q.data) = Len(o.data), NEW p, p = [q EXCEPT !.touched = TRUE]
    PROVE  Kept(p, o) /\ p.touched /\ p.outdated = o.outdated
<1>1. /\ q.row = q.moved /\ q.room = MaxLength(q.rows) /\ q.room <= Len(q.data)
      /\ q.at <= Len(q.rows) + 1
      /\ q.execution = o.execution /\ q.rows = o.rows /\ q.outdated = o.outdated
  BY DEF Sound, SameIdentity
<1>2. p \in Buffered /\ Sound(p) /\ Showing(p)
  BY <1>1, TouchedDoes
<1>3. /\ p.touched = TRUE /\ p.execution = q.execution /\ p.rows = q.rows
      /\ p.outdated = q.outdated
  BY DEF Buffered
<1> QED
  BY <1>1, <1>2, <1>3 DEF Kept

LEMMA FetchFailsDoes ==
    ASSUME IInv, ~stmt.broken, NEW s \in ResultSets, sets[s].alive, NEW b \in ResultSets,
           b = stmt.bound, NEW at \in 1 .. Len(sets[s].rows) + 1, FetchFails(s, at)
    PROVE  Failed(s, b)
<1>1. Typed /\ \A e \in ResultSets : SetInv(e)
  BY DEF IInv
<1>2. PICK o \in Buffered : o = sets[s]
  BY <1>1, Objects
<1>3. PICK outdated \in BOOLEAN : outdated = (o.execution # stmt.executions)
  OBVIOUS
<1>4. PICK r : r = [o EXCEPT !.fetched = FALSE, !.at = at, !.outdated = @ \/ outdated,
                             !.spoiled = TRUE]
  OBVIOUS
<1>5. PICK marked : marked = [sets EXCEPT ![s] = r]
  OBVIOUS
<1>6. /\ DOMAIN sets = ResultSets /\ marked = [e \in ResultSets |-> marked[e]]
      /\ marked[s] = r /\ \A e \in ResultSets \ {s} : marked[e] = sets[e]
  BY <1>1, <1>5 DEF Typed
<1>7. /\ sets' = Disturb(s, marked)
      /\ stmt' = [stmt EXCEPT !.rows = <<>>, !.cursor = 1,
                              !.strays = IF outdated THEN @ + 1 ELSE @]
      /\ outdated => stmt.strays < MaxOutdated
      /\ last' = [op |-> "fetch", set |-> s, told |-> FALSE]
      /\ UNCHANGED fixedVars /\ UNCHANGED paramVars
  <2>1. [sets EXCEPT ![s].fetched = FALSE, ![s].at = at,
                     ![s].outdated = @ \/ outdated, ![s].spoiled = TRUE] = marked
    BY <1>2, <1>4, <1>5, <1>6
  <2> QED
    BY <1>2, <1>3, <2>1 DEF FetchFails
<1>8. /\ stmt' \in Statements /\ stmt'.rows = <<>> /\ stmt'.cursor = 1
      /\ stmt'.executions = stmt.executions /\ stmt'.made = stmt.made
      /\ stmt'.bound = stmt.bound /\ stmt'.broken = FALSE
  <2>1. PICK strays : strays = IF outdated THEN stmt.strays + 1 ELSE stmt.strays
    OBVIOUS
  <2>2. /\ stmt \in Statements /\ <<>> \in AllRows /\ 1 \in Nat \ {0}
        /\ stmt.broken = FALSE
    BY <1>1, Statement DEF AllRows, Statements
  <2>3. strays \in 0 .. MaxOutdated
    BY <1>7, <2>1, <2>2, Bounds DEF Statements
  <2>4. stmt' = [stmt EXCEPT !.rows = <<>>, !.cursor = 1, !.strays = strays]
    BY <1>7, <2>1
  <2> QED
    BY <2>2, <2>3, <2>4 DEF Statements
<1>9. stmt'.cursor <= Len(stmt'.rows) + 1
  BY <1>8, EmptySeq
<1>10. Sound(o) /\ Len(o.rows) \in Nat /\ o.outdated \in BOOLEAN /\ at \in Nat
  BY <1>1, <1>2, Objects DEF SetInv
<1>11. Kept(r, o) /\ r.spoiled /\ (r.outdated <=> o.outdated \/ outdated)
  <2>1. /\ r \in Buffered /\ r.fetched = FALSE /\ r.at = at /\ r.spoiled = TRUE
        /\ r.data = o.data /\ r.length = o.length /\ r.error = o.error /\ r.room = o.room
        /\ r.moved = o.moved /\ r.row = o.row /\ r.damaged = o.damaged
        /\ r.execution = o.execution /\ r.rows = o.rows /\ r.touched = o.touched
        /\ (r.outdated <=> o.outdated \/ outdated)
    BY <1>4, <1>10 DEF Buffered
  <2>2. Sound(r)
    BY <1>2, <1>10, <2>1 DEF Sound
  <2>3. Showing(r)
    BY <2>1 DEF Showing
  <2> QED
    BY <2>1, <2>2, <2>3 DEF Kept
<1>12. /\ sets' = [e \in ResultSets |-> sets'[e]]
       /\ \A e \in ResultSets \ {b} : sets'[e] = marked[e]
       /\ b = s \/ ~marked[b].alive => sets'[b] = marked[b]
       /\ b # s /\ marked[b].alive => sets'[b] = [marked[b] EXCEPT !.touched = TRUE]
  BY <1>6, <1>7, DisturbDoes
<1>13. sets'[s] = r
  BY <1>6, <1>12
<1>14. ASSUME s # b, sets[b].alive
       PROVE  /\ Kept(sets'[b], sets[b])
              /\ sets'[b].touched /\ sets'[b].outdated = sets[b].outdated
  <2>1. PICK q \in Buffered : q = sets[b]
    BY <1>1, <1>14, Objects
  <2>2. PICK p : p = [q EXCEPT !.touched = TRUE]
    OBVIOUS
  <2>3. sets'[b] = p
    BY <1>6, <1>12, <1>14, <2>1, <2>2
  <2>4. Sound(q) /\ SameIdentity(q, q)
    BY <1>1, <1>14, <2>1 DEF SetInv, SameIdentity
  <2>5. Kept(p, q) /\ p.touched /\ p.outdated = q.outdated
    BY <1>1, <2>2, <2>4, RobbedDoes
  <2> QED
    BY <2>1, <2>3, <2>5
<1>15. s # b /\ ~sets[b].alive => sets'[b] = sets[b]
  BY <1>6, <1>12
<1>16. \A e \in ResultSets \ {s, b} : sets'[e] = sets[e]
  BY <1>6, <1>12
<1>17. sets'[s].touched \/ (sets'[s].spoiled /\ stmt'.rows = <<>>)
  BY <1>8, <1>11, <1>13
<1> QED
  BY <1>2, <1>3, <1>7, <1>8, <1>9, <1>11, <1>12, <1>13, <1>14, <1>15, <1>16, <1>17 DEF Failed

\* The row was written through the copy of the bind before the call failed; the result set
\* that was asked has then a larger buffer, or not even that.
LEMMA FetchCutShortDoes ==
    ASSUME IInv, ~stmt.broken, NEW s \in ResultSets, sets[s].alive, NEW b \in ResultSets,
           b = stmt.bound, NEW c \in 1 .. Len(stmt.rows) + 1,
           NEW at \in 1 .. Len(sets[s].rows) + 1, FetchCutShort(s, c, at)
    PROVE  Failed(s, b)
<1>1. Typed /\ \A e \in ResultSets : SetInv(e)
  BY DEF IInv
<1>2. PICK row : row = stmt.rows[c]
  OBVIOUS
<1>3. PICK o \in Buffered : o = sets[s]
  BY <1>1, Objects
<1>4. PICK outdated \in BOOLEAN : outdated = (o.execution # stmt.executions)
  OBVIOUS
<1>5. PICK all : all = Filled(row)
  OBVIOUS
<1>6. PICK asked : asked = all[s]
  OBVIOUS
<1>7. /\ c <= Len(stmt.rows) /\ sets[b].alive
      /\ outdated => stmt.strays < MaxOutdated
      /\ stmt' = [stmt EXCEPT !.cursor = c + 1, !.strays = IF outdated THEN @ + 1 ELSE @]
      /\ UNCHANGED fixedVars /\ UNCHANGED paramVars
  BY <1>3, <1>4 DEF FetchCutShort
<1>8a. PICK threw \in BOOLEAN :
        /\ sets' = Disturb(s, [all EXCEPT ![s] =
                     [(IF threw THEN asked ELSE [Enlarged(asked) EXCEPT !.fetched = FALSE])
                        EXCEPT !.at = at, !.outdated = @ \/ outdated, !.touched = TRUE]])
        /\ last' = [op |-> IF threw THEN "throw" ELSE "fetch", set |-> s, told |-> FALSE]
  BY <1>2, <1>3, <1>4, <1>5, <1>6 DEF FetchCutShort
<1>8b. PICK left : left = IF threw THEN asked ELSE [Enlarged(asked) EXCEPT !.fetched = FALSE]
  OBVIOUS
<1>8. /\ left = IF threw THEN asked ELSE [Enlarged(asked) EXCEPT !.fetched = FALSE]
      /\ sets' = Disturb(s, [all EXCEPT ![s] =
                   [left EXCEPT !.at = at, !.outdated = @ \/ outdated, !.touched = TRUE]])
      /\ last' = [op |-> IF threw THEN "throw" ELSE "fetch", set |-> s, told |-> FALSE]
  BY <1>8a, <1>8b
<1>9. PICK r : r = [left EXCEPT !.at = at, !.outdated = @ \/ outdated, !.touched = TRUE]
  OBVIOUS
<1>10. PICK marked : marked = [all EXCEPT ![s] = r]
  OBVIOUS
<1>11. IsRow(row) /\ column \in IntTypes /\ Len(stmt.rows) \in Nat
  <2>1. Len(stmt.rows) \in Nat
    BY <1>1, Statement
  <2>2. c \in 1 .. Len(stmt.rows)
    BY <1>7, <2>1
  <2> QED
    BY <1>1, <1>2, <2>1, <2>2, FetchedRow DEF Typed
<1>12. PICK q \in Buffered : q = sets[b]
  BY <1>1, <1>7, Objects
<1>13. PICK f : f = Fetched(q, row)
  OBVIOUS
<1>14. Sound(o) /\ Sound(q)
  BY <1>1, <1>3, <1>7, <1>12 DEF SetInv
<1>15. /\ f \in Buffered /\ SameIdentity(f, q)
       /\ f.moved = q.moved /\ f.row = q.row /\ Len(f.data) = Len(q.data)
  BY <1>11, <1>12, <1>13, <1>14, FetchedDoes DEF Sound
<1>16. /\ all = [e \in ResultSets |-> all[e]] /\ all[b] = f
       /\ \A e \in ResultSets \ {b} : all[e] = sets[e]
  <2>1. all = [sets EXCEPT ![b] = f] /\ DOMAIN sets = ResultSets
    BY <1>1, <1>5, <1>12, <1>13 DEF Filled, Fetched, Typed
  <2> QED
    BY <2>1
<1>17. /\ marked = [e \in ResultSets |-> marked[e]] /\ marked[s] = r
       /\ \A e \in ResultSets \ {s} : marked[e] = all[e]
  BY <1>10, <1>16
<1>18. /\ asked \in Buffered /\ asked.row = asked.moved
       /\ asked.room = MaxLength(asked.rows) /\ asked.room <= Len(asked.data)
       /\ asked.execution = o.execution /\ asked.rows = o.rows /\ asked.outdated = o.outdated
  <2>1. CASE s = b
    BY <1>3, <1>6, <1>12, <1>14, <1>15, <1>16, <2>1 DEF Sound, SameIdentity
  <2>2. CASE s # b
    BY <1>3, <1>6, <1>14, <1>16, <2>2 DEF Sound
  <2> QED
    BY <2>1, <2>2
<1>19. /\ left \in Buffered /\ left.row = left.moved
       /\ left.room = MaxLength(left.rows) /\ left.room <= Len(left.data)
       /\ left.execution = o.execution /\ left.rows = o.rows /\ left.outdated = o.outdated
  <2>1. CASE threw
    BY <1>8, <1>18, <2>1
  <2>2. CASE ~threw
    <3>1. PICK e : e = Enlarged(asked)
      OBVIOUS
    <3>2. /\ e \in Buffered /\ SameIdentity(e, asked) /\ e.row = e.moved
          /\ Len(e.data) \in Nat /\ Len(e.data) >= Len(asked.data)
      BY <1>18, <3>1, EnlargedDoes
    <3>3. Len(asked.data) \in Nat /\ asked.room \in Nat
      BY <1>18, LenProperties DEF Buffered
    <3>4. /\ e.room = MaxLength(e.rows) /\ e.room <= Len(e.data)
          /\ e.execution = o.execution /\ e.rows = o.rows /\ e.outdated = o.outdated
      BY <1>18, <3>2, <3>3 DEF SameIdentity
    <3>5. left = [e EXCEPT !.fetched = FALSE]
      BY <1>8, <2>2, <3>1
    <3>6. /\ left \in Buffered /\ left.row = e.row /\ left.moved = e.moved
          /\ left.room = e.room /\ left.rows = e.rows /\ left.data = e.data
          /\ left.execution = e.execution /\ left.outdated = e.outdated
      BY <3>2, <3>5 DEF Buffered
    <3> QED
      BY <3>2, <3>4, <3>6
  <2> QED
    BY <2>1, <2>2
<1>20. Kept(r, o) /\ r.touched /\ (r.outdated <=> o.outdated \/ outdated)
  <2>1. at \in 1 .. Len(left.rows) + 1
    BY <1>3, <1>19
  <2>2. PICK late \in BOOLEAN : late = (left.outdated \/ outdated)
    OBVIOUS
  <2>3. r = [left EXCEPT !.at = at, !.outdated = late, !.touched = TRUE]
    BY <1>9, <2>2
  <2>4. /\ left \in Buffered /\ left.row = left.moved
        /\ left.room = MaxLength(left.rows) /\ left.room <= Len(left.data)
    BY <1>19
  <2>5. Kept(r, left) /\ r.touched /\ r.outdated = late
    BY <1>1, <2>1, <2>3, <2>4, RuinedDoes
  <2> QED
    BY <1>19, <2>2, <2>5 DEF Kept
<1>21. /\ stmt' \in Statements /\ stmt'.rows = stmt.rows /\ stmt'.cursor = c + 1
       /\ stmt'.executions = stmt.executions /\ stmt'.made = stmt.made
       /\ stmt'.bound = stmt.bound /\ stmt'.broken = FALSE
  <2>1. PICK strays : strays = IF outdated THEN stmt.strays + 1 ELSE stmt.strays
    OBVIOUS
  <2>2. stmt \in Statements /\ c + 1 \in Nat \ {0} /\ stmt.broken = FALSE
    BY <1>1, <1>11, Statement DEF Statements
  <2>3. strays \in 0 .. MaxOutdated
    <3>1. outdated => stmt.strays < MaxOutdated
      BY <1>7
    <3>2. stmt.strays \in 0 .. MaxOutdated /\ MaxOutdated \in Nat
      BY <2>2, Bounds DEF Statements
    <3> QED
      BY <2>1, <3>1, <3>2
  <2>4. stmt' = [stmt EXCEPT !.cursor = c + 1, !.strays = strays]
    BY <1>7, <2>1
  <2> QED
    BY <2>2, <2>3, <2>4 DEF Statements
<1>22. stmt'.cursor <= Len(stmt'.rows) + 1
  BY <1>7, <1>11, <1>21
<1>23. /\ sets' = [e \in ResultSets |-> sets'[e]]
       /\ \A e \in ResultSets \ {b} : sets'[e] = marked[e]
       /\ b = s \/ ~marked[b].alive => sets'[b] = marked[b]
       /\ b # s /\ marked[b].alive => sets'[b] = [marked[b] EXCEPT !.touched = TRUE]
  <2>1. sets' = Disturb(s, marked)
    BY <1>8, <1>9, <1>10
  <2> QED
    BY <1>17, <2>1, DisturbDoes
<1>24. sets'[s] = r
  BY <1>17, <1>23
<1>25. ASSUME s # b
       PROVE  /\ Kept(sets'[b], sets[b])
              /\ sets'[b].touched /\ sets'[b].outdated = sets[b].outdated
  <2>1. PICK p : p = [f EXCEPT !.touched = TRUE]
    OBVIOUS
  <2>2. marked[b] = f /\ f.alive
    BY <1>15, <1>16, <1>17, <1>25 DEF Buffered
  <2>3. sets'[b] = p
    BY <1>23, <1>25, <2>1, <2>2
  <2>4. Kept(p, q) /\ p.touched /\ p.outdated = q.outdated
    BY <1>1, <1>14, <1>15, <2>1, RobbedDoes
  <2> QED
    BY <1>12, <2>3, <2>4
<1>26. \A e \in ResultSets \ {s, b} : sets'[e] = sets[e]
  BY <1>16, <1>17, <1>23
<1>27. last'.op \in {"fetch", "throw"} /\ last'.set = s /\ last'.told = FALSE
  BY <1>8
<1> QED
  BY <1>3, <1>4, <1>7, <1>20, <1>21, <1>22, <1>23, <1>24, <1>25, <1>26, <1>27 DEF Failed

LEMMA InvFailed ==
    ASSUME IInv, NEW s \in ResultSets, sets[s].alive, NEW b \in ResultSets, b = stmt.bound,
           Failed(s, b)
    PROVE  IInv'
<1>1. Typed /\ ParamInv /\ \A e \in ResultSets : SetInv(e)
  BY DEF IInv
<1>2. /\ stmt' \in Statements /\ stmt'.cursor <= Len(stmt'.rows) + 1
      /\ stmt'.executions = stmt.executions /\ stmt'.made = stmt.made
      /\ stmt'.bound = stmt.bound /\ stmt'.broken = FALSE
      /\ UNCHANGED fixedVars /\ UNCHANGED paramVars
      /\ last'.op \in {"fetch", "throw"} /\ last'.set = s /\ last'.told = FALSE
  BY DEF Failed
<1>3. PICK r : r = sets'[s]
  OBVIOUS
<1>4. /\ r \in Buffered /\ Sound(r) /\ Showing(r)
      /\ r.execution = sets[s].execution /\ r.rows = sets[s].rows
      /\ r.outdated <=> sets[s].outdated \/ sets[s].execution # stmt.executions
      /\ r.touched \/ (r.spoiled /\ stmt'.rows = <<>>)
  BY <1>3 DEF Failed, Kept
<1>5. sets' \in [ResultSets -> Buffered \cup {Nothing}]
  <2>1. /\ sets' = [e \in ResultSets |-> sets'[e]]
        /\ \A e \in ResultSets \ {s, b} : sets'[e] = sets[e]
        /\ s # b => sets'[b] \in Buffered \/ sets'[b] = sets[b]
    BY DEF Failed, Kept
  <2>2. \A e \in ResultSets : sets[e] \in Buffered \cup {Nothing}
    BY <1>1 DEF Typed
  <2>3. \A e \in ResultSets : sets'[e] \in Buffered \cup {Nothing}
    BY <1>3, <1>4, <2>1, <2>2
  <2> QED
    BY <2>1, <2>3
<1>6. Typed' /\ ParamInv'
  <2>1. /\ ParamInv'
        /\ (store \in BOOLEAN /\ column \in IntTypes)'
        /\ (mixed \in BOOLEAN /\ set_calls \in 0 .. MaxSets)'
        /\ (param \in [type : Kinds, buffer : Regions, number : Values \cup {Null},
                       time : Values \cup {Null}, text : Values \cup {Null}])'
    BY <1>1, <1>2, ParamKeeps
  <2>2. stmt'.bound = stmt'.made
    BY <1>1, <1>2 DEF Typed
  <2> QED
    BY <1>2, <1>5, <2>1, <2>2 DEF Typed
<1>7. SetInv(s)'
  <2>1. Sound(sets[s])' /\ Showing(sets[s])'
    BY <1>2, <1>3, <1>4, Stays
  <2>2. Placed(s)'
    <3>1. /\ stmt.executions \in Nat /\ sets[s].execution \in 1 .. stmt.executions
          /\ s <= stmt.made
          /\ s # stmt.bound \/ sets[s].outdated => sets[s].execution < stmt.executions
      BY <1>1, Statement DEF SetInv, Placed
    <3> QED
      BY <1>2, <1>3, <1>4, <3>1 DEF Placed
  <2>3. InStep(s)'
    BY <1>3, <1>4 DEF InStep
  <2> QED
    BY <2>1, <2>2, <2>3 DEF SetInv
<1>8. ASSUME s # b
      PROVE  SetInv(b)'
  <2>1. CASE sets[b].alive
    <3>1. PICK p : p = sets'[b]
      OBVIOUS
    <3>2. /\ p \in Buffered /\ Sound(p) /\ Showing(p)
          /\ p.execution = sets[b].execution /\ p.touched /\ p.outdated = sets[b].outdated
      BY <1>8, <2>1, <3>1 DEF Failed, Kept
    <3>3. Sound(sets[b])' /\ Showing(sets[b])'
      BY <1>2, <3>1, <3>2, Stays
    <3>4. Placed(b)
      BY <1>1, <2>1 DEF SetInv
    <3>5. Placed(b)'
      BY <1>2, <3>1, <3>2, <3>4 DEF Placed
    <3>6. InStep(b)'
      BY <3>1, <3>2 DEF InStep
    <3> QED
      BY <3>3, <3>5, <3>6 DEF SetInv
  <2>2. CASE ~sets[b].alive
    <3>1. sets'[b] = sets[b]
      BY <1>8, <2>2 DEF Failed
    <3> QED
      BY <2>2, <3>1 DEF SetInv
  <2> QED
    BY <2>1, <2>2
<1>9. ASSUME NEW e \in ResultSets \ {s, b}, sets'[e].alive
      PROVE  SetInv(e)'
  <2>1. sets[e].alive /\ sets'[e] = sets[e]
    BY <1>9 DEF Failed
  <2>2. Sound(sets[e]) /\ Showing(sets[e]) /\ Placed(e)
    BY <1>1, <2>1 DEF SetInv
  <2>3. Sound(sets[e])' /\ Showing(sets[e])'
    BY <1>2, <2>1, <2>2, OtherKeeps
  <2>4. Placed(e)'
    BY <1>2, <2>1, <2>2 DEF Placed
  <2>5. sets[e].execution < stmt.executions
    BY <2>2 DEF Placed
  <2>6. InStep(e)'
    BY <1>1, <1>2, <2>1, <2>5, Statement, Objects DEF InStep
  <2> QED
    BY <2>3, <2>4, <2>6 DEF SetInv
<1>10. \A e \in ResultSets : SetInv(e)'
  BY <1>7, <1>8, <1>9 DEF SetInv
<1>11. BrokenInv' /\ NextHonest'
  BY <1>2, <1>3, <1>4 DEF BrokenInv, NextHonest, Undisturbed
<1> QED
  BY <1>6, <1>10, <1>11 DEF IInv

\* next() fetches the row at the cursor, set_row_index() the one it is told, and in a
\* result set nobody has disturbed that is the row the user expects; or the call fails.
LEMMA NextRowFetches ==
    ASSUME IInv, ~stmt.broken, NEW s \in ResultSets, NextRow(s)
    PROVE  /\ sets[s].alive /\ stmt.bound \in ResultSets
           /\ \/ \E c \in 1 .. Len(stmt.rows) + 1, at \in 1 .. Len(sets[s].rows) + 1 :
                   /\ Fetch(s, c, at)
                   /\ sets[s].execution = stmt.executions /\ ~sets[s].touched
                        /\ ~sets[s].spoiled => c = at
              \/ Failed(s, stmt.bound)
<1>1. sets[s].alive /\ Typed /\ Sound(sets[s]) /\ InStep(s) /\ stmt.bound \in ResultSets
  <2>1. sets[s].alive /\ Typed /\ Sound(sets[s]) /\ InStep(s) /\ Placed(s)
    BY DEF IInv, SetInv, NextRow
  <2> QED
    BY <2>1, BoundExists
<1>2. PICK c, at : c = stmt.cursor /\ at = Min({sets[s].at, Len(sets[s].rows)}) + 1
  OBVIOUS
<1>3. c \in 1 .. Len(stmt.rows) + 1 /\ sets[s].at \in Nat /\ Len(sets[s].rows) \in Nat
  BY <1>1, <1>2, Statement, Objects
<1>4. at \in 1 .. Len(sets[s].rows) + 1
  <2>1. PICK m, n : m = sets[s].at /\ n = Len(sets[s].rows)
    OBVIOUS
  <2>2. Min({m, n}) = IF m <= n THEN m ELSE n
    BY <1>3, <2>1, MinOfTwo
  <2>3. at = Min({m, n}) + 1
    BY <1>2, <2>1
  <2> QED
    BY <1>3, <2>1, <2>2, <2>3
<1>5. sets[s].execution = stmt.executions /\ ~sets[s].touched /\ ~sets[s].spoiled => c = at
  BY <1>1, <1>2 DEF InStep
<1>6. Fetch(s, c, at) \/ FetchFails(s, at) \/ FetchCutShort(s, c, at)
  BY <1>2 DEF NextRow
<1> QED
  BY <1>1, <1>3, <1>4, <1>5, <1>6, FetchFailsDoes, FetchCutShortDoes

LEMMA SetRowIndexFetches ==
    ASSUME IInv, ~stmt.broken, NEW s \in ResultSets, NEW index \in 0 .. Len(stmt.rows), SetRowIndex(s, index)
    PROVE  /\ sets[s].alive /\ stmt.bound \in ResultSets
           /\ \/ \E c \in 1 .. Len(stmt.rows) + 1, at \in 1 .. Len(sets[s].rows) + 1 :
                   /\ Fetch(s, c, at)
                   /\ sets[s].execution = stmt.executions /\ ~sets[s].touched
                        /\ ~sets[s].spoiled => c = at
              \/ Failed(s, stmt.bound)
<1>1. sets[s].alive /\ Typed /\ Sound(sets[s]) /\ InStep(s) /\ stmt.bound \in ResultSets
  <2>1. sets[s].alive /\ Typed /\ Sound(sets[s]) /\ InStep(s) /\ Placed(s)
    BY DEF IInv, SetInv, SetRowIndex
  <2> QED
    BY <2>1, BoundExists
<1>2. PICK c, at : /\ c = Min({index, Len(stmt.rows)}) + 1
                   /\ at = Min({index, Len(sets[s].rows)}) + 1
  OBVIOUS
<1>3. index \in Nat /\ Len(stmt.rows) \in Nat /\ Len(sets[s].rows) \in Nat
  BY <1>1, Statement, Objects
<1>4. c \in 1 .. Len(stmt.rows) + 1 /\ at \in 1 .. Len(sets[s].rows) + 1
  <2>1. PICK m, k : m = Len(stmt.rows) /\ k = Len(sets[s].rows)
    OBVIOUS
  <2>2. /\ Min({index, m}) = IF index <= m THEN index ELSE m
        /\ Min({index, k}) = IF index <= k THEN index ELSE k
    BY <1>3, <2>1, MinOfTwo
  <2>3. c = Min({index, m}) + 1 /\ at = Min({index, k}) + 1
    BY <1>2, <2>1
  <2> QED
    BY <1>3, <2>1, <2>2, <2>3
<1>5. sets[s].execution = stmt.executions /\ ~sets[s].touched /\ ~sets[s].spoiled => c = at
  BY <1>1, <1>2 DEF InStep
<1>6. Fetch(s, c, at) \/ FetchCutShort(s, c, at)
  BY <1>2 DEF SetRowIndex
<1> QED
  BY <1>1, <1>4, <1>5, <1>6, FetchCutShortDoes

LEMMA InvNextRow ==
    ASSUME IInv, ~stmt.broken, NEW s \in ResultSets, NextRow(s)
    PROVE  IInv'
BY NextRowFetches, InvFetch, InvFailed

LEMMA InvSetRowIndex ==
    ASSUME IInv, ~stmt.broken, NEW s \in ResultSets, NEW index \in 0 .. Len(stmt.rows),
           SetRowIndex(s, index)
    PROVE  IInv'
BY SetRowIndexFetches, InvFetch, InvFailed

-----------------------------------------------------------------------------
(* The other steps.                                                         *)

\* Result sets that stay keep what is said of them, when the statement stays or is
\* executed again.
LEMMA SetsKeep ==
    ASSUME Typed, NEW s \in ResultSets, SetInv(s), sets'[s] = sets[s], UNCHANGED fixedVars,
           stmt'.made \in Nat, stmt'.made >= stmt.made,
           \/ /\ stmt'.executions = stmt.executions /\ stmt'.bound = stmt.bound
              /\ stmt'.rows = stmt.rows /\ stmt'.cursor = stmt.cursor
           \/ stmt'.executions = stmt.executions + 1
    PROVE  SetInv(s)'
<1> SUFFICES ASSUME sets[s].alive
             PROVE  Sound(sets[s])' /\ Showing(sets[s])' /\ Placed(s)' /\ InStep(s)'
  BY DEF SetInv
<1>1. Sound(sets[s]) /\ Showing(sets[s]) /\ Placed(s) /\ InStep(s)
  BY DEF SetInv
<1>2. Sound(sets[s])' /\ Showing(sets[s])'
  BY <1>1, OtherKeeps
<1>3. stmt.made \in Nat /\ stmt.executions \in Nat /\ s \in Nat
  BY Statement, Bounds DEF ResultSets
<1>4. CASE stmt'.executions = stmt.executions + 1
  <2>1. Placed(s)'
    <3>1. sets[s].execution \in 1 .. stmt.executions /\ s <= stmt.made
      BY <1>1 DEF Placed
    <3>3. s <= stmt'.made
      BY <1>3, <3>1
    <3> QED
      BY <1>3, <1>4, <3>1, <3>3 DEF Placed
  <2>2. InStep(s)'
    BY <1>1, <1>3, <1>4 DEF InStep, Placed
  <2> QED
    BY <1>2, <2>1, <2>2
<1>5. CASE /\ stmt'.executions = stmt.executions /\ stmt'.bound = stmt.bound
           /\ stmt'.rows = stmt.rows /\ stmt'.cursor = stmt.cursor
  BY <1>1, <1>2, <1>3, <1>5 DEF Placed, InStep
<1> QED
  BY <1>4, <1>5

LEMMA Executes ==
    ASSUME Typed, NEW op, Superseding(op), NEW rows \in AllRows,
           stmt' = Executed(rows) \/
             (stmt.made < MaxResultSets /\
              stmt' = [Executed(rows) EXCEPT !.made = @ + 1, !.bound = stmt.made + 1])
    PROVE  /\ stmt' \in Statements /\ stmt'.cursor = 1 /\ stmt'.cursor <= Len(stmt'.rows) + 1
           /\ stmt'.rows = rows
           /\ stmt'.executions = stmt.executions + 1 /\ stmt'.bound = stmt'.made
           /\ stmt'.broken = stmt.broken
           /\ stmt'.made \in Nat /\ stmt'.made >= stmt.made
           /\ UNCHANGED fixedVars /\ UNCHANGED paramVars
           /\ last' = [op |-> op, set |-> 0, told |-> FALSE]
<1>1. /\ stmt \in Statements /\ stmt.made \in 0 .. MaxResultSets /\ stmt.bound = stmt.made
      /\ stmt.executions \in 0 .. MaxExecutions
  BY Statement
<1>2. stmt.executions + 1 \in 0 .. MaxExecutions
  BY <1>1, Bounds DEF Superseding
<1>3. Len(rows) \in Nat
  BY RowsOf
<1>4. PICK e : e = Executed(rows)
  OBVIOUS
<1>5. /\ e \in Statements /\ e.cursor = 1 /\ e.rows = rows
      /\ e.executions = stmt.executions + 1 /\ e.made = stmt.made /\ e.bound = stmt.bound
      /\ e.broken = stmt.broken
  <2>1. PICK n \in 0 .. MaxExecutions : n = stmt.executions + 1
    BY <1>2
  <2>2. e = [stmt EXCEPT !.executions = n, !.rows = rows, !.cursor = 1]
    BY <1>4, <2>1 DEF Executed
  <2>3. stmt \in Statements /\ 1 \in Nat \ {0}
    BY <1>1
  <2>4. e \in Statements
    BY <2>1, <2>2, <2>3 DEF Statements
  <2>5. /\ e.cursor = 1 /\ e.rows = rows /\ e.executions = n
        /\ e.made = stmt.made /\ e.bound = stmt.bound /\ e.broken = stmt.broken
    BY <2>2, <2>3 DEF Statements
  <2> QED
    BY <2>1, <2>4, <2>5
<1>6. /\ stmt' \in Statements /\ stmt'.cursor = 1 /\ stmt'.rows = rows
      /\ stmt'.executions = stmt.executions + 1 /\ stmt'.bound = stmt'.made
      /\ stmt'.broken = stmt.broken
      /\ stmt'.made \in Nat /\ stmt'.made >= stmt.made
  <2>1. CASE stmt' = Executed(rows)
    BY <1>1, <1>4, <1>5, <2>1, Bounds
  <2>2. CASE stmt.made < MaxResultSets /\
              stmt' = [Executed(rows) EXCEPT !.made = @ + 1, !.bound = stmt.made + 1]
    <3>1. PICK n \in 0 .. MaxResultSets : n = stmt.made + 1
      BY <1>1, <2>2, Bounds
    <3>2. stmt' = [e EXCEPT !.made = n, !.bound = n]
      BY <1>4, <1>5, <2>2, <3>1
    <3>3. /\ stmt' \in Statements /\ stmt'.made = n /\ stmt'.bound = n
          /\ stmt'.cursor = e.cursor /\ stmt'.rows = e.rows
          /\ stmt'.executions = e.executions /\ stmt'.broken = e.broken
      BY <1>5, <3>1, <3>2 DEF Statements
    <3> QED
      BY <1>1, <1>5, <3>1, <3>3, Bounds
  <2> QED
    BY <2>1, <2>2
<1> QED
  BY <1>3, <1>6 DEF Superseding

LEMMA InvSuperseded ==
    ASSUME IInv, NEW op, op # "fetch", Superseding(op), NEW rows \in AllRows,
           stmt' = Executed(rows), UNCHANGED sets
    PROVE  IInv'
<1>1. Typed /\ ParamInv /\ \A s \in ResultSets : SetInv(s)
  BY DEF IInv
<1>2. /\ stmt' \in Statements /\ stmt'.cursor = 1 /\ stmt'.cursor <= Len(stmt'.rows) + 1
      /\ stmt'.executions = stmt.executions + 1 /\ stmt'.bound = stmt'.made
      /\ stmt'.broken = stmt.broken
      /\ stmt'.made \in Nat /\ stmt'.made >= stmt.made
      /\ UNCHANGED fixedVars /\ UNCHANGED paramVars
      /\ last' = [op |-> op, set |-> 0, told |-> FALSE]
  BY <1>1, Executes
<1>3. Typed' /\ ParamInv'
  <2>1. /\ ParamInv'
        /\ (store \in BOOLEAN /\ column \in IntTypes)'
        /\ (mixed \in BOOLEAN /\ set_calls \in 0 .. MaxSets)'
        /\ (param \in [type : Kinds, buffer : Regions, number : Values \cup {Null},
                       time : Values \cup {Null}, text : Values \cup {Null}])'
    BY <1>1, <1>2, ParamKeeps
  <2>2. (sets \in [ResultSets -> Buffered \cup {Nothing}])'
    BY <1>1 DEF Typed
  <2> QED
    BY <1>2, <2>1, <2>2 DEF Typed
<1>4. \A s \in ResultSets : SetInv(s)'
  BY <1>1, <1>2, SetsKeep
<1>5. BrokenInv' /\ NextHonest'
  BY <1>2 DEF IInv, BrokenInv, NextHonest
<1> QED
  BY <1>3, <1>4, <1>5 DEF IInv

LEMMA NewDoes ==
    ASSUME Typed, NEW result \in Results, NEW garbage \in Unions,
           NEW r, r = NewResultSet(result, garbage)
    PROVE  /\ r \in Buffered /\ Sound(r) /\ Showing(r)
           /\ r.execution = stmt.executions + 1 /\ r.rows = result /\ r.at = 0
           /\ ~r.spoiled /\ ~r.outdated
<1>1. PICK n \in Nat : n = MaxLength(result)
  BY MaxLengthBounds DEF AllRows
<1>2. PICK d : d = [i \in 1 .. n |-> Unwritten]
  OBVIOUS
<1>3. d \in Seq(Bytes) /\ Len(d) = n
  BY <1>2, UnwrittenBytes
<1>4. Len(result) \in Nat /\ stmt.executions + 1 \in Nat
  BY RowsOf, Statement DEF AllRows
<1>5. r = [alive |-> TRUE, fetched |-> FALSE, data |-> d, length |-> n, error |-> FALSE,
           room |-> n, moved |-> 0, row |-> 0, text_null |-> FALSE, union |-> garbage,
           num_null |-> FALSE, damaged |-> FALSE, execution |-> stmt.executions + 1,
           rows |-> result, at |-> 0, spoiled |-> FALSE, touched |-> FALSE,
           outdated |-> FALSE]
  BY <1>1, <1>2 DEF NewResultSet, Bind
<1>6. r \in Buffered
  BY <1>3, <1>4, <1>5 DEF Buffered
<1>7. Sound(r)
  BY <1>1, <1>3, <1>4, <1>5 DEF Sound
<1>8. Showing(r)
  BY <1>5 DEF Showing
<1> QED
  BY <1>5, <1>6, <1>7, <1>8

LEMMA InvQuery ==
    ASSUME IInv, NEW result \in Results, Query(result)
    PROVE  IInv'
<1>1. Typed /\ ParamInv /\ \A s \in ResultSets : SetInv(s)
  BY DEF IInv
<1>2. PICK garbage \in {0, Patterns("longlong") - 1} :
        sets' = [sets EXCEPT ![stmt.made + 1] = NewResultSet(result, garbage)]
  BY DEF Query
<1>3. garbage \in Unions
  BY PatternsOf DEF Unions, Sizes
<1>4. PICK r : r = NewResultSet(result, garbage)
  OBVIOUS
<1>5. /\ r \in Buffered /\ Sound(r) /\ Showing(r)
      /\ r.execution = stmt.executions + 1 /\ r.rows = result /\ r.at = 0
      /\ ~r.spoiled /\ ~r.outdated
  BY <1>1, <1>3, <1>4, NewDoes
<1>6. /\ stmt.made < MaxResultSets /\ Superseding("query")
      /\ stmt' = [Executed(result) EXCEPT !.made = @ + 1, !.bound = stmt.made + 1]
  BY DEF Query
<1>7. /\ stmt' \in Statements /\ stmt'.cursor = 1 /\ stmt'.cursor <= Len(stmt'.rows) + 1
      /\ stmt'.rows = result
      /\ stmt'.executions = stmt.executions + 1 /\ stmt'.bound = stmt'.made
      /\ stmt'.broken = stmt.broken
      /\ stmt'.made \in Nat /\ stmt'.made >= stmt.made
      /\ UNCHANGED fixedVars /\ UNCHANGED paramVars
      /\ last' = [op |-> "query", set |-> 0, told |-> FALSE]
  BY <1>1, <1>6, Executes DEF AllRows
<1>8. PICK n \in ResultSets : n = stmt.made + 1
  BY <1>1, <1>6, Statement DEF ResultSets
<1>9. stmt'.made = n /\ stmt'.bound = n
  BY <1>1, <1>6, <1>8 DEF Executed, Typed, Statements
<1>10. /\ sets' \in [ResultSets -> Buffered \cup {Nothing}]
       /\ sets'[n] = r /\ \A e \in ResultSets \ {n} : sets'[e] = sets[e]
  BY <1>1, <1>2, <1>4, <1>5, <1>8 DEF Typed
<1>11. Typed' /\ ParamInv'
  <2>1. /\ ParamInv'
        /\ (store \in BOOLEAN /\ column \in IntTypes)'
        /\ (mixed \in BOOLEAN /\ set_calls \in 0 .. MaxSets)'
        /\ (param \in [type : Kinds, buffer : Regions, number : Values \cup {Null},
                       time : Values \cup {Null}, text : Values \cup {Null}])'
    BY <1>1, <1>7, ParamKeeps
  <2> QED
    BY <1>7, <1>10, <2>1 DEF Typed
<1>12. \A e \in ResultSets \ {n} : SetInv(e)'
  BY <1>1, <1>7, <1>10, SetsKeep
<1>13. SetInv(n)'
  <2>1. Sound(sets[n])' /\ Showing(sets[n])'
    BY <1>5, <1>7, <1>10, Stays
  <2>2. stmt.executions \in Nat /\ stmt.made \in Nat /\ Len(result) \in Nat
    BY <1>1, Statement, RowsOf, Bounds DEF AllRows
  <2>3. Placed(n)'
    BY <1>5, <1>7, <1>8, <1>9, <1>10, <2>2 DEF Placed
  <2>4. Min({0, Len(result)}) = 0
    BY <2>2, MinOfTwo
  <2>5. InStep(n)'
    <3>1. Min({r.at, Len(r.rows)}) + 1 = 1
      BY <1>5, <2>4
    <3> QED
      BY <1>5, <1>7, <1>10, <3>1 DEF InStep
  <2> QED
    BY <2>1, <2>3, <2>5 DEF SetInv
<1>14. BrokenInv'
  <2>1. ASSUME stmt.broken
        PROVE  \E s \in ResultSets : sets'[s].alive /\ sets'[s].outdated
    <3>1. PICK s \in ResultSets : sets[s].alive /\ sets[s].outdated
      BY <2>1 DEF IInv, BrokenInv
    <3>2. s # n
      <4>1. s <= stmt.made
        BY <1>1, <3>1 DEF SetInv, Placed
      <4>2. stmt.made \in Nat
        BY <1>1, Statement, Bounds
      <4> QED
        BY <1>8, <4>1, <4>2
    <3> QED
      BY <1>10, <3>1, <3>2
  <2> QED
    BY <1>7, <2>1 DEF BrokenInv
<1>15. NextHonest'
  BY <1>7 DEF NextHonest
<1> QED
  BY <1>11, <1>12, <1>13, <1>14, <1>15 DEF IInv

\* A result set that is spoiled stays as it is otherwise.
LEMMA SpoiledDoes ==
    ASSUME NEW rs \in Buffered, Sound(rs), Showing(rs),
           NEW r, r = [rs EXCEPT !.spoiled = TRUE]
    PROVE  /\ r \in Buffered /\ Sound(r) /\ Showing(r)
           /\ r.execution = rs.execution /\ r.outdated = rs.outdated
           /\ r.touched = rs.touched /\ r.spoiled = TRUE
<1>1. /\ r \in Buffered /\ r.fetched = rs.fetched /\ r.data = rs.data
      /\ r.length = rs.length /\ r.error = rs.error /\ r.room = rs.room
      /\ r.moved = rs.moved /\ r.row = rs.row /\ r.text_null = rs.text_null
      /\ r.union = rs.union /\ r.num_null = rs.num_null /\ r.damaged = rs.damaged
      /\ r.execution = rs.execution /\ r.rows = rs.rows /\ r.at = rs.at
      /\ r.touched = rs.touched /\ r.outdated = rs.outdated /\ r.spoiled = TRUE
  BY DEF Buffered
<1>2. Sound(r)
  BY <1>1 DEF Sound
<1>3. Showing(r)
  BY <1>1 DEF Showing
<1> QED
  BY <1>1, <1>2, <1>3

LEMMA InvDestroy ==
    ASSUME IInv, ~stmt.broken, NEW s \in ResultSets, Destroy(s)
    PROVE  IInv'
<1>1. Typed /\ ParamInv /\ \A e \in ResultSets : SetInv(e)
  BY DEF IInv
<1>2. /\ stmt' = [stmt EXCEPT !.rows = <<>>, !.cursor = 1]
      /\ last' = [op |-> "destroy", set |-> 0, told |-> FALSE]
      /\ UNCHANGED fixedVars /\ UNCHANGED paramVars
      /\ sets' = [e \in ResultSets |->
                    IF e = s THEN Nothing
                    ELSE IF sets[e].alive THEN [sets[e] EXCEPT !.spoiled = TRUE]
                    ELSE sets[e]]
  BY DEF Destroy
<1>3. /\ stmt' \in Statements /\ stmt'.rows = <<>> /\ stmt'.cursor = 1
      /\ stmt'.executions = stmt.executions /\ stmt'.made = stmt.made
      /\ stmt'.bound = stmt.bound /\ stmt'.broken = stmt.broken
  <2>1. stmt \in Statements /\ <<>> \in AllRows /\ 1 \in Nat \ {0}
    BY <1>1, Statement DEF AllRows
  <2> QED
    BY <1>2, <2>1 DEF Statements
<1>4. stmt'.cursor <= Len(stmt'.rows) + 1
  <2>1. Len(stmt'.rows) = 0
    BY <1>3, EmptySeq
  <2> QED
    BY <1>3, <2>1
<1>5. ASSUME NEW e \in ResultSets
      PROVE  sets'[e] \in Buffered \cup {Nothing} /\ SetInv(e)'
  <2>1. CASE e = s
    <3>1. sets'[e] = Nothing /\ Nothing.alive = FALSE
      BY <1>2, <2>1 DEF Nothing
    <3> QED
      BY <3>1 DEF SetInv
  <2>2. CASE e # s /\ ~sets[e].alive
    <3>1. sets'[e] = sets[e]
      BY <1>2, <2>2
    <3> QED
      BY <1>1, <2>2, <3>1 DEF SetInv, Typed
  <2>3. CASE e # s /\ sets[e].alive
    <3>1. PICK rs \in Buffered : rs = sets[e]
      BY <1>1, <2>3, Objects
    <3>2. PICK r : r = sets'[e]
      OBVIOUS
    <3>3. r = [rs EXCEPT !.spoiled = TRUE]
      BY <1>2, <2>3, <3>1, <3>2
    <3>4. Sound(rs) /\ Showing(rs) /\ Placed(e)
      BY <1>1, <2>3, <3>1 DEF SetInv
    <3>5. /\ r \in Buffered /\ Sound(r) /\ Showing(r)
          /\ r.execution = rs.execution /\ r.outdated = rs.outdated
          /\ r.touched = rs.touched /\ r.spoiled = TRUE
      BY <3>3, <3>4, SpoiledDoes
    <3>6. Sound(sets[e])' /\ Showing(sets[e])'
      BY <1>2, <3>2, <3>5, Stays
    <3>7. Placed(e)'
      BY <1>3, <3>1, <3>2, <3>4, <3>5 DEF Placed
    <3>8. InStep(e)'
      BY <1>3, <3>2, <3>5 DEF InStep
    <3> QED
      BY <3>2, <3>5, <3>6, <3>7, <3>8 DEF SetInv
  <2> QED
    BY <2>1, <2>2, <2>3
<1>6. Typed' /\ ParamInv'
  <2>1. /\ ParamInv'
        /\ (store \in BOOLEAN /\ column \in IntTypes)'
        /\ (mixed \in BOOLEAN /\ set_calls \in 0 .. MaxSets)'
        /\ (param \in [type : Kinds, buffer : Regions, number : Values \cup {Null},
                       time : Values \cup {Null}, text : Values \cup {Null}])'
    BY <1>1, <1>2, ParamKeeps
  <2>2. sets' \in [ResultSets -> Buffered \cup {Nothing}]
    <3>1. sets' = [e \in ResultSets |-> sets'[e]]
      BY <1>2
    <3> QED
      BY <1>5, <3>1
  <2>3. stmt'.bound = stmt'.made
    BY <1>1, <1>3 DEF Typed
  <2> QED
    BY <1>3, <1>4, <2>1, <2>2, <2>3 DEF Typed
<1>7. BrokenInv' /\ NextHonest'
  BY <1>2, <1>3 DEF BrokenInv, NextHonest
<1> QED
  BY <1>5, <1>6, <1>7 DEF IInv

LEMMA InvDropStatement ==
    ASSUME IInv, DropStatement
    PROVE  IInv'
<1>1. Typed /\ ParamInv /\ \A e \in ResultSets : SetInv(e)
  BY DEF IInv
<1>2. /\ stmt' = [stmt EXCEPT !.held = FALSE]
      /\ last' = [op |-> "drop", set |-> 0, told |-> FALSE]
      /\ UNCHANGED fixedVars /\ UNCHANGED paramVars /\ UNCHANGED sets
  BY DEF DropStatement
<1>3. /\ stmt' \in Statements /\ stmt'.rows = stmt.rows /\ stmt'.cursor = stmt.cursor
      /\ stmt'.executions = stmt.executions /\ stmt'.made = stmt.made
      /\ stmt'.bound = stmt.bound /\ stmt'.broken = stmt.broken
  BY <1>1, <1>2, Statement DEF Statements
<1>4. \A e \in ResultSets : SetInv(e)'
  <2>1. stmt'.made \in Nat /\ stmt'.made >= stmt.made
    BY <1>1, <1>3, Statement
  <2> QED
    BY <1>1, <1>2, <1>3, <2>1, SetsKeep
<1>5. Typed' /\ ParamInv'
  <2>1. /\ ParamInv'
        /\ (store \in BOOLEAN /\ column \in IntTypes)'
        /\ (mixed \in BOOLEAN /\ set_calls \in 0 .. MaxSets)'
        /\ (param \in [type : Kinds, buffer : Regions, number : Values \cup {Null},
                       time : Values \cup {Null}, text : Values \cup {Null}])'
    BY <1>1, <1>2, ParamKeeps
  <2> QED
    BY <1>1, <1>2, <1>3, <2>1 DEF Typed
<1>6. BrokenInv' /\ NextHonest'
  BY <1>2, <1>3 DEF IInv, BrokenInv, NextHonest
<1> QED
  BY <1>4, <1>5, <1>6 DEF IInv

\* The setters touch nothing but the parameter.
LEMMA SettersKeep ==
    ASSUME IInv, UNCHANGED <<fixedVars, stmt, sets>>,
           last' = [op |-> "set", set |-> 0, told |-> FALSE],
           set_calls < MaxSets, set_calls' = set_calls + 1,
           mixed' \in BOOLEAN, ParamInv',
           param' \in [type : Kinds, buffer : Regions, number : Values \cup {Null},
                       time : Values \cup {Null}, text : Values \cup {Null}]
    PROVE  IInv'
<1>1. Typed /\ \A e \in ResultSets : SetInv(e)
  BY DEF IInv
<1>2. UNCHANGED fixedVars /\ stmt' = stmt /\ sets' = sets
  OBVIOUS
<1>3. store' = store /\ column' = column
  BY <1>2 DEF fixedVars
<1>4. set_calls' \in 0 .. MaxSets
  BY <1>1, Bounds DEF Typed
<1>5. Typed'
  BY <1>1, <1>2, <1>3, <1>4 DEF Typed
<1>6. \A e \in ResultSets : SetInv(e)'
  <2>1. stmt'.made \in Nat /\ stmt'.made >= stmt.made
    BY <1>1, <1>2, Statement
  <2> QED
    BY <1>1, <1>2, <2>1, SetsKeep
<1>7. BrokenInv' /\ NextHonest'
  BY <1>2 DEF IInv, BrokenInv, NextHonest
<1> QED
  BY <1>5, <1>6, <1>7 DEF IInv

LEMMA InvSet ==
    ASSUME IInv, NEW kind \in Regions, NEW v \in Values, Set(kind, v)
    PROVE  IInv'
<1>1. /\ param \in [type : Kinds, buffer : Regions, number : Values \cup {Null},
                    time : Values \cup {Null}, text : Values \cup {Null}]
      /\ mixed \in BOOLEAN /\ ParamInv
  BY DEF IInv, Typed
<1>2. /\ UNCHANGED <<fixedVars, stmt, sets>>
      /\ last' = [op |-> "set", set |-> 0, told |-> FALSE]
      /\ set_calls < MaxSets /\ set_calls' = set_calls + 1
      /\ param' = [BindSet(kind) EXCEPT ![kind] = v]
      /\ wanted' = [kind |-> kind, value |-> v]
      /\ mixed' = (mixed \/ (kind = "number" /\ param.buffer # "number"))
  BY DEF Set
<1>3. /\ param' \in [type : Kinds, buffer : Regions, number : Values \cup {Null},
                     time : Values \cup {Null}, text : Values \cup {Null}]
      /\ param'.type = kind /\ param'[kind] = v /\ (kind # "number" => param'.buffer = kind)
      /\ kind = "number" => param'.buffer = param.buffer
  <2>1. CASE kind = "number"
    <3>1. param' = [param EXCEPT !.type = "number", !.number = v]
      BY <1>2, <2>1 DEF BindSet
    <3> QED
      BY <1>1, <2>1, <3>1 DEF Kinds, Regions
  <2>2. CASE kind = "time"
    <3>1. param' = [param EXCEPT !.type = "time", !.buffer = "time", !.time = v]
      BY <1>2, <2>2 DEF BindSet
    <3> QED
      BY <1>1, <2>2, <3>1 DEF Kinds, Regions
  <2>3. CASE kind = "text"
    <3>1. param' = [param EXCEPT !.type = "text", !.buffer = "text", !.text = v]
      BY <1>2, <2>3 DEF BindSet
    <3> QED
      BY <1>1, <2>3, <3>1 DEF Kinds, Regions
  <2> QED
    BY <2>1, <2>2, <2>3 DEF Regions
<1>4. ParamInv'
  <2> SUFFICES ASSUME ~mixed'
               PROVE  IF param'.type = "null" THEN wanted' = [kind |-> "null", value |-> Null]
                      ELSE /\ param'.buffer = param'.type
                           /\ wanted' = [kind |-> param'.type, value |-> param'[param'.type]]
    BY DEF ParamInv
  <2>1. param'.buffer = kind
    BY <1>2, <1>3
  <2>2. kind # "null"
    BY DEF Regions
  <2> QED
    BY <1>2, <1>3, <2>1, <2>2
<1>5. mixed' \in BOOLEAN
  BY <1>1, <1>2
<1> QED
  BY <1>2, <1>3, <1>4, <1>5, SettersKeep

LEMMA InvSetNull ==
    ASSUME IInv, SetNull
    PROVE  IInv'
<1>1. /\ param \in [type : Kinds, buffer : Regions, number : Values \cup {Null},
                    time : Values \cup {Null}, text : Values \cup {Null}]
      /\ mixed \in BOOLEAN
  BY DEF IInv, Typed
<1>2. /\ UNCHANGED <<fixedVars, stmt, sets>> /\ mixed' = mixed
      /\ last' = [op |-> "set", set |-> 0, told |-> FALSE]
      /\ set_calls < MaxSets /\ set_calls' = set_calls + 1
      /\ param' = [param EXCEPT !.type = "null"]
      /\ wanted' = [kind |-> "null", value |-> Null]
  BY DEF SetNull, BindSet
<1>3. /\ param' \in [type : Kinds, buffer : Regions, number : Values \cup {Null},
                     time : Values \cup {Null}, text : Values \cup {Null}]
      /\ param'.type = "null"
  BY <1>1, <1>2 DEF Kinds
<1>4. ParamInv'
  BY <1>2, <1>3 DEF ParamInv
<1> QED
  BY <1>1, <1>2, <1>3, <1>4, SettersKeep

LEMMA InvInit ==
    ASSUME Init
    PROVE  IInv
<1>1. <<>> \in AllRows /\ Len(<<>>) = 0
  BY EmptySeq DEF AllRows
<1>2. stmt = [held |-> TRUE, executions |-> 0, rows |-> <<>>, cursor |-> 1,
              made |-> 0, bound |-> 0, strays |-> 0, broken |-> FALSE]
  BY DEF Init
<1>3. stmt \in Statements
  BY <1>1, <1>2, Bounds DEF Statements
<1>4. \A s \in ResultSets : sets[s] = Nothing /\ ~sets[s].alive
  BY DEF Init, Nothing
<1>5. column \in IntTypes
  BY ResultSetAssumption DEF Init
<1>6. Typed
  <2>1. /\ store \in BOOLEAN /\ mixed \in BOOLEAN /\ set_calls \in 0 .. MaxSets
    <3>1. store \in BOOLEAN /\ mixed = FALSE /\ set_calls = 0
      BY DEF Init
    <3>2. 0 \in 0 .. MaxSets
      BY Bounds
    <3> QED
      BY <3>1, <3>2
  <2>2. param \in [type : Kinds, buffer : Regions, number : Values \cup {Null},
                   time : Values \cup {Null}, text : Values \cup {Null}]
    BY DEF Init, Kinds, Regions
  <2>3. stmt.cursor <= Len(stmt.rows) + 1 /\ stmt.bound = stmt.made
    BY <1>1, <1>2
  <2>4. sets \in [ResultSets -> Buffered \cup {Nothing}]
    BY DEF Init
  <2> QED
    BY <1>3, <1>5, <2>1, <2>2, <2>3, <2>4 DEF Typed
<1>7. ParamInv /\ BrokenInv /\ NextHonest
  BY <1>2 DEF Init, ParamInv, BrokenInv, NextHonest
<1> QED
  BY <1>4, <1>6, <1>7 DEF IInv, SetInv

LEMMA InvSame ==
    ASSUME IInv, UNCHANGED vars
    PROVE  IInv'
<1>1. /\ UNCHANGED fixedVars /\ UNCHANGED paramVars
      /\ stmt' = stmt /\ sets' = sets /\ last' = last
  BY DEF vars
<1>2. Typed /\ ParamInv /\ \A e \in ResultSets : SetInv(e)
  BY DEF IInv
<1>3. \A e \in ResultSets : SetInv(e)'
  <2>1. stmt'.made \in Nat /\ stmt'.made >= stmt.made
    BY <1>1, <1>2, Statement
  <2> QED
    BY <1>1, <1>2, <2>1, SetsKeep
<1>4. Typed' /\ ParamInv'
  <2>1. /\ ParamInv'
        /\ (store \in BOOLEAN /\ column \in IntTypes)'
        /\ (mixed \in BOOLEAN /\ set_calls \in 0 .. MaxSets)'
        /\ (param \in [type : Kinds, buffer : Regions, number : Values \cup {Null},
                       time : Values \cup {Null}, text : Values \cup {Null}])'
    BY <1>1, <1>2, ParamKeeps
  <2> QED
    BY <1>1, <1>2, <2>1 DEF Typed
<1>5. BrokenInv' /\ NextHonest'
  BY <1>1 DEF IInv, BrokenInv, NextHonest, Undisturbed
<1> QED
  BY <1>3, <1>4, <1>5 DEF IInv

LEMMA InvNext ==
    ASSUME IInv, Next
    PROVE  IInv'
<1>1. ~stmt.broken /\ Step
  BY DEF Next
<1>2. CASE \E kind \in Regions, v \in Values : Set(kind, v)
  BY <1>2, InvSet
<1>3. CASE SetNull
  BY <1>3, InvSetNull
<1>4. CASE \E result \in Results : Query(result)
  BY <1>4, InvQuery
<1>5. ASSUME NEW result \in Results, Execute(result)
      PROVE  IInv'
  <2>1. Superseding("execute") /\ stmt' = Executed(result) /\ UNCHANGED sets
    BY <1>5 DEF Execute
  <2> QED
    BY <2>1, InvSuperseded DEF AllRows
<1>6. CASE Fail
  <2>1. Superseding("fail") /\ stmt' = Executed(<<>>) /\ UNCHANGED sets
    BY <1>6 DEF Fail
  <2> QED
    BY <2>1, InvSuperseded DEF AllRows
<1>7. CASE \E s \in ResultSets : NextRow(s)
  BY <1>1, <1>7, InvNextRow
<1>8. CASE \E s \in ResultSets : Destroy(s)
  BY <1>1, <1>8, InvDestroy
<1>9. CASE \E s \in ResultSets : \E index \in 0..Len(stmt.rows) : SetRowIndex(s, index)
  BY <1>1, <1>9, InvSetRowIndex
<1>10. CASE DropStatement
  BY <1>10, InvDropStatement
<1> QED
  BY <1>1, <1>2, <1>3, <1>4, <1>5, <1>6, <1>7, <1>8, <1>9, <1>10 DEF Step

LEMMA Invariance == Spec => []IInv
<1>1. Init => IInv
  BY InvInit
<1>2. IInv /\ [Next]_vars => IInv'
  BY InvNext, InvSame
<1> QED
  BY <1>1, <1>2, PTL DEF Spec

-----------------------------------------------------------------------------
(* What the runs check.                                                     *)

\* The variables keep their types: in particular no cursor passes the end of the rows,
\* and a fetch leaves in the union no more than its bytes.
THEOREM TypeCorrect == Spec => []TypeOK
<1>1. IInv => TypeOK
  <2> SUFFICES ASSUME IInv
               PROVE  TypeOK
    OBVIOUS
  <2>1. Typed /\ \A s \in ResultSets : SetInv(s)
    BY DEF IInv
  <2>2. /\ stmt \in Statements /\ Len(stmt.rows) \in Nat
        /\ stmt.cursor \in 1 .. Len(stmt.rows) + 1
        /\ stmt.made \in 0 .. MaxResultSets /\ stmt.bound = stmt.made
        /\ MaxResultSets \in Nat
    BY <2>1, Statement
  <2>3. /\ stmt.executions \in 0 .. MaxExecutions /\ stmt.bound \in 0 .. stmt.made
        /\ stmt.strays \in 0 .. MaxOutdated /\ stmt.broken \in BOOLEAN
    BY <2>2 DEF Statements
  <2>4. ASSUME NEW s \in ResultSets, sets[s].alive
        PROVE  /\ s <= stmt.made /\ sets[s].execution \in 1 .. stmt.executions
               /\ sets[s].at \in 0 .. (Len(sets[s].rows) + 1)
               /\ sets[s].length \in Nat /\ sets[s].room \in Nat
               /\ sets[s].union \in 0 .. (Patterns("longlong") - 1)
    <3>1. Sound(sets[s]) /\ Placed(s)
      BY <2>1, <2>4 DEF SetInv
    <3>2. sets[s] \in Buffered /\ sets[s].at \in Nat /\ Len(sets[s].rows) \in Nat
      BY <2>1, <2>4, Objects
    <3>3. sets[s].at \in 0 .. (Len(sets[s].rows) + 1)
      BY <3>1, <3>2 DEF Sound
    <3>4. /\ sets[s].length \in Nat /\ sets[s].room \in Nat
          /\ sets[s].union \in 0 .. (Patterns("longlong") - 1)
      BY <3>2 DEF Buffered, Unions
    <3> QED
      BY <3>1, <3>3, <3>4 DEF Placed
  <2>5. param.type \in Regions \cup {"null"} /\ param.buffer \in Regions
    BY <2>1 DEF Typed, Kinds
  <2> QED
    BY <2>1, <2>2, <2>3, <2>4, <2>5 DEF Typed, TypeOK
<1> QED
  BY <1>1, Invariance, PTL

\* What a result set shows that may be relied on.
LEMMA Shown ==
    ASSUME IInv, NEW s \in ResultSets, Shows(s)
    PROVE  /\ sets[s] \in Buffered /\ Expected(s) = sets[s].rows[sets[s].at]
           /\ Expected(s).number = Null \/ Expected(s).number \in NumberNames
           /\ sets[s].text_null <=> Expected(s).text = Null
           /\ sets[s].num_null <=> Expected(s).number = Null
           /\ Expected(s).text # Null =>
                SubSeq(sets[s].data, 1, sets[s].length) = Expected(s).text
           /\ Expected(s).number # Null =>
                sets[s].union % Patterns(column.size) =
                  NumberOf(Expected(s).number, column) % Patterns(column.size)
<1>1. /\ sets[s].alive /\ sets[s].fetched /\ ~sets[s].touched /\ ~sets[s].outdated
      /\ Expected(s) = sets[s].rows[sets[s].at]
  BY DEF Shows, Readable, Undisturbed, Expected
<1>2. Typed /\ Showing(sets[s])
  BY <1>1 DEF IInv, SetInv
<1>3. sets[s] \in Buffered /\ sets[s].rows \in AllRows
  BY <1>1, <1>2, Objects
<1>4. sets[s].at \in 1 .. Len(sets[s].rows)
  BY <1>1, <1>2 DEF Showing
<1>5. Expected(s).number = Null \/ Expected(s).number \in NumberNames
  BY <1>1, <1>3, <1>4, RowsOf
<1> QED
  BY <1>1, <1>2, <1>3, <1>5 DEF Showing

\* A result set shows the row that is due after the calls of next() and set_row_index(),
\* its text complete and NULL told from an empty text, whether the rows are stored or not
\* and whatever the statement and its other result sets have done since; only calls of
\* result sets whose statement was executed again are excepted.
THEOREM RowsAreShown == Spec => []RowShown
<1>1. IInv => RowShown
  BY Shown DEF RowShown, GetIsNull, GetString
<1> QED
  BY <1>1, Invariance, PTL

\* A row that next() and set_row_index() tell of is there. They tell of no row at the end
\* only, except after another result set was destroyed or a fetch from the server failed.
THEOREM NextIsHonest == Spec => []NextHonest
<1>1. IInv => NextHonest
  BY DEF IInv
<1> QED
  BY <1>1, Invariance, PTL

\* No fetch of a result set that is up to date writes to a buffer that was replaced, no
\* getter reads beyond the buffer, and m_row points to the buffer in use.
THEOREM BuffersAreSound == Spec => []BuffersSound
<1>1. IInv => BuffersSound
  <2> SUFFICES ASSUME IInv
               PROVE  BuffersSound
    OBVIOUS
  <2>1. ASSUME NEW s \in ResultSets, sets[s].alive
        PROVE  /\ sets[s].row = sets[s].moved
               /\ ~sets[s].touched => sets[s].length <= Len(sets[s].data)
               /\ Undisturbed(s) => ~sets[s].damaged
    BY <2>1 DEF IInv, SetInv, Sound, Undisturbed
  <2> QED
    BY <2>1 DEF IInv, BrokenInv, BuffersSound
<1> QED
  BY <1>1, Invariance, PTL

\* A number that the requested type holds is read alike and exactly through text and
\* through a prepared statement, for integers of any widths; only that the latter reads
\* negative numbers of the two smaller sizes as zero.
THEOREM NumbersAreRead == Spec => []NumbersRead
<1>1. IInv => NumbersRead
  <2> SUFFICES ASSUME IInv, NEW s \in ResultSets, Shows(s), Expected(s).number # Null,
                      NEW v, v = NumberOf(Expected(s).number, column)
               PROVE  /\ \A type \in IntTypes : SameSize(type, column) /\ Fits(v, type) =>
                            /\ ThroughText(v, type) = {v}
                            /\ GetNumber(s, type) =
                                  {IF v < 0 /\ type.size \in {"tiny", "short"} THEN 0 ELSE v}
                      /\ column.size = "tiny" /\ v \in {0, 1} =>
                            BooleanThroughText(v) = GetBoolean(s)
    BY DEF NumbersRead
  <2>1. column \in IntTypes /\ Patterns("longlong") \in Nat
    BY PatternsOf DEF IInv, Typed, Sizes
  <2>2. /\ sets[s] \in Buffered /\ Expected(s).number \in NumberNames
        /\ sets[s].union % Patterns(column.size) = v % Patterns(column.size)
    BY Shown
  <2>3. PICK u \in Nat : u = sets[s].union
    <3>1. sets[s].union \in 0 .. Patterns("longlong") - 1
      BY <2>2 DEF Buffered, Unions
    <3>2. sets[s].union \in Nat
      BY <2>1, <3>1
    <3> QED
      BY <3>2
  <2>4. v \in Int
    BY <2>1, <2>2, NamedNumbers
  <2>5. ASSUME NEW type \in IntTypes, SameSize(type, column), Fits(v, type)
        PROVE  /\ ThroughText(v, type) = {v}
               /\ GetNumber(s, type) =
                     {IF v < 0 /\ type.size \in {"tiny", "short"} THEN 0 ELSE v}
    <3>1. u % Patterns(type.size) = v % Patterns(type.size)
      BY <2>2, <2>3, <2>5 DEF SameSize
    <3>2. ThroughStatement(u, type) =
            IF v < 0 /\ type.size \in {"tiny", "short"} THEN 0 ELSE v
      BY <2>4, <2>5, <3>1, StatementReads
    <3>3. GetNumber(s, type) = {ThroughStatement(u, type)}
      BY <2>3, <2>5 DEF GetNumber
    <3>4. ThroughText(v, type) = {v}
      BY <2>4, <2>5, TextReads
    <3> QED
      BY <3>2, <3>3, <3>4
  <2>6. ASSUME column.size = "tiny", v \in {0, 1}
        PROVE  BooleanThroughText(v) = GetBoolean(s)
    <3>1. u % Patterns("tiny") = v % Patterns("tiny")
      BY <2>2, <2>3, <2>6
    <3> QED
      BY <2>3, <2>6, <3>1, BooleanReads DEF GetBoolean
  <2> QED
    BY <2>5, <2>6
<1> QED
  BY <1>1, Invariance, PTL

\* The statement is executed with the value its parameter was set to last, unless a
\* number was set after a date or a text.
THEOREM ParametersAreSent == Spec => []ParamIsSent
<1>1. IInv => ParamIsSent
  BY DEF IInv, ParamInv, ParamIsSent, Sent
<1> QED
  BY <1>1, Invariance, PTL

\* A fetch through a result set other than the one bound last leaves it outdated.
LEMMA LateIsOutdated ==
    ASSUME Typed, NEW s \in ResultSets, sets[s].alive, Sound(sets[s]), Placed(s),
           s # stmt.bound, NEW c \in 1 .. Len(stmt.rows) + 1, NEW at, Fetch(s, c, at)
    PROVE  sets'[s].outdated
<1>1. PICK b \in ResultSets : b = stmt.bound
  BY BoundExists
<1>2. sets[s].execution # stmt.executions
  BY Objects, Statement DEF Placed
<1>3. PICK rs \in {sets[s]} \cup
           {FetchTruncated(sets[s], stmt.rows[i].text) :
              i \in {j \in 1 .. Len(stmt.rows) : stmt.rows[j].text # Null}} :
         sets'[s] = [rs EXCEPT !.fetched = c <= Len(stmt.rows), !.at = at, !.outdated = TRUE]
  <2>1. FetchedLate(s, b, c, at)
    BY <1>1, <1>2, FetchOther
  <2> QED
    BY <2>1 DEF FetchedLate
<1>4. sets[s] \in Buffered /\ stmt.rows \in AllRows
  BY Objects, Statement
<1>5. rs \in Buffered
  <2>1. CASE rs = sets[s]
    BY <1>4, <2>1
  <2>2. CASE rs # sets[s]
    <3>1. PICK t : IsText(t) /\ rs = FetchTruncated(sets[s], t)
      BY <1>3, <1>4, <2>2, RowsOf
    <3>2. PICK o \in Buffered : o = sets[s]
      BY <1>4
    <3> QED
      BY <3>1, <3>2, TruncatedSound
  <2> QED
    BY <2>1, <2>2
<1> QED
  BY <1>3, <1>5 DEF Buffered

\* A fetch through a result set that is up to date changes no other result set, also when
\* it fails or throws.
THEOREM FetchesTouchOwn == Spec => FetchTouchesOwn
<1> DEFINE TouchesOwn ==
           last'.op \in {"fetch", "throw"} /\ ~sets'[last'.set].outdated =>
             \A s \in ResultSets \ {last'.set} : sets'[s] = sets[s]
<1>1. ASSUME IInv, NEW s \in ResultSets, sets[s].alive,
             NEW c \in 1 .. Len(stmt.rows) + 1, NEW at \in 1 .. Len(sets[s].rows) + 1,
             Fetch(s, c, at)
      PROVE  TouchesOwn
  <2>1. Typed /\ Sound(sets[s]) /\ Placed(s)
    BY <1>1 DEF IInv, SetInv
  <2>2. last'.op = "fetch" /\ last'.set = s
    BY <1>1 DEF Fetch
  <2>3. CASE s = stmt.bound
    <3>1. sets' = [sets EXCEPT ![s] = Own(sets[s], stmt.rows, c, at, stmt.executions)]
      BY <1>1, <2>1, <2>3, FetchOwn
    <3> QED
      BY <2>1, <2>2, <3>1 DEF Typed
  <2>4. CASE s # stmt.bound
    <3>1. sets'[s].outdated
      BY <1>1, <2>1, <2>4, LateIsOutdated
    <3> QED
      BY <2>2, <3>1
  <2> QED
    BY <2>3, <2>4
<1>2. ASSUME IInv, NEW s \in ResultSets, sets[s].alive, stmt.bound \in ResultSets,
             Failed(s, stmt.bound)
      PROVE  TouchesOwn
  <2>1. Typed /\ Placed(s)
    BY <1>2 DEF IInv, SetInv
  <2>2. /\ last'.set = s
        /\ \A e \in ResultSets \ {s, stmt.bound} : sets'[e] = sets[e]
        /\ sets'[s].outdated <=> sets[s].outdated \/ sets[s].execution # stmt.executions
    BY <1>2 DEF Failed
  <2>3. s # stmt.bound => sets[s].execution # stmt.executions
    BY <1>2, <2>1, Objects, Statement DEF Placed
  <2> QED
    BY <2>2, <2>3
<1>3. ASSUME IInv, [Next]_vars
      PROVE  [TouchesOwn]_vars
  <2>1. CASE UNCHANGED vars
    BY <2>1
  <2>2. CASE Next
    <3> HIDE DEF TouchesOwn
    <3>1. ASSUME NEW s \in ResultSets, NextRow(s)
          PROVE  TouchesOwn
      BY <1>1, <1>2, <1>3, <2>2, <3>1, NextRowFetches DEF Next
    <3>2. ASSUME NEW s \in ResultSets, NEW index \in 0 .. Len(stmt.rows), SetRowIndex(s, index)
          PROVE  TouchesOwn
      BY <1>1, <1>2, <1>3, <2>2, <3>2, SetRowIndexFetches DEF Next
    <3>3. ASSUME last'.op \notin {"fetch", "throw"}
          PROVE  TouchesOwn
      BY <3>3 DEF TouchesOwn
    <3>4. \/ \E s \in ResultSets : NextRow(s)
          \/ \E s \in ResultSets, index \in 0 .. Len(stmt.rows) : SetRowIndex(s, index)
          \/ last'.op \notin {"fetch", "throw"}
      <4>1. \A kind \in Regions, v \in Values : Set(kind, v) => last'.op \notin {"fetch", "throw"}
        BY DEF Set
      <4>2. SetNull => last'.op \notin {"fetch", "throw"}
        BY DEF SetNull
      <4>3. \A result \in Results : Query(result) \/ Execute(result) => last'.op \notin {"fetch", "throw"}
        BY DEF Query, Execute, Superseding
      <4>4. Fail => last'.op \notin {"fetch", "throw"}
        BY DEF Fail, Superseding
      <4>5. \A s \in ResultSets : Destroy(s) => last'.op \notin {"fetch", "throw"}
        BY DEF Destroy
      <4>6. DropStatement => last'.op \notin {"fetch", "throw"}
        BY DEF DropStatement
      <4> QED
        BY <2>2, <4>1, <4>2, <4>3, <4>4, <4>5, <4>6 DEF Next, Step
    <3> QED
      BY <3>1, <3>2, <3>3, <3>4
  <2> QED
    BY <1>3, <2>1, <2>2
<1> QED
  BY <1>3, Invariance, PTL DEF Spec, FetchTouchesOwn

===============================================================================
