----------------------------- MODULE CodecProofs -----------------------------
(***************************************************************************)
(* Proofs about Codec, for every size of a byte and of a word, every set   *)
(* of strings and every bound on a chunk.                                  *)
(*                                                                         *)
(* What the recursive functions of Codec compute is proved by induction    *)
(* over sets of naturals: NatInductionSet and PrimitiveRecursion take      *)
(* sets and functions where the library's theorems take operators.         *)
(***************************************************************************)
EXTENDS Codec, SequenceTheorems, WellFoundedInduction, TLAPS

-----------------------------------------------------------------------------
(* Induction and recursion over the naturals.                              *)

\* A set that holds 0 and the successor of each of its naturals holds them all.
LEMMA NatInductionSet ==
    ASSUME NEW S, 0 \in S, \A n \in Nat : n \in S => n + 1 \in S
    PROVE  \A n \in Nat : n \in S
<1> SUFFICES ASSUME \E n \in Nat : n \notin S PROVE FALSE
  OBVIOUS
<1> DEFINE T == {n \in Nat : n \notin S}
<1>1. T \in SUBSET Nat /\ T # {}
  OBVIOUS
<1>2. PICK x \in T : \A y \in T : ~(<<y, x>> \in OpToRel(<, Nat))
  BY <1>1, WFMin, NatLessThanWellFounded
<1>3. ASSUME NEW a \in Nat, NEW b \in Nat, a < b
      PROVE  <<a, b>> \in OpToRel(<, Nat)
  BY <1>3, Zenon DEF OpToRel
<1>4. ASSUME NEW y \in T PROVE ~(y < x)
  BY <1>2, <1>3
<1>5. x \in Nat /\ x # 0 /\ x \notin S
  OBVIOUS
<1>6. x - 1 \in Nat /\ x - 1 < x /\ (x - 1) + 1 = x
  BY <1>5
<1>7. x - 1 \in S
  BY <1>4, <1>6
<1> QED BY <1>5, <1>6, <1>7

\* g is start at 0, and each value gives the next by one step.
Iterates(g, S, start, step) ==
    /\ g \in [Nat -> S]
    /\ g[0] = start
    /\ \A n \in Nat : g[n + 1] = step[n][g[n]]

\* A function on the naturals can be defined by its value at 0 and by a step
\* from each value to the next.
LEMMA PrimitiveRecursion ==
    ASSUME NEW S, NEW start \in S, NEW step \in [Nat -> [S -> S]]
    PROVE  \E g : Iterates(g, S, start, step)
<1> DEFINE Good(n, h) == /\ h[0] = start
                         /\ \A i \in 0 .. (n - 1) : h[i + 1] = step[i][h[i]]
           Defined    == {n \in Nat : \E h \in [0 .. n -> S] : Good(n, h)}
<1>1. 0 \in Defined
  <2>1. [i \in 0 .. 0 |-> start] \in [0 .. 0 -> S]
    OBVIOUS
  <2>2. Good(0, [i \in 0 .. 0 |-> start])
    OBVIOUS
  <2> QED BY <2>1, <2>2
<1>2. ASSUME NEW n \in Nat, n \in Defined PROVE n + 1 \in Defined
  <2>1. PICK h \in [0 .. n -> S] : Good(n, h)
    BY <1>2
  <2> DEFINE k == [i \in 0 .. (n + 1) |-> IF i = n + 1 THEN step[n][h[n]] ELSE h[i]]
  <2>2. step[n][h[n]] \in S
    OBVIOUS
  <2>3. \A i \in 0 .. (n + 1) : i # n + 1 => i \in 0 .. n
    OBVIOUS
  <2>4. k \in [0 .. (n + 1) -> S]
    BY <2>2, <2>3
  <2>5. k[0] = start
    BY <2>1
  <2>6. ASSUME NEW i \in 0 .. ((n + 1) - 1) PROVE k[i + 1] = step[i][k[i]]
    <3>1. i \in 0 .. n /\ i # n + 1 /\ i \in 0 .. (n + 1) /\ i + 1 \in 0 .. (n + 1)
      OBVIOUS
    <3>2. k[i] = h[i]
      BY <3>1
    <3>3. CASE i = n
      BY <3>1, <3>2, <3>3
    <3>4. CASE i # n
      <4>1. i \in 0 .. (n - 1) /\ i + 1 # n + 1
        BY <3>1, <3>4
      <4>2. k[i + 1] = h[i + 1]
        BY <3>1, <4>1
      <4>3. h[i + 1] = step[i][h[i]]
        BY <2>1, <4>1
      <4> QED BY <3>2, <4>2, <4>3
    <3> QED BY <3>3, <3>4
  <2>7. Good(n + 1, k)
    BY <2>5, <2>6
  <2> HIDE DEF k, Good
  <2> QED BY <2>4, <2>7
<1>3. \A n \in Nat : n \in Defined
  <2> HIDE DEF Defined
  <2> QED BY <1>1, <1>2, NatInductionSet
<1>4. ASSUME NEW m \in Nat, NEW n \in Nat,
             NEW f \in [0 .. m -> S], NEW h \in [0 .. n -> S], Good(m, f), Good(n, h)
      PROVE  \A i \in Nat : i <= m /\ i <= n => f[i] = h[i]
  <2> DEFINE Agree == {i \in Nat : i <= m /\ i <= n => f[i] = h[i]}
  <2>1. 0 \in Agree
    BY <1>4
  <2>2. ASSUME NEW i \in Nat, i \in Agree PROVE i + 1 \in Agree
    <3> SUFFICES ASSUME i + 1 <= m, i + 1 <= n PROVE f[i + 1] = h[i + 1]
      OBVIOUS
    <3>1. f[i] = h[i]
      BY <2>2
    <3>2. i \in 0 .. (m - 1) /\ i \in 0 .. (n - 1)
      OBVIOUS
    <3>3. f[i + 1] = step[i][f[i]] /\ h[i + 1] = step[i][h[i]]
      BY <1>4, <3>2
    <3> QED BY <3>1, <3>3
  <2>3. \A i \in Nat : i \in Agree
    <3> HIDE DEF Agree
    <3> QED BY <2>1, <2>2, NatInductionSet
  <2> QED BY <2>3
<1> DEFINE Part(n) == CHOOSE h \in [0 .. n -> S] : Good(n, h)
           g       == [n \in Nat |-> Part(n)[n]]
<1>5. \A n \in Nat : Part(n) \in [0 .. n -> S] /\ Good(n, Part(n))
  <2> HIDE DEF Good
  <2> QED BY <1>3
<1> HIDE DEF Part, Good, Defined
<1>6. g \in [Nat -> S]
  <2>1. \A n \in Nat : n \in 0 .. n
    OBVIOUS
  <2>2. ASSUME NEW n \in Nat PROVE Part(n)[n] \in S
    BY <1>5, <2>1
  <2> QED BY <2>2
<1>7. g[0] = start
  <2>1. g[0] = Part(0)[0]
    OBVIOUS
  <2>2. Good(0, Part(0))
    BY <1>5
  <2> QED BY <2>1, <2>2 DEF Good
<1>8. ASSUME NEW n \in Nat PROVE g[n + 1] = step[n][g[n]]
  <2>1. n + 1 \in Nat /\ n \in 0 .. ((n + 1) - 1) /\ n <= n /\ n <= n + 1
    OBVIOUS
  <2>2. Part(n + 1) \in [0 .. (n + 1) -> S] /\ Good(n + 1, Part(n + 1))
    BY <1>5, <2>1
  <2>3. Part(n) \in [0 .. n -> S] /\ Good(n, Part(n))
    BY <1>5
  <2>4. Part(n + 1)[n + 1] = step[n][Part(n + 1)[n]]
    BY <2>1, <2>2 DEF Good
  <2>5. Part(n + 1)[n] = Part(n)[n]
    BY <1>4, <2>1, <2>2, <2>3
  <2>6. g[n + 1] = Part(n + 1)[n + 1] /\ g[n] = Part(n)[n]
    BY <2>1
  <2> QED BY <2>4, <2>5, <2>6
<1> HIDE DEF g
<1> QED BY <1>6, <1>7, <1>8 DEF Iterates

-----------------------------------------------------------------------------
(* Words: the digits of a number in base Base.                             *)

\* Power is Base ^ k.
LEMMA PowerProperties ==
    /\ Power[0] = 1
    /\ \A k \in Nat : Power[k] \in Nat \ {0} /\ Power[k + 1] = Base * Power[k]
<1>1. Base \in Nat /\ Base > 0
  BY CodecAssumption
<1> DEFINE S    == Nat \ {0}
           step == [k \in Nat |-> [x \in S |-> Base * x]]
<1>2. \A x \in S : Base * x \in S
  BY <1>1
<1>3. step \in [Nat -> [S -> S]]
  BY <1>2
<1>4. \A k \in Nat, x \in S : step[k][x] = Base * x
  OBVIOUS
<1>5. 1 \in S
  OBVIOUS
<1>6. PICK g : Iterates(g, S, 1, step)
  <2> HIDE DEF S, step
  <2> QED BY <1>3, <1>5, PrimitiveRecursion, Zenon
<1>7. \A n \in Nat : g[n + 1] = Base * g[n]
  <2> HIDE DEF S, step
  <2> QED BY <1>4, <1>6 DEF Iterates
<1>8. g = [k \in Nat |-> IF k = 0 THEN 1 ELSE Base * g[k - 1]]
  <2>1. ASSUME NEW k \in Nat PROVE g[k] = IF k = 0 THEN 1 ELSE Base * g[k - 1]
    <3>1. CASE k = 0
      BY <1>6, <3>1 DEF Iterates
    <3>2. CASE k # 0
      <4>1. k - 1 \in Nat /\ (k - 1) + 1 = k
        BY <3>2
      <4>2. g[(k - 1) + 1] = Base * g[k - 1]
        BY <1>7, <4>1
      <4> QED BY <3>2, <4>1, <4>2
    <3> QED BY <3>1, <3>2
  <2> QED BY <1>6, <2>1 DEF Iterates
<1>9. Power = [k \in Nat |-> IF k = 0 THEN 1 ELSE Base * Power[k - 1]]
  BY <1>8 DEF Power
<1>10. \A k \in Nat : Power[k + 1] = Base * Power[k]
  <2>1. ASSUME NEW k \in Nat PROVE Power[k + 1] = Base * Power[k]
    <3>1. k + 1 \in Nat /\ k + 1 # 0 /\ (k + 1) - 1 = k
      OBVIOUS
    <3>2. Power[k + 1] = IF k + 1 = 0 THEN 1 ELSE Base * Power[(k + 1) - 1]
      BY <1>9, <3>1
    <3> QED BY <3>1, <3>2
  <2> QED BY <2>1
<1>11. Power[0] = 1
  BY <1>9
<1> DEFINE Positive == {k \in Nat : Power[k] \in S}
<1>12. \A k \in Nat : k \in Positive
  <2>1. 0 \in Positive
    BY <1>11
  <2>2. ASSUME NEW k \in Nat, k \in Positive PROVE k + 1 \in Positive
    BY <1>2, <1>10, <2>2
  <2> HIDE DEF Positive
  <2> QED BY <2>1, <2>2, NatInductionSet
<1> QED BY <1>10, <1>11, <1>12

\* Division with remainder.
LEMMA Division ==
    ASSUME NEW n \in Nat, NEW d \in Nat \ {0}
    PROVE  /\ n \div d \in Nat /\ n % d \in 0 .. (d - 1)
           /\ n = d * (n \div d) + (n % d)
<1>1. n % d \in 0 .. (d - 1)
  OBVIOUS
<1>2. n \div d \in Nat
  OBVIOUS
<1>3. n = d * (n \div d) + (n % d)
  OBVIOUS
<1> QED BY <1>1, <1>2, <1>3

\* The quotient is the only number that leaves a remainder below the divisor.
LEMMA QuotientUnique ==
    ASSUME NEW d \in Nat \ {0}, NEW q \in Nat, NEW r \in Nat, r < d
    PROVE  (d * q + r) \div d = q
OBVIOUS

\* Dividing by p and then by d is dividing by their product.
LEMMA DivideTwice ==
    ASSUME NEW n \in Nat, NEW p \in Nat \ {0}, NEW d \in Nat \ {0}
    PROVE  (n \div p) \div d = n \div (d * p)
<1>1. PICK q \in Nat, r \in 0 .. (p - 1) : n \div p = q /\ n = p * q + r
  BY Division
<1>2. PICK s \in Nat, t \in 0 .. (d - 1) : q \div d = s /\ q = d * s + t
  BY Division
<1>3. n = (d * p) * s + (p * t + r)
  <2>1. \A a, b \in Nat : p * (a + b) = p * a + p * b
    OBVIOUS
  <2>2. n = p * (d * s) + p * t + r
    BY <1>1, <1>2, <2>1
  <2>3. p * (d * s) = (d * p) * s
    BY <1>2
  <2> QED BY <1>1, <1>2, <2>2, <2>3
<1>4. d * p \in Nat \ {0} /\ p * t + r \in Nat /\ p * t + r < d * p
  <2>1. p * t <= p * (d - 1)
    BY <1>2
  <2>2. p * (d - 1) = d * p - p
    OBVIOUS
  <2>3. d * p \in Nat \ {0} /\ p * t \in Nat
    BY <1>2
  <2> QED BY <1>1, <2>1, <2>2, <2>3
<1>5. n \div (d * p) = s
  BY <1>2, <1>3, <1>4, QuotientUnique
<1> QED BY <1>1, <1>2, <1>5

\* A word is WordSize bytes.
LEMMA WordType ==
    ASSUME NEW n \in Nat
    PROVE  Word(n) \in Seq(Bytes) /\ Len(Word(n)) = WordSize
<1>1. ASSUME NEW i \in 1 .. WordSize PROVE (n \div Power[i - 1]) % Base \in Bytes
  <2>1. i - 1 \in Nat
    BY CodecAssumption
  <2>2. PICK p \in Nat \ {0} : p = Power[i - 1]
    BY <2>1, PowerProperties
  <2>3. PICK q \in Nat : q = n \div p
    BY Division
  <2>4. PICK b \in Nat \ {0} : b = Base
    BY CodecAssumption
  <2>5. q % b \in 0 .. (b - 1)
    BY Division
  <2> QED BY <2>2, <2>3, <2>4, <2>5 DEF Bytes
<1>2. Word(n) \in [1 .. WordSize -> Bytes]
  BY <1>1 DEF Word
<1>3. WordSize \in Nat
  BY CodecAssumption
<1> QED BY <1>2, <1>3

\* Each digit of a number is what dividing by the next power loses.
LEMMA DigitStep ==
    ASSUME NEW n \in Nat, NEW k \in Nat
    PROVE  n \div Power[k] = Base * (n \div Power[k + 1]) + ((n \div Power[k]) % Base)
<1>1. PICK b \in Nat \ {0} : b = Base
  BY CodecAssumption
<1>2. PICK p \in Nat \ {0} : p = Power[k]
  BY PowerProperties
<1>3. Power[k + 1] = b * p
  BY <1>1, <1>2, PowerProperties
<1>4. (n \div p) \div b = n \div (b * p)
  BY DivideTwice
<1>5. PICK q \in Nat : q = n \div p
  BY Division
<1>6. q = b * (q \div b) + (q % b)
  BY Division
<1>7. q \div b = n \div Power[k + 1]
  BY <1>3, <1>4, <1>5, Zenon
<1> QED BY <1>1, <1>2, <1>5, <1>6, <1>7, Zenon

\* Two words with the same bytes are the same number: the quotients by the
\* powers agree from the largest power, where both are 0, down to the first.
LEMMA WordInjective ==
    ASSUME NEW m \in AllWords, NEW n \in AllWords, Word(m) = Word(n)
    PROVE  m = n
<1>1. m \in Nat /\ n \in Nat /\ WordSize \in Nat
  BY CodecAssumption, PowerProperties DEF AllWords
<1>2. PICK top \in Nat \ {0} : top = Power[WordSize]
  BY <1>1, PowerProperties
<1>3. m < top /\ n < top
  BY <1>1, <1>2 DEF AllWords
<1>4. \A x \in Nat : x < top => x \div top = 0
  <2>1. ASSUME NEW x \in Nat, x < top PROVE x \div top = 0
    <3>1. top * 0 + x = x
      OBVIOUS
    <3> QED BY <2>1, <3>1, QuotientUnique
  <2> QED BY <2>1
<1>5. \A k \in 0 .. (WordSize - 1) : (m \div Power[k]) % Base = (n \div Power[k]) % Base
  <2>1. ASSUME NEW k \in 0 .. (WordSize - 1)
        PROVE  (m \div Power[k]) % Base = (n \div Power[k]) % Base
    <3>1. k + 1 \in 1 .. WordSize /\ (k + 1) - 1 = k
      BY <1>1
    <3>2. Word(m)[k + 1] = Word(n)[k + 1]
      OBVIOUS
    <3>3. \A x : Word(x)[k + 1] = (x \div Power[(k + 1) - 1]) % Base
      BY <3>1 DEF Word
    <3> QED BY <3>1, <3>2, <3>3
  <2> QED BY <2>1
<1> DEFINE Same == {j \in Nat : j <= WordSize =>
                        m \div Power[WordSize - j] = n \div Power[WordSize - j]}
<1>6. 0 \in Same
  <2>1. WordSize - 0 = WordSize
    BY <1>1
  <2>2. m \div top = 0 /\ n \div top = 0
    BY <1>1, <1>3, <1>4
  <2> QED BY <1>2, <2>1, <2>2
<1>7. ASSUME NEW j \in Nat, j \in Same PROVE j + 1 \in Same
  <2> SUFFICES ASSUME j + 1 <= WordSize
               PROVE  m \div Power[WordSize - (j + 1)] = n \div Power[WordSize - (j + 1)]
    OBVIOUS
  <2>1. PICK k \in Nat : k = WordSize - (j + 1)
    BY <1>1
  <2>2. k \in 0 .. (WordSize - 1) /\ k + 1 = WordSize - j /\ j <= WordSize
    BY <1>1, <2>1
  <2>3. m \div Power[k + 1] = n \div Power[k + 1]
    BY <1>7, <2>2
  <2>4. m \div Power[k] = Base * (m \div Power[k + 1]) + ((m \div Power[k]) % Base)
    BY <1>1, DigitStep
  <2>5. n \div Power[k] = Base * (n \div Power[k + 1]) + ((n \div Power[k]) % Base)
    BY <1>1, DigitStep
  <2>6. (m \div Power[k]) % Base = (n \div Power[k]) % Base
    BY <1>5, <2>2
  <2>7. m \div Power[k] = n \div Power[k]
    BY <2>3, <2>4, <2>5, <2>6
  <2> QED BY <2>1, <2>7
<1>8. \A j \in Nat : j \in Same
  <2> HIDE DEF Same
  <2> QED BY <1>6, <1>7, NatInductionSet
<1>9. m \div Power[0] = n \div Power[0]
  <2>1. WordSize \in Same /\ WordSize <= WordSize /\ WordSize - WordSize = 0
    BY <1>1, <1>8
  <2> QED BY <2>1
<1>10. \A x \in Nat : x \div 1 = x
  OBVIOUS
<1> QED BY <1>1, <1>9, <1>10, PowerProperties

\* deserialize<size_t> returns what serializeWoOwnership wrote.
LEMMA ValueOfWord ==
    ASSUME NEW n \in AllWords
    PROVE  Value(Word(n)) = n
<1>1. \E m \in AllWords : Word(m) = Word(n)
  OBVIOUS
<1>2. Value(Word(n)) \in AllWords /\ Word(Value(Word(n))) = Word(n)
  BY <1>1 DEF Value
<1> QED BY <1>2, WordInjective

\* getMemoryAndAdvance of the first part's length splits the two parts.
LEMMA TakeConcat ==
    ASSUME NEW a \in Seq(Bytes), NEW b \in Seq(Bytes)
    PROVE  /\ Take(a \o b, Len(a)) = [taken |-> a, leftover |-> b]
           /\ Take(a \o b, Len(a)) # Bad
<1>1. Len(a \o b) = Len(a) + Len(b) /\ Len(a) \in Nat /\ Len(b) \in Nat
  BY ConcatProperties
<1>2. SubSeq(a \o b, 1, Len(a)) = a
  BY SubSeqOfConcat1, <1>1, SubSeqFull
<1>3. SubSeq(a \o b, Len(a) + 1, Len(a \o b)) = b
  BY SubSeqOfConcat2, <1>1, SubSeqFull
<1>4. Take(a \o b, Len(a)) = [taken |-> a, leftover |-> b]
  <2>1. ~(Len(a \o b) < Len(a))
    BY <1>1
  <2> QED BY <1>2, <1>3, <2>1, Zenon DEF Take
<1>5. [taken |-> a, leftover |-> b] # Bad
  BY BadAssumption
<1> QED BY <1>4, <1>5

\* Two continuations of the same bytes are the same.
LEMMA CancelFirst ==
    ASSUME NEW a \in Seq(Bytes), NEW b \in Seq(Bytes), NEW c \in Seq(Bytes),
           a \o b = a \o c
    PROVE  b = c
<1>1. [taken |-> a, leftover |-> b] = [taken |-> a, leftover |-> c]
  BY TakeConcat
<1>2. [taken |-> a, leftover |-> b].leftover = b /\ [taken |-> a, leftover |-> c].leftover = c
  OBVIOUS
<1> QED BY <1>1, <1>2

\* Joining three pieces, or four, from the left and from the right is the same.
JoinsThree(a, b, c) == (a \o b) \o c = a \o (b \o c)
Joins(a, b, c, d)   == ((a \o b) \o c) \o d = a \o (b \o (c \o d))

\* It is for any three pieces of bytes.
LEMMA ThreeParts ==
    ASSUME NEW a \in Seq(Bytes), NEW b \in Seq(Bytes), NEW c \in Seq(Bytes)
    PROVE  JoinsThree(a, b, c)
BY ConcatAssociative DEF JoinsThree

\* And for any four.
LEMMA FourParts ==
    ASSUME NEW a \in Seq(Bytes), NEW b \in Seq(Bytes),
           NEW c \in Seq(Bytes), NEW d \in Seq(Bytes)
    PROVE  Joins(a, b, c, d)
<1>1. a \o b \in Seq(Bytes) /\ c \o d \in Seq(Bytes)
  BY ConcatProperties
<1>2. JoinsThree(a \o b, c, d) /\ JoinsThree(a, b, c \o d)
  BY <1>1, ThreeParts
<1> QED BY <1>2, Zenon DEF Joins, JoinsThree

-----------------------------------------------------------------------------
(* Frames: the headers.                                                    *)

\* The byte of an enumerator names it again, and every code is a byte.
LEMMA Enumerators ==
    /\ \A name \in {"REQUEST", "RESPONSE"} :
            /\ EventType[name] \in Bytes
            /\ Enumerator(EventType, EventType[name]) = name /\ name # Bad
    /\ \A name \in {"ADD_MESSAGE", "GET_MESSAGES", "SECONDARY_NODE_READY", "PING_PONG"} :
            /\ OpCode[name] \in Bytes
            /\ Enumerator(OpCode, OpCode[name]) = name /\ name # Bad
    /\ \A name \in {"OK", "NOT_ALLOWED"} :
            /\ AddMessageStatus[name] \in Bytes
            /\ Enumerator(AddMessageStatus, AddMessageStatus[name]) = name /\ name # Bad
<1> USE CodecAssumption, BadAssumption
<1>1. ASSUME NEW name \in {"REQUEST", "RESPONSE"}
      PROVE  /\ EventType[name] \in Bytes
             /\ Enumerator(EventType, EventType[name]) = name /\ name # Bad
  <2>1. EventType[name] \in Bytes /\ name # Bad
    BY DEF EventType, OpCode, AddMessageStatus, Bytes
  <2>2. Enumerator(EventType, EventType[name]) = name
    BY DEF Enumerator, EventType
  <2> QED BY <2>1, <2>2
<1>2. ASSUME NEW name \in {"ADD_MESSAGE", "GET_MESSAGES", "SECONDARY_NODE_READY",
                           "PING_PONG"}
      PROVE  /\ OpCode[name] \in Bytes
             /\ Enumerator(OpCode, OpCode[name]) = name /\ name # Bad
  <2>1. OpCode[name] \in Bytes /\ name # Bad
    BY DEF EventType, OpCode, AddMessageStatus, Bytes
  <2>2. Enumerator(OpCode, OpCode[name]) = name
    BY DEF Enumerator, OpCode
  <2> QED BY <2>1, <2>2
<1>3. ASSUME NEW name \in {"OK", "NOT_ALLOWED"}
      PROVE  /\ AddMessageStatus[name] \in Bytes
             /\ Enumerator(AddMessageStatus, AddMessageStatus[name]) = name /\ name # Bad
  <2>1. AddMessageStatus[name] \in Bytes /\ name # Bad
    BY DEF EventType, OpCode, AddMessageStatus, Bytes
  <2>2. Enumerator(AddMessageStatus, AddMessageStatus[name]) = name
    BY DEF Enumerator, AddMessageStatus
  <2> QED BY <2>1, <2>2
<1> QED BY <1>1, <1>2, <1>3

\* One byte is taken from the front of a byte and more.
LEMMA TakeByte ==
    ASSUME NEW byte \in Bytes, NEW rest \in Seq(Bytes)
    PROVE  /\ <<byte>> \o rest \in Seq(Bytes)
           /\ Len(<<byte>> \o rest) = 1 + Len(rest)
           /\ (<<byte>> \o rest)[1] = byte
           /\ <<byte>> \o rest # << >>
           /\ Take(<<byte>> \o rest, 1) = [taken |-> <<byte>>, leftover |-> rest]
<1>1. <<byte>> \in Seq(Bytes) /\ Len(<<byte>>) = 1 /\ <<byte>>[1] = byte
  OBVIOUS
<1>2. PICK a \in Seq(Bytes) : a = <<byte>>
  BY <1>1
<1>3. /\ a \o rest \in Seq(Bytes) /\ Len(a \o rest) = Len(a) + Len(rest)
      /\ \A i \in 1 .. Len(a) : (a \o rest)[i] = a[i]
  BY ConcatProperties
<1>4. Take(a \o rest, Len(a)) = [taken |-> a, leftover |-> rest]
  BY TakeConcat
<1>5. Len(a) = 1 /\ a[1] = byte
  BY <1>1, <1>2
<1>6. a \o rest # << >>
  BY <1>3, <1>5, LenProperties, EmptySeq
<1>7. (a \o rest)[1] = byte
  BY <1>3, <1>5
<1> QED BY <1>2, <1>3, <1>4, <1>5, <1>6, <1>7, Zenon

\* A size_t is taken from the front of a word and more.
LEMMA TakeWord ==
    ASSUME NEW n \in AllWords, NEW rest \in Seq(Bytes)
    PROVE  /\ Word(n) \o rest \in Seq(Bytes)
           /\ Len(Word(n) \o rest) = WordSize + Len(rest)
           /\ Take(Word(n) \o rest, WordSize) = [taken |-> Word(n), leftover |-> rest]
           /\ Take(Word(n) \o rest, WordSize) # Bad
<1>1. n \in Nat
  BY CodecAssumption, PowerProperties DEF AllWords
<1>2. Word(n) \in Seq(Bytes) /\ Len(Word(n)) = WordSize
  BY <1>1, WordType
<1>3. PICK a \in Seq(Bytes) : a = Word(n)
  BY <1>2
<1>4. Take(a \o rest, Len(a)) = [taken |-> a, leftover |-> rest] /\ Take(a \o rest, Len(a)) # Bad
  BY TakeConcat
<1>5. a \o rest \in Seq(Bytes) /\ Len(a \o rest) = Len(a) + Len(rest)
  BY ConcatProperties
<1> QED BY <1>2, <1>3, <1>4, <1>5, Zenon

\* parseEventType and parseRequestFrame recover what
\* constructRequestHeaderWoOwnership wrote, and leave the payload.
LEMMA RequestHeaderRoundTrip ==
    ASSUME NEW id \in AllWords, NEW op \in DOMAIN OpCode, NEW payload \in Seq(Bytes)
    PROVE  LET f == RequestHeader(id, op) \o payload
           IN  /\ ParseEventType(f) = "REQUEST"
               /\ ParseRequestFrame(f) = [id |-> id, op |-> op, payload |-> payload]
               /\ ParseRequestFrame(f) # Bad
<1>1. op \in {"ADD_MESSAGE", "GET_MESSAGES", "SECONDARY_NODE_READY", "PING_PONG"}
  BY DEF OpCode
<1>2. PICK code \in Bytes : code = OpCode[op]
  BY <1>1, Enumerators
<1>3. Enumerator(OpCode, code) = op /\ op # Bad
  BY <1>1, <1>2, Enumerators
<1>4. PICK kind \in Bytes : kind = EventType.REQUEST
  BY Enumerators
<1>5. Enumerator(EventType, kind) = "REQUEST"
  BY <1>4, Enumerators
<1>6. id \in Nat /\ WordSize \in Nat
  BY CodecAssumption, PowerProperties DEF AllWords
<1>7. PICK word \in Seq(Bytes) : word = Word(id)
  BY <1>6, WordType
<1> DEFINE last == <<code>> \o payload
           rest == Word(id) \o last
           f    == <<kind>> \o rest
<1>8. /\ last \in Seq(Bytes) /\ Len(last) = 1 + Len(payload)
      /\ Take(last, 1) = [taken |-> <<code>>, leftover |-> payload]
  BY TakeByte
<1>9. /\ rest \in Seq(Bytes) /\ Len(rest) = WordSize + Len(last)
      /\ Take(rest, WordSize) = [taken |-> Word(id), leftover |-> last]
  <2> HIDE DEF last
  <2> QED BY <1>8, TakeWord
<1>10. /\ Len(f) = 1 + Len(rest) /\ f[1] = kind /\ f # << >>
       /\ Take(f, 1) = [taken |-> <<kind>>, leftover |-> rest]
  <2> HIDE DEF rest
  <2> QED BY <1>9, TakeByte
<1>11. RequestHeader(id, op) \o payload = f
  <2>1. PICK a \in Seq(Bytes), b \in Seq(Bytes) : a = <<kind>> /\ b = <<code>>
    <3>1. <<kind>> \in Seq(Bytes) /\ <<code>> \in Seq(Bytes)
      OBVIOUS
    <3> QED BY <3>1
  <2>2. ((a \o word) \o b) \o payload = a \o (word \o (b \o payload))
    <3>1. Joins(a, word, b, payload)
      BY FourParts
    <3> QED BY <3>1, Zenon DEF Joins
  <2> QED BY <1>2, <1>4, <1>7, <2>1, <2>2, Zenon DEF RequestHeader
<1>12. ~(Len(f) < WordSize + 2)
  <2>1. Len(payload) \in Nat
    BY LenProperties
  <2> HIDE DEF f, rest, last
  <2> QED BY <1>6, <1>8, <1>9, <1>10, <2>1
<1> HIDE DEF f, rest, last
<1>13. ParseEventType(f) = "REQUEST"
  BY <1>5, <1>10, Zenon DEF ParseEventType
<1>14. ParseRequestFrame(f) = [id |-> id, op |-> op, payload |-> payload]
  <2>1. Take(f, 1).leftover = rest /\ Take(rest, WordSize).leftover = last
    BY <1>9, <1>10
  <2>2. Take(rest, WordSize).taken = Word(id) /\ Value(Word(id)) = id
    BY <1>9, ValueOfWord
  <2>3. Take(last, 1).taken[1] = code /\ Take(last, 1).leftover = payload
    BY <1>8
  <2> QED BY <1>3, <1>12, <1>13, <2>1, <2>2, <2>3, Zenon DEF ParseRequestFrame
<1>15. [id |-> id, op |-> op, payload |-> payload] # Bad
  BY BadAssumption
<1> QED BY <1>11, <1>13, <1>14, <1>15, Zenon

\* The same for responses.
LEMMA ResponseHeaderRoundTrip ==
    ASSUME NEW id \in AllWords, NEW payload \in Seq(Bytes)
    PROVE  LET f == ResponseHeader(id) \o payload
           IN  /\ ParseEventType(f) = "RESPONSE"
               /\ ParseResponseFrame(f) = [id |-> id, payload |-> payload]
               /\ ParseResponseFrame(f) # Bad
<1>1. PICK kind \in Bytes : kind = EventType.RESPONSE
  BY Enumerators
<1>2. Enumerator(EventType, kind) = "RESPONSE"
  BY <1>1, Enumerators
<1>3. id \in Nat /\ WordSize \in Nat
  BY CodecAssumption, PowerProperties DEF AllWords
<1>4. PICK word \in Seq(Bytes) : word = Word(id)
  BY <1>3, WordType
<1> DEFINE rest == Word(id) \o payload
           f    == <<kind>> \o rest
<1>5. /\ rest \in Seq(Bytes) /\ Len(rest) = WordSize + Len(payload)
      /\ Take(rest, WordSize) = [taken |-> Word(id), leftover |-> payload]
  BY TakeWord
<1>6. /\ Len(f) = 1 + Len(rest) /\ f[1] = kind /\ f # << >>
      /\ Take(f, 1) = [taken |-> <<kind>>, leftover |-> rest]
  <2> HIDE DEF rest
  <2> QED BY <1>5, TakeByte
<1>7. ResponseHeader(id) \o payload = f
  <2>1. PICK a \in Seq(Bytes) : a = <<kind>>
    <3>1. <<kind>> \in Seq(Bytes)
      OBVIOUS
    <3> QED BY <3>1
  <2>2. (a \o word) \o payload = a \o (word \o payload)
    BY ThreeParts DEF JoinsThree
  <2> QED BY <1>1, <1>4, <2>1, <2>2, Zenon DEF ResponseHeader
<1>8. ~(Len(f) < WordSize + 1)
  <2>1. Len(payload) \in Nat
    BY LenProperties
  <2> HIDE DEF f, rest
  <2> QED BY <1>3, <1>5, <1>6, <2>1
<1> HIDE DEF f, rest
<1>9. ParseEventType(f) = "RESPONSE"
  BY <1>2, <1>6, Zenon DEF ParseEventType
<1>10. ParseResponseFrame(f) = [id |-> id, payload |-> payload]
  <2>1. Take(f, 1).leftover = rest /\ Take(rest, WordSize).leftover = payload
    BY <1>5, <1>6
  <2>2. Take(rest, WordSize).taken = Word(id) /\ Value(Word(id)) = id
    BY <1>5, ValueOfWord
  <2> QED BY <1>8, <1>9, <2>1, <2>2, Zenon DEF ParseResponseFrame
<1>11. [id |-> id, payload |-> payload] # Bad
  BY BadAssumption
<1> QED BY <1>7, <1>9, <1>10, <1>11, Zenon

-----------------------------------------------------------------------------
(* The loops that write and read the messages of a chunk.                  *)

\* The bytes of one message after those already written.
AfterMessage(bytes, message) == bytes \o Word(Len(message)) \o message

\* w[i] is what is written once i messages of the chunk are.
Writes(w, messages) ==
    /\ w \in [0 .. Len(messages) -> Seq(Bytes)]
    /\ w[0] = Word(Len(messages))
    /\ \A i \in 1 .. Len(messages) : w[i] = AfterMessage(w[i - 1], messages[i])

\* A chunk is a sequence of strings, and a word holds its length.
LEMMA ChunkType ==
    ASSUME NEW messages \in Chunks
    PROVE  /\ messages \in Seq(Strings) /\ messages \in Seq(Seq(Bytes))
           /\ Len(messages) \in Nat /\ Len(messages) \in AllWords
           /\ \A i \in 1 .. Len(messages) :
                    messages[i] \in Seq(Bytes) /\ Len(messages[i]) \in AllWords
<1>1. PICK n \in 0 .. MaxChunk : messages \in [1 .. n -> Strings]
  BY DEF Chunks
<1>2. MaxChunk \in Nat /\ MaxChunk \in AllWords
  BY CodecAssumption, PowerProperties DEF AllWords
<1>3. messages \in Seq(Strings) /\ Len(messages) = n
  BY <1>1, <1>2
<1>4. n \in AllWords
  <2>1. PICK top \in Nat : top = Power[WordSize]
    BY CodecAssumption, PowerProperties
  <2> QED BY <1>1, <1>2, <2>1 DEF AllWords
<1>5. \A i \in 1 .. n : messages[i] \in Strings
  BY <1>1
<1>6. messages \in [1 .. n -> Seq(Bytes)]
  BY <1>1, CodecAssumption
<1>7. messages \in Seq(Seq(Bytes))
  BY <1>1, <1>2, <1>6
<1> QED BY <1>1, <1>2, <1>3, <1>4, <1>5, <1>7, CodecAssumption

\* Writing a message after bytes gives bytes.
LEMMA AfterMessageType ==
    ASSUME NEW bytes \in Seq(Bytes), NEW message \in Seq(Bytes), Len(message) \in Nat
    PROVE  AfterMessage(bytes, message) \in Seq(Bytes)
<1>1. Word(Len(message)) \in Seq(Bytes)
  BY WordType
<1>2. bytes \o Word(Len(message)) \in Seq(Bytes)
  BY <1>1, ConcatProperties
<1> QED BY <1>2, ConcatProperties DEF AfterMessage

\* serializePayloadWoOwnership writes the count and then message by message.
LEMMA ChunkWritten ==
    ASSUME NEW messages \in Chunks
    PROVE  \E w : Writes(w, messages) /\ ChunkPayload(messages) = w[Len(messages)]
<1> DEFINE N == Len(messages)
           written[i \in 0 .. N] ==
               IF i = 0 THEN Word(N)
               ELSE written[i - 1] \o Word(Len(messages[i])) \o messages[i]
<1>1. ChunkPayload(messages) = written[N]
  BY DEF ChunkPayload
<1>2. N \in Nat /\ Word(N) \in Seq(Bytes)
  BY ChunkType, WordType
<1>3. \A i \in 1 .. N : messages[i] \in Seq(Bytes) /\ Len(messages[i]) \in Nat
  BY ChunkType, CodecAssumption, PowerProperties DEF AllWords
<1> HIDE DEF N
<1> DEFINE S    == Seq(Bytes)
           step == [k \in Nat |-> [x \in S |-> IF k + 1 \in 1 .. N
                                                THEN AfterMessage(x, messages[k + 1])
                                                ELSE x]]
<1>4. step \in [Nat -> [S -> S]]
  <2>1. ASSUME NEW k \in Nat, NEW x \in S, k + 1 \in 1 .. N
        PROVE  AfterMessage(x, messages[k + 1]) \in S
    BY <1>3, <2>1, AfterMessageType
  <2> QED BY <2>1
<1>5. \A k \in Nat, x \in S : k + 1 \in 1 .. N =>
            step[k][x] = AfterMessage(x, messages[k + 1])
  OBVIOUS
<1>6. PICK g : Iterates(g, S, Word(N), step)
  <2> HIDE DEF S, step
  <2>1. Word(N) \in S
    BY <1>2 DEF S
  <2> QED BY <1>4, <2>1, PrimitiveRecursion, Zenon
<1>7. /\ g \in [Nat -> S] /\ g[0] = Word(N)
      /\ \A n \in Nat : n + 1 \in 1 .. N => g[n + 1] = AfterMessage(g[n], messages[n + 1])
  <2> HIDE DEF S, step
  <2> QED BY <1>5, <1>6 DEF Iterates
<1> DEFINE v == [i \in 0 .. N |-> g[i]]
<1>8. v = [i \in 0 .. N |-> IF i = 0 THEN Word(N)
                            ELSE v[i - 1] \o Word(Len(messages[i])) \o messages[i]]
  <2>1. ASSUME NEW i \in 0 .. N
        PROVE  v[i] = IF i = 0 THEN Word(N)
                      ELSE v[i - 1] \o Word(Len(messages[i])) \o messages[i]
    <3>1. CASE i = 0
      BY <1>2, <1>7, <3>1
    <3>2. CASE i # 0
      <4>1. PICK n \in Nat : i = n + 1
        <5>1. i - 1 \in Nat /\ i = (i - 1) + 1
          BY <1>2, <3>2
        <5> QED BY <5>1
      <4>2. n + 1 \in 1 .. N /\ n \in 0 .. N /\ i - 1 = n
        BY <1>2, <4>1
      <4>3. v[i] = g[n + 1] /\ v[i - 1] = g[n]
        BY <4>1, <4>2
      <4>4. g[n + 1] = AfterMessage(g[n], messages[i])
        BY <1>7, <4>1, <4>2
      <4> HIDE DEF v
      <4> QED BY <3>2, <4>3, <4>4 DEF AfterMessage
    <3> QED BY <3>1, <3>2
  <2> QED BY <2>1
<1>9. written = [i \in 0 .. N |-> IF i = 0 THEN Word(N)
                     ELSE written[i - 1] \o Word(Len(messages[i])) \o messages[i]]
  <2> HIDE DEF v
  <2> QED BY <1>8
<1> HIDE DEF written, v, step
<1>10. written[0] = Word(N)
  BY <1>2, <1>9
<1>11. \A i \in 1 .. N : written[i] = AfterMessage(written[i - 1], messages[i])
  <2>1. ASSUME NEW i \in 1 .. N PROVE written[i] = AfterMessage(written[i - 1], messages[i])
    <3>1. i \in 0 .. N /\ i # 0
      BY <1>2
    <3>2. written[i] = IF i = 0 THEN Word(N)
                       ELSE written[i - 1] \o Word(Len(messages[i])) \o messages[i]
      BY <1>9, <3>1
    <3> QED BY <3>1, <3>2 DEF AfterMessage
  <2> QED BY <2>1
<1> DEFINE Typed == {i \in Nat : i <= N => written[i] \in S}
<1>12. \A i \in Nat : i \in Typed
  <2>1. 0 \in Typed
    BY <1>2, <1>10
  <2>2. ASSUME NEW i \in Nat, i \in Typed PROVE i + 1 \in Typed
    <3> SUFFICES ASSUME i + 1 <= N PROVE written[i + 1] \in S
      OBVIOUS
    <3>1. i + 1 \in 1 .. N /\ (i + 1) - 1 = i /\ i <= N
      BY <1>2
    <3>2. written[i] \in S
      BY <2>2, <3>1
    <3>3. written[i + 1] = AfterMessage(written[i], messages[i + 1])
      BY <1>11, <3>1
    <3> QED BY <1>3, <3>1, <3>2, <3>3, AfterMessageType
  <2> HIDE DEF Typed
  <2> QED BY <2>1, <2>2, NatInductionSet
<1>13. written \in [0 .. N -> S]
  <2>1. \A i \in 0 .. N : written[i] \in S
    BY <1>2, <1>12
  <2> QED BY <1>9, <2>1
<1>14. Writes(written, messages)
  BY <1>10, <1>11, <1>13 DEF Writes, N
<1> QED BY <1>1, <1>14 DEF N

\* What is written before message i begins what is written in the end.
LEMMA WrittenPrefix ==
    ASSUME NEW messages \in Chunks, NEW w, Writes(w, messages)
    PROVE  \A i \in 0 .. Len(messages) :
               \E rest \in Seq(Bytes) : w[Len(messages)] = w[i] \o rest
<1>1. PICK N \in Nat : N = Len(messages)
  BY ChunkType
<1>2. /\ w \in [0 .. N -> Seq(Bytes)]
      /\ \A i \in 1 .. N : w[i] = AfterMessage(w[i - 1], messages[i])
  BY <1>1 DEF Writes
<1> DEFINE Begins(i) == \E rest \in Seq(Bytes) : w[N] = w[i] \o rest
           Left == {j \in Nat : j <= N => Begins(N - j)}
<1>3. 0 \in Left
  <2>1. N \in 0 .. N /\ N - 0 = N
    BY <1>1
  <2>2. w[N] = w[N] \o << >> /\ << >> \in Seq(Bytes)
    BY <1>2, <2>1, ConcatEmptySeq, EmptySeq
  <2> QED BY <2>1, <2>2
<1>4. ASSUME NEW j \in Nat, j \in Left PROVE j + 1 \in Left
  <2> SUFFICES ASSUME j + 1 <= N PROVE Begins(N - (j + 1))
    OBVIOUS
  <2>1. PICK i \in Nat : i = N - (j + 1)
    BY <1>1
  <2>2. i \in 0 .. N /\ i + 1 \in 1 .. N /\ (i + 1) - 1 = i /\ N - j = i + 1 /\ j <= N
    BY <1>1, <2>1
  <2>3. PICK rest \in Seq(Bytes) : w[N] = w[i + 1] \o rest
    BY <1>4, <2>2
  <2>4. PICK message \in Seq(Bytes), word \in Seq(Bytes) :
            message = messages[i + 1] /\ word = Word(Len(message))
    <3>1. messages[i + 1] \in Seq(Bytes)
      BY <1>1, <2>2, ChunkType
    <3>2. Len(messages[i + 1]) \in Nat
      BY <3>1, LenProperties
    <3> QED BY <3>1, <3>2, WordType
  <2>5. PICK before \in Seq(Bytes) : before = w[i]
    BY <1>2, <2>2
  <2>6. w[i + 1] = (before \o word) \o message
    BY <1>2, <2>2, <2>4, <2>5 DEF AfterMessage
  <2>7. ((before \o word) \o message) \o rest = before \o (word \o (message \o rest))
    <3>1. Joins(before, word, message, rest)
      BY FourParts
    <3> QED BY <3>1, Zenon DEF Joins
  <2>8. word \o (message \o rest) \in Seq(Bytes)
    <3>1. message \o rest \in Seq(Bytes)
      BY ConcatProperties
    <3> QED BY <3>1, ConcatProperties
  <2> QED BY <2>1, <2>3, <2>5, <2>6, <2>7, <2>8, Zenon
<1>5. \A j \in Nat : j \in Left
  <2> HIDE DEF Left
  <2> QED BY <1>3, <1>4, NatInductionSet
<1>6. ASSUME NEW i \in 0 .. N PROVE Begins(i)
  <2> HIDE DEF Begins
  <2>1. PICK j \in Nat : j = N - i /\ j <= N /\ N - j = i
    <3>1. N - i \in Nat /\ N - i <= N /\ N - (N - i) = i
      OBVIOUS
    <3> QED BY <3>1
  <2>2. j \in Left
    BY <1>5
  <2> QED BY <2>1, <2>2
<1> QED BY <1>1, <1>6

\* One turn of the reading loop takes the size and the message that one turn
\* of the writing loop put.
LEMMA ReadOneMessage ==
    ASSUME NEW messages \in Seq(Seq(Bytes)), NEW message \in Seq(Bytes),
           Len(message) \in AllWords, NEW rest \in Seq(Bytes), NEW acc,
           acc = [messages |-> messages, leftover |-> Word(Len(message)) \o (message \o rest)]
    PROVE  ReadMessage(acc) = [messages |-> Append(messages, message), leftover |-> rest]
<1>1. PICK body \in Seq(Bytes) : body = message \o rest
  BY ConcatProperties
<1>2. PICK n \in AllWords : n = Len(message)
  OBVIOUS
<1>3. PICK left \in Seq(Bytes) : left = Word(n) \o body
  BY TakeWord
<1>4. acc = [messages |-> messages, leftover |-> left]
  BY <1>1, <1>2, <1>3
<1>5. acc.messages = messages /\ acc.leftover = left /\ acc # Bad
  <2>1. [messages |-> messages, leftover |-> left]
            \in [messages : Seq(Seq(Bytes)), leftover : Seq(Bytes)]
    OBVIOUS
  <2>2. acc # Bad
    BY <1>4, <2>1, BadAssumption, Zenon
  <2>3. \A m, l : /\ [messages |-> m, leftover |-> l].messages = m
                  /\ [messages |-> m, leftover |-> l].leftover = l
    OBVIOUS
  <2> QED BY <1>4, <2>2, <2>3, Zenon
<1>6. PICK size : size = Take(left, WordSize)
  OBVIOUS
<1>7. size # Bad /\ size = [taken |-> Word(n), leftover |-> body]
  BY <1>3, <1>6, TakeWord, Zenon
<1>8. size.leftover = body /\ Value(size.taken) = n
  BY <1>7, ValueOfWord
<1>9. PICK part : part = Take(body, n)
  OBVIOUS
<1>10. part # Bad /\ part = [taken |-> message, leftover |-> rest]
  BY <1>1, <1>2, <1>9, TakeConcat, Zenon
<1>11. part.taken = message /\ part.leftover = rest
  BY <1>10
<1> QED BY <1>5, <1>6, <1>7, <1>8, <1>9, <1>10, <1>11, Zenon DEF ReadMessage

\* The first i elements of a sequence, one more at a time.
LEMMA FirstElements ==
    ASSUME NEW S, NEW seq \in Seq(S), NEW i \in 0 .. Len(seq)
    PROVE  /\ [j \in 1 .. i |-> seq[j]] \in Seq(S)
           /\ i = 0 => [j \in 1 .. i |-> seq[j]] = << >>
           /\ i = Len(seq) => [j \in 1 .. i |-> seq[j]] = seq
           /\ i # 0 => [j \in 1 .. i |-> seq[j]]
                       = Append([j \in 1 .. (i - 1) |-> seq[j]], seq[i])
<1>1. Len(seq) \in Nat /\ seq \in [1 .. Len(seq) -> S]
  BY LenProperties
<1>2. \A k \in 0 .. Len(seq) : [j \in 1 .. k |-> seq[j]] \in Seq(S)
  <2>1. ASSUME NEW k \in 0 .. Len(seq) PROVE [j \in 1 .. k |-> seq[j]] \in Seq(S)
    <3>1. k \in Nat /\ \A j \in 1 .. k : seq[j] \in S
      BY <1>1
    <3>2. [j \in 1 .. k |-> seq[j]] \in [1 .. k -> S]
      BY <3>1
    <3> QED BY <3>1, <3>2
  <2> QED BY <2>1
<1>3. i = 0 => [j \in 1 .. i |-> seq[j]] = << >>
  OBVIOUS
<1>4. i = Len(seq) => [j \in 1 .. i |-> seq[j]] = seq
  BY <1>1
<1>5. ASSUME i # 0
      PROVE  [j \in 1 .. i |-> seq[j]] = Append([j \in 1 .. (i - 1) |-> seq[j]], seq[i])
  <2>1. i - 1 \in 0 .. Len(seq) /\ i - 1 \in Nat /\ i \in 1 .. Len(seq) /\ (i - 1) + 1 = i
    BY <1>1, <1>5
  <2> DEFINE short == [j \in 1 .. (i - 1) |-> seq[j]]
             long  == [j \in 1 .. i |-> seq[j]]
  <2>2. short \in Seq(S) /\ long \in Seq(S) /\ seq[i] \in S
    BY <1>1, <1>2, <2>1
  <2>3. Len(short) = i - 1 /\ Len(long) = i
    BY <2>1
  <2>4. \A j \in 1 .. (i - 1) : short[j] = seq[j]
    OBVIOUS
  <2>5. \A j \in 1 .. i : long[j] = seq[j]
    OBVIOUS
  <2> HIDE DEF short, long
  <2>6. PICK app : app = Append(short, seq[i])
    OBVIOUS
  <2>7. /\ app \in Seq(S) /\ Len(app) = Len(short) + 1
        /\ \A j \in 1 .. Len(short) : app[j] = short[j]
        /\ app[Len(short) + 1] = seq[i]
    BY <2>2, <2>6, AppendProperties
  <2>8. Len(app) = i /\ \A j \in 1 .. i : app[j] = seq[j]
    BY <2>1, <2>3, <2>4, <2>7
  <2>9. app = long
    BY <2>2, <2>3, <2>5, <2>7, <2>8, SeqEqual
  <2> QED BY <2>6, <2>9 DEF short, long
<1> QED BY <1>2, <1>3, <1>4, <1>5

\* Response::GetMessages::fromPayload returns the messages that
\* serializePayloadWoOwnership wrote, and the bytes are bytes.
LEMMA ChunkRoundTrip ==
    ASSUME NEW messages \in Chunks
    PROVE  /\ ChunkPayload(messages) \in Seq(Bytes)
           /\ ChunkFromPayload(ChunkPayload(messages)) = messages
           /\ messages # Bad
<1>1. PICK N \in Nat : N = Len(messages) /\ N \in AllWords
  BY ChunkType
<1>2. PICK w : Writes(w, messages) /\ ChunkPayload(messages) = w[N]
  BY <1>1, ChunkWritten
<1>3. /\ w \in [0 .. N -> Seq(Bytes)] /\ w[0] = Word(N)
      /\ \A i \in 1 .. N : w[i] = AfterMessage(w[i - 1], messages[i])
  BY <1>1, <1>2 DEF Writes
<1>4. PICK p \in Seq(Bytes) : p = w[N]
  BY <1>3
<1> DEFINE T(i)     == CHOOSE rest \in Seq(Bytes) : p = w[i] \o rest
           First(i) == [j \in 1 .. i |-> messages[j]]
<1>5. \A i \in 0 .. N : T(i) \in Seq(Bytes) /\ p = w[i] \o T(i)
  <2>1. \A i \in 0 .. N : \E rest \in Seq(Bytes) : w[N] = w[i] \o rest
    BY <1>1, <1>2, WrittenPrefix, Zenon
  <2>2. ASSUME NEW i \in 0 .. N PROVE \E rest \in Seq(Bytes) : p = w[i] \o rest
    BY <1>4, <2>1
  <2> QED BY <2>2, Zenon
<1> HIDE DEF T
<1>6. ASSUME NEW i \in 1 .. N
      PROVE  T(i - 1) = Word(Len(messages[i])) \o (messages[i] \o T(i))
  <2>1. i \in 0 .. N /\ i - 1 \in 0 .. N
    OBVIOUS
  <2>2. PICK message \in Seq(Bytes), word \in Seq(Bytes) :
            message = messages[i] /\ word = Word(Len(message))
    <3>1. messages[i] \in Seq(Bytes)
      BY <1>1, ChunkType
    <3>2. Len(messages[i]) \in Nat
      BY <3>1, LenProperties
    <3> QED BY <3>1, <3>2, WordType
  <2>3. PICK before \in Seq(Bytes), rest \in Seq(Bytes), old \in Seq(Bytes) :
            before = w[i - 1] /\ rest = T(i) /\ old = T(i - 1)
    BY <1>3, <1>5, <2>1
  <2>4. p = before \o old
    BY <1>5, <2>1, <2>3
  <2>5. p = ((before \o word) \o message) \o rest
    BY <1>3, <1>5, <2>1, <2>2, <2>3 DEF AfterMessage
  <2>6. ((before \o word) \o message) \o rest = before \o (word \o (message \o rest))
    <3>1. Joins(before, word, message, rest)
      BY FourParts
    <3> QED BY <3>1, Zenon DEF Joins
  <2>7. PICK new \in Seq(Bytes) : new = word \o (message \o rest)
    <3>1. message \o rest \in Seq(Bytes)
      BY ConcatProperties
    <3>2. word \o (message \o rest) \in Seq(Bytes)
      BY <3>1, ConcatProperties
    <3> QED BY <3>2
  <2>8. before \o old = before \o new
    BY <2>4, <2>5, <2>6, <2>7, Zenon
  <2>9. old = new
    BY <2>8, CancelFirst
  <2> QED BY <2>2, <2>3, <2>7, <2>9, Zenon
<1>7. T(N) = << >>
  <2>1. N \in 0 .. N
    BY <1>1
  <2>2. p \o T(N) = p \o << >> /\ << >> \in Seq(Bytes) /\ T(N) \in Seq(Bytes)
    BY <1>4, <1>5, <2>1, ConcatEmptySeq, EmptySeq
  <2> QED BY <2>2, CancelFirst
<1>8. \A i \in 0 .. N : First(i) \in Seq(Seq(Bytes))
  BY <1>1, ChunkType, FirstElements
<1>9. First(0) = << >> /\ First(N) = messages
  <2>1. 0 \in 0 .. Len(messages) /\ N \in 0 .. Len(messages) /\ messages \in Seq(Seq(Bytes))
    BY <1>1, ChunkType
  <2> QED BY <1>1, <2>1, FirstElements
<1>10. \A i \in 1 .. N : First(i) = Append(First(i - 1), messages[i])
  <2>1. \A i \in 1 .. N : i \in 0 .. Len(messages) /\ i # 0
    BY <1>1
  <2>2. messages \in Seq(Seq(Bytes))
    BY ChunkType
  <2> QED BY <2>1, <2>2, FirstElements
<1> HIDE DEF First
<1> DEFINE count == Take(p, WordSize)
           read[i \in 0 .. Value(count.taken)] ==
               IF i = 0 THEN [messages |-> << >>, leftover |-> count.leftover]
               ELSE ReadMessage(read[i - 1])
           all == read[Value(count.taken)]
<1>11. ChunkFromPayload(p) = IF count = Bad THEN Bad
                             ELSE IF all = Bad THEN Bad
                             ELSE IF all.leftover # << >> THEN Bad
                             ELSE all.messages
  BY DEF ChunkFromPayload
<1>12. count # Bad /\ Value(count.taken) = N /\ count.leftover = T(0)
  <2>1. 0 \in 0 .. N
    BY <1>1
  <2>2. p = Word(N) \o T(0) /\ T(0) \in Seq(Bytes)
    BY <1>3, <1>5, <2>1
  <2>3. count # Bad /\ count = [taken |-> Word(N), leftover |-> T(0)]
    BY <1>1, <2>2, TakeWord, Zenon
  <2> HIDE DEF count
  <2> QED BY <1>1, <2>3, ValueOfWord
<1> DEFINE State(i) == [messages |-> First(i), leftover |-> T(i)]
           v        == [i \in 0 .. N |-> State(i)]
<1>13. \A i \in 1 .. N : ReadMessage(State(i - 1)) = State(i)
  <2>1. ASSUME NEW i \in 1 .. N PROVE ReadMessage(State(i - 1)) = State(i)
    <3>1. i \in 0 .. N /\ i - 1 \in 0 .. N
      OBVIOUS
    <3>2. PICK message \in Seq(Bytes) : message = messages[i] /\ Len(message) \in AllWords
      BY <1>1, ChunkType
    <3>3. PICK old \in Seq(Seq(Bytes)), rest \in Seq(Bytes) : old = First(i - 1) /\ rest = T(i)
      BY <1>5, <1>8, <3>1
    <3>4. PICK acc : acc = State(i - 1)
      OBVIOUS
    <3>5. acc = [messages |-> old, leftover |-> Word(Len(message)) \o (message \o rest)]
      BY <1>6, <3>2, <3>3, <3>4, Zenon
    <3>6. ReadMessage(acc) = [messages |-> Append(old, message), leftover |-> rest]
      BY <3>2, <3>5, ReadOneMessage, Zenon
    <3>7. First(i) = Append(old, message)
      BY <1>10, <3>2, <3>3
    <3> QED BY <3>3, <3>4, <3>6, <3>7, Zenon
  <2> QED BY <2>1
<1>14. State(0) = [messages |-> << >>, leftover |-> T(0)]
  BY <1>9
<1> HIDE DEF State
<1>15. v = [i \in 0 .. N |-> IF i = 0 THEN [messages |-> << >>, leftover |-> T(0)]
                             ELSE ReadMessage(v[i - 1])]
  <2>1. ASSUME NEW i \in 0 .. N
        PROVE  v[i] = IF i = 0 THEN [messages |-> << >>, leftover |-> T(0)]
                      ELSE ReadMessage(v[i - 1])
    <3>1. CASE i = 0
      BY <1>14, <3>1
    <3>2. CASE i # 0
      <4>1. i \in 1 .. N /\ i - 1 \in 0 .. N
        BY <3>2
      <4>2. v[i] = State(i) /\ v[i - 1] = State(i - 1)
        BY <4>1
      <4> HIDE DEF v
      <4> QED BY <1>13, <3>2, <4>1, <4>2
    <3> QED BY <3>1, <3>2
  <2> QED BY <2>1
<1>16. read = [i \in 0 .. N |-> IF i = 0 THEN [messages |-> << >>, leftover |-> T(0)]
                                ELSE ReadMessage(read[i - 1])]
  <2> HIDE DEF v, count
  <2> QED BY <1>12, <1>15
<1> HIDE DEF read, v, count
<1> DEFINE Follows == {i \in Nat : i <= N => read[i] = State(i)}
<1>17. \A i \in Nat : i \in Follows
  <2>1. 0 \in Follows
    BY <1>1, <1>14, <1>16
  <2>2. ASSUME NEW i \in Nat, i \in Follows PROVE i + 1 \in Follows
    <3> SUFFICES ASSUME i + 1 <= N PROVE read[i + 1] = State(i + 1)
      OBVIOUS
    <3>1. i + 1 \in 0 .. N /\ i + 1 \in 1 .. N /\ i + 1 # 0 /\ (i + 1) - 1 = i /\ i <= N
      BY <1>1
    <3>2. read[i] = State(i)
      BY <2>2, <3>1
    <3>3. read[i + 1] = ReadMessage(read[(i + 1) - 1])
      BY <1>16, <3>1
    <3>4. ReadMessage(State((i + 1) - 1)) = State(i + 1)
      BY <1>13, <3>1
    <3> QED BY <3>1, <3>2, <3>3, <3>4
  <2> HIDE DEF Follows
  <2> QED BY <2>1, <2>2, NatInductionSet
<1>18. read[N] = State(N)
  BY <1>1, <1>17
<1>19. State(N) = [messages |-> messages, leftover |-> << >>]
  BY <1>7, <1>9 DEF State
<1>20. messages \in Seq(Seq(Bytes)) /\ << >> \in Seq(Bytes)
  BY ChunkType, EmptySeq
<1>21. State(N) # Bad /\ messages # Bad
  <2>1. [messages |-> messages, leftover |-> << >>]
            \in [messages : Seq(Seq(Bytes)), leftover : Seq(Bytes)]
    BY <1>20
  <2> QED BY <1>19, <1>20, <2>1, BadAssumption, Zenon
<1>22. State(N).leftover = << >> /\ State(N).messages = messages
  BY <1>19
<1>23. ChunkFromPayload(p) = messages
  BY <1>11, <1>12, <1>18, <1>21, <1>22, Zenon
<1> QED BY <1>2, <1>4, <1>21, <1>23

-----------------------------------------------------------------------------
(* Every kind of request and of response.                                  *)

\* A payload that is one size_t gives the number back.
LEMMA OnlyWordRoundTrip ==
    ASSUME NEW n \in AllWords
    PROVE  Word(n) \in Seq(Bytes) /\ OnlyWord(Word(n)) = n /\ n # Bad
<1>1. n \in Nat
  BY CodecAssumption, PowerProperties DEF AllWords
<1>2. Word(n) \in Seq(Bytes) /\ Len(Word(n)) = WordSize
  BY <1>1, WordType
<1>3. Value(Word(n)) = n
  BY ValueOfWord
<1>4. n # Bad
  BY BadAssumption
<1> QED BY <1>2, <1>3, <1>4, Zenon DEF OnlyWord

\* The payload of every request is bytes that give the request back.
LEMMA RequestRoundTrip ==
    ASSUME NEW r \in Requests
    PROVE  /\ r.id \in AllWords /\ r.op \in DOMAIN OpCode
           /\ RequestPayload(r) \in Seq(Bytes)
           /\ \A f : f = [id |-> r.id, op |-> r.op, payload |-> RequestPayload(r)]
                     => RequestFromPayload(f) = r
<1> DEFINE Goal == /\ r.id \in AllWords /\ r.op \in DOMAIN OpCode
                   /\ RequestPayload(r) \in Seq(Bytes)
                   /\ \A f : f = [id |-> r.id, op |-> r.op, payload |-> RequestPayload(r)]
                             => RequestFromPayload(f) = r
<1>1. ASSUME r \in [op : {"ADD_MESSAGE"}, id : Words, messageId : Words, message : Strings]
      PROVE  Goal
  <2>1. PICK id \in AllWords, n \in AllWords, message \in Seq(Bytes) :
            r = [op |-> "ADD_MESSAGE", id |-> id, messageId |-> n, message |-> message]
    BY <1>1, CodecAssumption
  <2>2. r.op = "ADD_MESSAGE" /\ r.id = id /\ r.messageId = n /\ r.message = message
    BY <2>1
  <2>3. RequestPayload(r) = Word(n) \o message
    BY <2>2 DEF RequestPayload, AddMessageRequestPayload
  <2>4. PICK t : t = Take(Word(n) \o message, WordSize)
    OBVIOUS
  <2>5. Word(n) \o message \in Seq(Bytes) /\ t # Bad /\ t = [taken |-> Word(n), leftover |-> message]
    BY <2>4, TakeWord, Zenon
  <2>6. t.leftover = message /\ Value(t.taken) = n
    BY <2>5, ValueOfWord
  <2>7. ASSUME NEW f, f = [id |-> r.id, op |-> r.op, payload |-> RequestPayload(r)]
        PROVE  RequestFromPayload(f) = r
    <3>1. f.id = id /\ f.op = "ADD_MESSAGE" /\ f.payload = Word(n) \o message
      BY <2>2, <2>3, <2>7
    <3>2. RequestFromPayload(f) = AddMessageRequestFrom(f)
      BY <3>1 DEF RequestFromPayload
    <3>3. AddMessageRequestFrom(f) = [op |-> "ADD_MESSAGE", id |-> id, messageId |-> n,
                                      message |-> message]
      BY <2>4, <2>5, <2>6, <3>1, Zenon DEF AddMessageRequestFrom
    <3> QED BY <2>1, <3>2, <3>3, Zenon
  <2>8. r.op \in DOMAIN OpCode
    BY <2>2 DEF OpCode
  <2> QED BY <2>2, <2>3, <2>5, <2>7, <2>8
<1>2. ASSUME r \in [op : {"GET_MESSAGES"}, id : Words, startMessageId : Words]
      PROVE  Goal
  <2>1. PICK id \in AllWords, n \in AllWords :
            r = [op |-> "GET_MESSAGES", id |-> id, startMessageId |-> n]
    BY <1>2, CodecAssumption
  <2>2. r.op = "GET_MESSAGES" /\ r.id = id /\ r.startMessageId = n
    BY <2>1
  <2>3. RequestPayload(r) = Word(n)
    BY <2>2 DEF RequestPayload, GetMessagesRequestPayload
  <2>4. Word(n) \in Seq(Bytes) /\ OnlyWord(Word(n)) = n /\ n # Bad
    BY OnlyWordRoundTrip
  <2>5. ASSUME NEW f, f = [id |-> r.id, op |-> r.op, payload |-> RequestPayload(r)]
        PROVE  RequestFromPayload(f) = r
    <3>1. f.id = id /\ f.op = "GET_MESSAGES" /\ f.payload = Word(n)
      BY <2>2, <2>3, <2>5
    <3>2. RequestFromPayload(f) = GetMessagesRequestFrom(f)
      BY <3>1 DEF RequestFromPayload
    <3>3. GetMessagesRequestFrom(f) = [op |-> "GET_MESSAGES", id |-> id, startMessageId |-> n]
      BY <2>4, <3>1, Zenon DEF GetMessagesRequestFrom
    <3> QED BY <2>1, <3>2, <3>3, Zenon
  <2>6. r.op \in DOMAIN OpCode
    BY <2>2 DEF OpCode
  <2> QED BY <2>2, <2>3, <2>4, <2>5, <2>6
<1>3. ASSUME r \in [op : {"SECONDARY_NODE_READY"}, id : Words, name : Strings]
      PROVE  Goal
  <2>1. PICK id \in AllWords, name \in Seq(Bytes) :
            r = [op |-> "SECONDARY_NODE_READY", id |-> id, name |-> name]
    BY <1>3, CodecAssumption
  <2>2. r.op = "SECONDARY_NODE_READY" /\ r.id = id /\ r.name = name
    BY <2>1
  <2>3. RequestPayload(r) = name
    BY <2>2 DEF RequestPayload, SecondaryNodeReadyPayload
  <2>4. ASSUME NEW f, f = [id |-> r.id, op |-> r.op, payload |-> RequestPayload(r)]
        PROVE  RequestFromPayload(f) = r
    <3>1. f.id = id /\ f.op = "SECONDARY_NODE_READY" /\ f.payload = name
      BY <2>2, <2>3, <2>4
    <3>2. RequestFromPayload(f) = SecondaryNodeReadyFrom(f)
      BY <3>1 DEF RequestFromPayload
    <3>3. SecondaryNodeReadyFrom(f) = [op |-> "SECONDARY_NODE_READY", id |-> id, name |-> name]
      BY <3>1, Zenon DEF SecondaryNodeReadyFrom
    <3> QED BY <2>1, <3>2, <3>3, Zenon
  <2>5. r.op \in DOMAIN OpCode
    BY <2>2 DEF OpCode
  <2> QED BY <2>2, <2>3, <2>4, <2>5
<1>4. ASSUME r \in [op : {"PING_PONG"}, id : Words, timestamp : Words]
      PROVE  Goal
  <2>1. PICK id \in AllWords, n \in AllWords :
            r = [op |-> "PING_PONG", id |-> id, timestamp |-> n]
    BY <1>4, CodecAssumption
  <2>2. r.op = "PING_PONG" /\ r.id = id /\ r.timestamp = n
    BY <2>1
  <2>3. RequestPayload(r) = Word(n)
    BY <2>2 DEF RequestPayload, PingPayload
  <2>4. Word(n) \in Seq(Bytes) /\ OnlyWord(Word(n)) = n /\ n # Bad
    BY OnlyWordRoundTrip
  <2>5. ASSUME NEW f, f = [id |-> r.id, op |-> r.op, payload |-> RequestPayload(r)]
        PROVE  RequestFromPayload(f) = r
    <3>1. f.id = id /\ f.op = "PING_PONG" /\ f.payload = Word(n)
      BY <2>2, <2>3, <2>5
    <3>2. RequestFromPayload(f) = PingFrom(f)
      BY <3>1 DEF RequestFromPayload
    <3>3. PingFrom(f) = [op |-> "PING_PONG", id |-> id, timestamp |-> n]
      BY <2>4, <3>1, Zenon DEF PingFrom
    <3> QED BY <2>1, <3>2, <3>3, Zenon
  <2>6. r.op \in DOMAIN OpCode
    BY <2>2 DEF OpCode
  <2> QED BY <2>2, <2>3, <2>4, <2>5, <2>6
<1> HIDE DEF Goal
<1>5. Goal
  BY <1>1, <1>2, <1>3, <1>4, Zenon DEF Requests
<1> QED BY <1>5 DEF Goal

\* The payload of every response is bytes that give the response back, to the
\* caller who knows which op code it asked for.
LEMMA ResponseRoundTrip ==
    ASSUME NEW r \in Responses
    PROVE  /\ r.id \in AllWords
           /\ ResponsePayload(r) \in Seq(Bytes)
           /\ \A f : f = [id |-> r.id, payload |-> ResponsePayload(r)]
                     => ResponseFromPayload(f, r.op) = r
<1> DEFINE Goal == /\ r.id \in AllWords
                   /\ ResponsePayload(r) \in Seq(Bytes)
                   /\ \A f : f = [id |-> r.id, payload |-> ResponsePayload(r)]
                             => ResponseFromPayload(f, r.op) = r
<1>1. ASSUME r \in [op : {"ADD_MESSAGE"}, id : Words, status : DOMAIN AddMessageStatus]
      PROVE  Goal
  <2>1. PICK id \in AllWords, status \in {"OK", "NOT_ALLOWED"} :
            r = [op |-> "ADD_MESSAGE", id |-> id, status |-> status]
    BY <1>1, CodecAssumption DEF AddMessageStatus
  <2>2. r.op = "ADD_MESSAGE" /\ r.id = id /\ r.status = status
    BY <2>1
  <2>3. PICK byte \in Bytes : byte = AddMessageStatus[status]
    BY <2>1, Enumerators
  <2>4. Enumerator(AddMessageStatus, byte) = status /\ status # Bad
    BY <2>1, <2>3, Enumerators
  <2>5. ResponsePayload(r) = <<byte>>
    BY <2>2, <2>3 DEF ResponsePayload, AddMessageResponsePayload
  <2>6. <<byte>> \in Seq(Bytes) /\ Len(<<byte>>) = 1 /\ <<byte>>[1] = byte
    OBVIOUS
  <2>7. ASSUME NEW f, f = [id |-> r.id, payload |-> ResponsePayload(r)]
        PROVE  ResponseFromPayload(f, r.op) = r
    <3>1. f.id = id /\ f.payload = <<byte>>
      BY <2>2, <2>5, <2>7
    <3>2. ResponseFromPayload(f, r.op) = AddMessageResponseFrom(f)
      BY <2>2 DEF ResponseFromPayload
    <3>3. AddMessageResponseFrom(f) = [op |-> "ADD_MESSAGE", id |-> id, status |-> status]
      BY <2>4, <2>6, <3>1, Zenon DEF AddMessageResponseFrom
    <3> QED BY <2>1, <3>2, <3>3, Zenon
  <2> QED BY <2>2, <2>5, <2>6, <2>7
<1>2. ASSUME r \in [op : {"GET_MESSAGES"}, id : Words, messages : Chunks]
      PROVE  Goal
  <2>1. PICK id \in AllWords, messages \in Chunks :
            r = [op |-> "GET_MESSAGES", id |-> id, messages |-> messages]
    BY <1>2, CodecAssumption
  <2>2. r.op = "GET_MESSAGES" /\ r.id = id /\ r.messages = messages
    BY <2>1
  <2>3. ResponsePayload(r) = ChunkPayload(messages)
    BY <2>2 DEF ResponsePayload
  <2>4. /\ ChunkPayload(messages) \in Seq(Bytes)
        /\ ChunkFromPayload(ChunkPayload(messages)) = messages /\ messages # Bad
    BY ChunkRoundTrip
  <2>5. ASSUME NEW f, f = [id |-> r.id, payload |-> ResponsePayload(r)]
        PROVE  ResponseFromPayload(f, r.op) = r
    <3>1. f.id = id /\ f.payload = ChunkPayload(messages)
      BY <2>2, <2>3, <2>5
    <3>2. ResponseFromPayload(f, r.op) = GetMessagesResponseFrom(f)
      BY <2>2 DEF ResponseFromPayload
    <3>3. GetMessagesResponseFrom(f) = [op |-> "GET_MESSAGES", id |-> id, messages |-> messages]
      BY <2>4, <3>1, Zenon DEF GetMessagesResponseFrom
    <3> QED BY <2>1, <3>2, <3>3, Zenon
  <2> QED BY <2>2, <2>3, <2>4, <2>5
<1>3. ASSUME r \in [op : {"SECONDARY_NODE_READY"}, id : Words]
      PROVE  Goal
  <2>1. PICK id \in AllWords : r = [op |-> "SECONDARY_NODE_READY", id |-> id]
    BY <1>3, CodecAssumption
  <2>2. r.op = "SECONDARY_NODE_READY" /\ r.id = id
    BY <2>1
  <2>3. ResponsePayload(r) = << >>
    BY <2>2 DEF ResponsePayload
  <2>4. ASSUME NEW f, f = [id |-> r.id, payload |-> ResponsePayload(r)]
        PROVE  ResponseFromPayload(f, r.op) = r
    <3>1. f.id = id /\ f.payload = << >>
      BY <2>2, <2>3, <2>4
    <3>2. ResponseFromPayload(f, r.op) = SecondaryNodeReadyResponseFrom(f)
      BY <2>2 DEF ResponseFromPayload
    <3>3. SecondaryNodeReadyResponseFrom(f) = [op |-> "SECONDARY_NODE_READY", id |-> id]
      BY <3>1, Zenon DEF SecondaryNodeReadyResponseFrom
    <3> QED BY <2>1, <3>2, <3>3, Zenon
  <2>5. << >> \in Seq(Bytes)
    BY EmptySeq
  <2> QED BY <2>2, <2>3, <2>4, <2>5
<1>4. ASSUME r \in [op : {"PING_PONG"}, id : Words, timestamp : Words]
      PROVE  Goal
  <2>1. PICK id \in AllWords, n \in AllWords :
            r = [op |-> "PING_PONG", id |-> id, timestamp |-> n]
    BY <1>4, CodecAssumption
  <2>2. r.op = "PING_PONG" /\ r.id = id /\ r.timestamp = n
    BY <2>1
  <2>3. ResponsePayload(r) = Word(n)
    BY <2>2 DEF ResponsePayload, PongPayload
  <2>4. Word(n) \in Seq(Bytes) /\ OnlyWord(Word(n)) = n /\ n # Bad
    BY OnlyWordRoundTrip
  <2>5. ASSUME NEW f, f = [id |-> r.id, payload |-> ResponsePayload(r)]
        PROVE  ResponseFromPayload(f, r.op) = r
    <3>1. f.id = id /\ f.payload = Word(n)
      BY <2>2, <2>3, <2>5
    <3>2. ResponseFromPayload(f, r.op) = PongFrom(f)
      BY <2>2 DEF ResponseFromPayload
    <3>3. PongFrom(f) = [op |-> "PING_PONG", id |-> id, timestamp |-> n]
      BY <2>4, <3>1, Zenon DEF PongFrom
    <3> QED BY <2>1, <3>2, <3>3, Zenon
  <2> QED BY <2>2, <2>3, <2>4, <2>5
<1> HIDE DEF Goal
<1>5. Goal
  BY <1>1, <1>2, <1>3, <1>4, Zenon DEF Responses
<1> QED BY <1>5 DEF Goal

-----------------------------------------------------------------------------
(* One frame, from the sender's object to the receiver's.                  *)

\* The frame of a request is parsed as that request.
LEMMA RequestFrameParses ==
    ASSUME NEW r \in Requests
    PROVE  /\ ParseEventType(RequestFrame(r)) = "REQUEST"
           /\ ParseRequestFrame(RequestFrame(r)) # Bad
           /\ RequestFromPayload(ParseRequestFrame(RequestFrame(r))) = r
<1>1. PICK id \in AllWords, op \in DOMAIN OpCode, payload \in Seq(Bytes) :
          id = r.id /\ op = r.op /\ payload = RequestPayload(r)
  BY RequestRoundTrip
<1>2. PICK f : f = RequestFrame(r) /\ f = RequestHeader(id, op) \o payload
  BY <1>1 DEF RequestFrame
<1>3. /\ ParseEventType(f) = "REQUEST"
      /\ ParseRequestFrame(f) = [id |-> id, op |-> op, payload |-> payload]
      /\ ParseRequestFrame(f) # Bad
  BY <1>2, RequestHeaderRoundTrip, Zenon
<1>4. RequestFromPayload(ParseRequestFrame(f)) = r
  BY <1>1, <1>3, RequestRoundTrip, Zenon
<1> QED BY <1>2, <1>3, <1>4, Zenon

\* The frame of a response is parsed as that response by the caller who asked.
LEMMA ResponseFrameParses ==
    ASSUME NEW r \in Responses
    PROVE  /\ ParseEventType(ResponseFrame(r)) = "RESPONSE"
           /\ ParseResponseFrame(ResponseFrame(r)) # Bad
           /\ ResponseFromPayload(ParseResponseFrame(ResponseFrame(r)), r.op) = r
<1>1. PICK id \in AllWords, payload \in Seq(Bytes) :
          id = r.id /\ payload = ResponsePayload(r)
  BY ResponseRoundTrip
<1>2. PICK f : f = ResponseFrame(r) /\ f = ResponseHeader(id) \o payload
  BY <1>1 DEF ResponseFrame
<1>3. /\ ParseEventType(f) = "RESPONSE"
      /\ ParseResponseFrame(f) = [id |-> id, payload |-> payload]
      /\ ParseResponseFrame(f) # Bad
  BY <1>2, ResponseHeaderRoundTrip, Zenon
<1>4. ResponseFromPayload(ParseResponseFrame(f), r.op) = r
  BY <1>1, <1>3, ResponseRoundTrip, Zenon
<1> QED BY <1>2, <1>3, <1>4, Zenon

\* The bytes on the wire determine what was sent: no two requests, and no two
\* answers to calls of one kind, share a frame, and no request's frame is a
\* response's. This is what lets Endpoint carry requests and responses as
\* values.
THEOREM FramesDetermineContent ==
    /\ \A r, s \in Requests : RequestFrame(r) = RequestFrame(s) => r = s
    /\ \A r, s \in Responses : r.op = s.op /\ ResponseFrame(r) = ResponseFrame(s) => r = s
    /\ \A r \in Requests, s \in Responses : RequestFrame(r) # ResponseFrame(s)
<1>1. ASSUME NEW r \in Requests, NEW s \in Requests, RequestFrame(r) = RequestFrame(s)
      PROVE  r = s
  <2>1. /\ RequestFromPayload(ParseRequestFrame(RequestFrame(r))) = r
        /\ RequestFromPayload(ParseRequestFrame(RequestFrame(s))) = s
    BY RequestFrameParses
  <2> QED BY <1>1, <2>1, Zenon
<1>2. ASSUME NEW r \in Responses, NEW s \in Responses, r.op = s.op,
             ResponseFrame(r) = ResponseFrame(s)
      PROVE  r = s
  <2>1. /\ ResponseFromPayload(ParseResponseFrame(ResponseFrame(r)), r.op) = r
        /\ ResponseFromPayload(ParseResponseFrame(ResponseFrame(s)), s.op) = s
    BY ResponseFrameParses
  <2> QED BY <1>2, <2>1, Zenon
<1>3. ASSUME NEW r \in Requests, NEW s \in Responses
      PROVE  RequestFrame(r) # ResponseFrame(s)
  <2>1. /\ ParseEventType(RequestFrame(r)) = "REQUEST"
        /\ ParseEventType(ResponseFrame(s)) = "RESPONSE"
    BY RequestFrameParses, ResponseFrameParses
  <2>2. "REQUEST" # "RESPONSE"
    OBVIOUS
  <2> QED BY <2>1, <2>2, Zenon
<1> QED BY <1>1, <1>2, <1>3

\* The frame is the bytes of what was sent, and what arrived is what was sent.
CodecInv ==
    /\ \/ event = "REQUEST" /\ sent \in Requests /\ frame = RequestFrame(sent)
       \/ event = "RESPONSE" /\ sent \in Responses /\ frame = ResponseFrame(sent)
    /\ received \in {<< >>, sent}

\* What the peer would make of the frame under way.
LEMMA FrameParses ==
    ASSUME CodecInv
    PROVE  /\ ParseEventType(frame) = event
           /\ event = "REQUEST" =>
                /\ ParseRequestFrame(frame) # Bad
                /\ RequestFromPayload(ParseRequestFrame(frame)) = sent
           /\ event = "RESPONSE" =>
                /\ ParseResponseFrame(frame) # Bad
                /\ ResponseFromPayload(ParseResponseFrame(frame), sent.op) = sent
<1>1. CASE event = "REQUEST" /\ sent \in Requests /\ frame = RequestFrame(sent)
  <2>1. PICK r \in Requests : r = sent
    BY <1>1
  <2> QED BY <1>1, <2>1, RequestFrameParses
<1>2. CASE event = "RESPONSE" /\ sent \in Responses /\ frame = ResponseFrame(sent)
  <2>1. PICK r \in Responses : r = sent
    BY <1>2
  <2> QED BY <1>2, <2>1, ResponseFrameParses
<1> QED BY <1>1, <1>2 DEF CodecInv

\* Whatever request or response is sent, and however many messages a chunk
\* holds, the peer makes the same object of its bytes.
THEOREM RoundTripCorrect == Spec => []RoundTrip
<1>1. Init => CodecInv
  BY DEF Init, CodecInv
<1>2. CodecInv /\ [Next]_vars => CodecInv'
  <2> SUFFICES ASSUME CodecInv, [Next]_vars PROVE CodecInv'
    OBVIOUS
  <2>1. CASE ReceiveRequest
    <3>1. event = "REQUEST" /\ received' = sent
      BY <2>1, FrameParses DEF ReceiveRequest
    <3>2. UNCHANGED <<event, sent, frame>>
      BY <2>1 DEF ReceiveRequest
    <3> QED BY <3>1, <3>2 DEF CodecInv
  <2>2. CASE ReceiveResponse
    <3>1. event = "RESPONSE" \/ event = "REQUEST"
      BY DEF CodecInv
    <3>2. event = "RESPONSE" /\ received' = sent
      BY <2>2, <3>1, FrameParses DEF ReceiveResponse
    <3>3. UNCHANGED <<event, sent, frame>>
      BY <2>2 DEF ReceiveResponse
    <3> QED BY <3>2, <3>3 DEF CodecInv
  <2>3. CASE UNCHANGED vars
    BY <2>3 DEF CodecInv, vars
  <2> QED BY <2>1, <2>2, <2>3 DEF Next
<1>3. CodecInv => RoundTrip
  BY FrameParses DEF CodecInv, RoundTrip
<1> QED BY <1>1, <1>2, <1>3, PTL DEF Spec
=============================================================================
