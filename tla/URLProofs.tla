-------------------------------- MODULE URLProofs --------------------------------
(* Theorems about URL, for texts of any length.  What atoi() and snprintf()
   compute is recursive; it is found by looking at the least number or
   position for which it would be something else. *)
EXTENDS URL, WellFoundedInduction, TLAPS

Text == Seq(Char)

(******************************************************************************)
(* Least and greatest numbers                                                 *)
(******************************************************************************)
LEMMA LeastExists ==
    ASSUME NEW S, S \subseteq Nat, S # {}
    PROVE  \E x \in S : \A y \in S : x <= y
<1>. DEFINE R == {ss \in Nat \X Nat : ss[1] < ss[2]}
<1>1. R = OpToRel(<, Nat)
  BY Zenon DEF OpToRel
<1>. HIDE DEF R
<1>2. IsWellFoundedOn(R, Nat)
  BY Zenon, <1>1, NatLessThanWellFounded
<1>3. PICK x \in S : \A y \in S : <<y, x>> \notin R
  BY Zenon, <1>2, WFMin
<1>4. ASSUME NEW y \in S PROVE x <= y
  <2>1. x \in Nat /\ y \in Nat /\ <<y, x>> \notin R
    BY Zenon, <1>3
  <2>2. ~ (y < x)
    BY <2>1 DEF R
  <2>. QED  BY <2>1, <2>2
<1>. QED  BY Zenon, <1>4

LEMMA MinFacts ==
    ASSUME NEW S, S \subseteq Nat, S # {}
    PROVE  Min(S) \in S /\ \A y \in S : Min(S) <= y
  BY LeastExists DEF Min

LEMMA MaxFacts ==
    ASSUME NEW S, NEW n \in Nat, S \subseteq 0..n, S # {}
    PROVE  Max(S) \in S /\ \A y \in S : Max(S) >= y
<1>. DEFINE T == {n - x : x \in S}
<1>1. T \subseteq Nat
  OBVIOUS
<1>0. T # {}
  <2>1. PICK x : x \in S
    BY Zenon
  <2>2. n - x \in T
    BY Zenon, <2>1
  <2>. QED  BY Zenon, <2>2
<1>2. PICK t \in T : \A u \in T : t <= u
  <2>. HIDE DEF T
  <2>. QED  BY Zenon, <1>0, <1>1, LeastExists
<1>3. PICK x \in S : t = n - x
  OBVIOUS
<1>4. \A y \in S : x >= y
  BY <1>2, <1>3
<1>. QED  BY <1>4 DEF Max

(******************************************************************************)
(* atoi()                                                                     *)
(******************************************************************************)
LEMMA DigitFacts ==
    /\ \A c : IsDigit(c) => DigitValue(c) \in 0..9 /\ c = Digits[DigitValue(c) + 1]
    /\ \A d \in 0..9 : /\ IsDigit(Digits[d + 1]) /\ DigitValue(Digits[d + 1]) = d
                       /\ Digits[d + 1] \in Char \ {":", "/", "-"}
<1>1. ASSUME NEW c, IsDigit(c) PROVE DigitValue(c) \in 0..9 /\ c = Digits[DigitValue(c) + 1]
  <2>. DEFINE e == CHOOSE d \in 1..10 : Digits[d] = c
  <2>1. e \in 1..10 /\ Digits[e] = c
    BY Zenon, <1>1 DEF IsDigit
  <2>2. DigitValue(c) = e - 1
    BY Zenon DEF DigitValue
  <2>. HIDE DEF e
  <2>3. e - 1 \in 0..9 /\ (e - 1) + 1 = e
    BY <2>1
  <2>. QED  BY Zenon, <2>1, <2>2, <2>3
<1>2. ASSUME NEW d \in 0..9
      PROVE  /\ d + 1 \in 1..10
             /\ Digits[d + 1] \in Char \ {":", "/", "-"}
  <2>1. d + 1 \in 1..10
    OBVIOUS
  <2>2. \A e \in 1..10 : Digits[e] \in Char
    <3>1. \A e \in 1..10 : Digits[e] \in {"0", "1", "2", "3", "4", "5", "6", "7", "8", "9"}
      BY DEF Digits
    <3>2. {"0", "1", "2", "3", "4", "5", "6", "7", "8", "9"} \subseteq Char
      BY Zenon, URLAssumption
    <3>. QED  BY Zenon, <3>1, <3>2
  <2>3. \A e \in 1..10 : Digits[e] # ":" /\ Digits[e] # "/" /\ Digits[e] # "-"
    BY DEF Digits
  <2>. QED  BY Zenon, <2>1, <2>2, <2>3
<1>3. \A d, e \in 1..10 : Digits[d] = Digits[e] => d = e
  BY DEF Digits
<1>4. ASSUME NEW d \in 0..9
      PROVE  IsDigit(Digits[d + 1]) /\ DigitValue(Digits[d + 1]) = d
  <2>1. IsDigit(Digits[d + 1])
    BY Zenon, <1>2 DEF IsDigit
  <2>2. DigitValue(Digits[d + 1]) \in 0..9
    BY Zenon, <1>1, <2>1
  <2>3. Digits[d + 1] = Digits[DigitValue(Digits[d + 1]) + 1]
    BY Zenon, <1>1, <2>1
  <2>4. DigitValue(Digits[d + 1]) + 1 \in 1..10
    BY Zenon, <1>2, <2>2
  <2>5. d + 1 = DigitValue(Digits[d + 1]) + 1
    BY Zenon, <1>2, <1>3, <2>3, <2>4
  <2>. QED  BY <2>1, <2>2, <2>5
<1>. QED  BY Zenon, <1>1, <1>2, <1>4

\* g has the numbers that the first 0 to n digits spell.
Spelled(d, n, g) ==
    g[0] = 0 /\ \A i \in 1..n : g[i] = 10 * g[i - 1] + DigitValue(d[i])

AllDigits(d) == \A i \in 1..Len(d) : IsDigit(d[i])

LEMMA SpelledExists ==
    ASSUME NEW d \in Text, AllDigits(d)
    PROVE  \E g \in [0..Len(d) -> Nat] : Spelled(d, Len(d), g)
<1>. DEFINE Good(m) == \E g \in [0..m -> Nat] : Spelled(d, m, g)
            B == {m \in 0..Len(d) : ~Good(m)}
<1>. Len(d) \in Nat
  BY DEF Text
<1>. SUFFICES ASSUME B # {} PROVE FALSE
  <2>1. Len(d) \in 0..Len(d)
    OBVIOUS
  <2>. QED  BY Zenon, <2>1
<1>1. B \subseteq Nat
  OBVIOUS
<1>2. PICK m \in B : \A k \in B : m <= k
  <2>. HIDE DEF B
  <2>. QED  BY Zenon, <1>1, LeastExists
<1>3. m \in 0..Len(d) /\ ~Good(m)
  BY Zenon
<1>4. m # 0
  <2>. DEFINE z == [i \in 0..0 |-> 0]
  <2>1. z \in [0..0 -> Nat] /\ Spelled(d, 0, z)
    BY DEF Spelled
  <2>. QED  BY Zenon, <1>3, <2>1
<1>5. m - 1 \in 0..Len(d) /\ ~ (m <= m - 1) /\ m \in 1..Len(d) /\ m \in Nat /\ m - 1 \in Nat
  BY <1>3, <1>4
<1>6. Good(m - 1)
  BY Zenon, <1>2, <1>5
<1>7. PICK g \in [0..(m - 1) -> Nat] : Spelled(d, m - 1, g)
  BY Zenon, <1>6
<1>8. DigitValue(d[m]) \in Nat
  <2>1. DigitValue(d[m]) \in 0..9
    BY Zenon, <1>5, DigitFacts DEF AllDigits
  <2>. QED  BY <2>1
<1>. DEFINE h == [i \in 0..m |-> IF i = m THEN 10 * g[m - 1] + DigitValue(d[m]) ELSE g[i]]
<1>9. h \in [0..m -> Nat]
  BY <1>5, <1>7, <1>8
<1>10. Spelled(d, m, h)
  BY SMTT(60), <1>5, <1>7, <1>8 DEF Spelled
<1>. QED  BY Zenon, <1>3, <1>9, <1>10

SameFrom(a, n, s, t) == \A i \in a..n : s[i] = t[i]

LEMMA SpelledUnique ==
    ASSUME NEW d, NEW e, NEW n \in Nat, SameFrom(1, n, d, e),
           NEW g, NEW h, Spelled(d, n, g), Spelled(e, n, h)
    PROVE  SameFrom(0, n, g, h)
<1>. DEFINE B == {i \in 0..n : g[i] # h[i]}
<1>. SUFFICES ASSUME B # {} PROVE FALSE
  BY Zenon DEF SameFrom
<1>1. B \subseteq Nat
  OBVIOUS
<1>2. PICK m \in B : \A k \in B : m <= k
  <2>. HIDE DEF B
  <2>. QED  BY Zenon, <1>1, LeastExists
<1>3. m \in 0..n /\ g[m] # h[m]
  BY Zenon
<1>4. m # 0
  BY Zenon, <1>3 DEF Spelled
<1>5. m \in 1..n /\ m - 1 \in 0..n /\ ~ (m <= m - 1)
  BY <1>3, <1>4
<1>6. g[m - 1] = h[m - 1]
  BY Zenon, <1>2, <1>5
<1>. QED  BY Zenon, <1>3, <1>5, <1>6 DEF Spelled, SameFrom

LEMMA ValuesFacts ==
    ASSUME NEW d \in Text, AllDigits(d)
    PROVE  Values(d) \in [0..Len(d) -> Nat] /\ Spelled(d, Len(d), Values(d))
<1>. DEFINE n == Len(d)
            Step(v) == [i \in 0..n |-> IF i = 0 THEN 0 ELSE 10 * v[i - 1] + DigitValue(d[i])]
            V == CHOOSE v : v = Step(v)
<1>0. n \in Nat
  BY DEF Text
<1>1. Values(d) = V
  BY DEF Values
<1>2. PICK g \in [0..n -> Nat] : Spelled(d, n, g)
  BY Zenon, SpelledExists
<1>3. g = Step(g)
  <2>1. \A i \in 0..n : g[i] = Step(g)[i]
    BY <1>0, <1>2 DEF Spelled
  <2>. QED  BY <2>1
<1>4. V = Step(V)
  BY Zenon, <1>3
<1>. HIDE DEF V
<1>6. /\ V[0] = 0 /\ DOMAIN V = 0..n
      /\ \A i \in 1..n : V[i] = 10 * V[i - 1] + DigitValue(d[i])
  BY <1>0, <1>4
<1>7. \A i \in 0..n : V[i] = g[i]
  <2>1. Spelled(d, n, V)
    BY Zenon, <1>6 DEF Spelled
  <2>2. SameFrom(1, n, d, d)
    BY Zenon DEF SameFrom
  <2>. HIDE DEF n
  <2>3. SameFrom(0, n, V, g)
    BY Zenon, <1>0, <1>2, <2>1, <2>2, SpelledUnique
  <2>. QED  BY Zenon, <2>3 DEF SameFrom
<1>8. V = g
  BY <1>4, <1>7
<1>. QED  BY Zenon, <1>1, <1>2, <1>8

LEMMA NumberFacts ==
    /\ \A d \in Text : AllDigits(d) => Number(d) \in Nat
    /\ Number(<<>>) = 0
    /\ \A d \in Text, c \in Char : AllDigits(d) /\ IsDigit(c) =>
          /\ AllDigits(Append(d, c))
          /\ Number(Append(d, c)) = 10 * Number(d) + DigitValue(c)
<1>1. ASSUME NEW d \in Text, AllDigits(d) PROVE Number(d) \in Nat
  <2>1. Len(d) \in 0..Len(d)
    BY DEF Text
  <2>. QED  BY Zenon, <1>1, <2>1, ValuesFacts DEF Number
<1>2. Number(<<>>) = 0
  <2>1. <<>> \in Text /\ Len(<<>>) = 0 /\ AllDigits(<<>>)
    BY DEF Text, AllDigits
  <2>. QED  BY Zenon, <2>1, ValuesFacts DEF Number, Spelled
<1>3. ASSUME NEW d \in Text, AllDigits(d), NEW c \in Char, IsDigit(c)
      PROVE  /\ AllDigits(Append(d, c))
             /\ Number(Append(d, c)) = 10 * Number(d) + DigitValue(c)
  <2>. DEFINE e == Append(d, c)
              n == Len(d)
  <2>1. /\ n \in Nat /\ e \in Text /\ Len(e) = n + 1 /\ e[n + 1] = c
        /\ \A i \in 1..n : e[i] = d[i]
    BY DEF Text
  <2>2. AllDigits(e)
    <3>1. ASSUME NEW i \in 1..(n + 1) PROVE i \in 1..n \/ i = n + 1
      BY <2>1
    <3>. QED  BY Zenon, <1>3, <2>1, <3>1 DEF AllDigits
  <2>. HIDE DEF e, n
  <2>3. Spelled(d, n, Values(d)) /\ Spelled(e, n + 1, Values(e))
    BY Zenon, <1>3, <2>1, <2>2, ValuesFacts DEF n
  <2>4. n \in 0..n /\ n + 1 \in 1..(n + 1) /\ (n + 1) - 1 = n
    BY <2>1
  <2>5. Spelled(e, n, Values(e))
    <3>1. 1..n \subseteq 1..(n + 1)
      BY <2>1
    <3>. QED  BY Zenon, <2>3, <3>1 DEF Spelled
  <2>6. Values(e)[n] = Values(d)[n]
    <3>1. SameFrom(1, n, e, d)
      BY Zenon, <2>1 DEF SameFrom
    <3>2. SameFrom(0, n, Values(e), Values(d))
      BY Zenon, <2>1, <2>3, <2>5, <3>1, SpelledUnique
    <3>. QED  BY Zenon, <2>4, <3>2 DEF SameFrom
  <2>7. Values(e)[n + 1] = 10 * Values(e)[n] + DigitValue(c)
    BY Zenon, <2>1, <2>3, <2>4 DEF Spelled
  <2>. QED  BY Zenon, <2>1, <2>2, <2>6, <2>7 DEF Number, e, n
<1>. QED  BY Zenon, <1>1, <1>2, <1>3

LEMMA PrefixFacts ==
    ASSUME NEW s \in Text
    PROVE  /\ DigitPrefix(s) \in Text /\ AllDigits(DigitPrefix(s))
           /\ AllDigits(s) => DigitPrefix(s) = s
<1>. DEFINE E == {i \in 1..Len(s) : ~IsDigit(s[i])} \union {Len(s) + 1}
            m == Min(E)
<1>0. Len(s) \in Nat
  BY DEF Text
<1>1. E \subseteq Nat /\ E # {}
  BY <1>0
<1>2. m \in E /\ \A i \in E : m <= i
  <2>. HIDE DEF E
  <2>. QED  BY Zenon, <1>1, MinFacts
<1>3. DigitPrefix(s) = SubSeq(s, 1, m - 1)
  BY Zenon DEF DigitPrefix, Before
<1>. HIDE DEF m
<1>4. m \in 1..(Len(s) + 1)
  BY <1>0, <1>2
<1>5. \A i \in 1..(m - 1) : i \in 1..Len(s) /\ IsDigit(s[i])
  <2>. SUFFICES ASSUME NEW i \in 1..(m - 1) PROVE i \in 1..Len(s) /\ IsDigit(s[i])
    BY Zenon
  <2>1. i \in 1..Len(s) /\ ~ (m <= i)
    BY <1>0, <1>4
  <2>. QED  BY Zenon, <1>2, <2>1
<1>6. /\ SubSeq(s, 1, m - 1) \in Text /\ Len(SubSeq(s, 1, m - 1)) = m - 1
      /\ \A i \in 1..(m - 1) : SubSeq(s, 1, m - 1)[i] = s[i]
  BY <1>0, <1>4 DEF Text
<1>7. ASSUME AllDigits(s) PROVE SubSeq(s, 1, m - 1) = s
  <2>1. m = Len(s) + 1
    BY Zenon, <1>2, <1>7 DEF AllDigits
  <2>2. (Len(s) + 1) - 1 = Len(s)
    BY <1>0
  <2>3. SubSeq(s, 1, Len(s)) = s
    BY DEF Text
  <2>. QED  BY Zenon, <2>1, <2>2, <2>3
<1>. QED  BY Zenon, <1>3, <1>5, <1>6, <1>7 DEF AllDigits

LEMMA SkipFacts ==
    ASSUME NEW s \in Text
    PROVE  SkipSpace(s) \in Text /\ (AllDigits(s) => SkipSpace(s) = s)
<1>. DEFINE E == {i \in 1..Len(s) : ~IsSpace(s[i])} \union {Len(s) + 1}
            m == Min(E)
<1>0. Len(s) \in Nat
  BY DEF Text
<1>1. E \subseteq Nat /\ E # {}
  BY <1>0
<1>2. m \in E /\ \A i \in E : m <= i
  <2>. HIDE DEF E
  <2>. QED  BY Zenon, <1>1, MinFacts
<1>3. SkipSpace(s) = SubSeq(s, m, Len(s))
  BY Zenon DEF SkipSpace, From
<1>. HIDE DEF m
<1>4. m \in 1..(Len(s) + 1)
  BY <1>0, <1>2
<1>5. SubSeq(s, m, Len(s)) \in Text
  BY <1>0, <1>4 DEF Text
<1>6. ASSUME AllDigits(s) PROVE SubSeq(s, m, Len(s)) = s
  <2>1. \A c : IsDigit(c) => ~IsSpace(c)
    <3>1. ~IsDigit(" ")
      BY DEF IsDigit, Digits
    <3>. QED  BY Zenon, <3>1 DEF IsSpace
  <2>2. CASE Len(s) = 0
    BY <1>0, <1>4, <2>2 DEF Text
  <2>3. CASE Len(s) # 0
    <3>1. 1 \in 1..Len(s)
      BY <1>0, <2>3
    <3>2. 1 \in E
      BY Zenon, <1>6, <2>1, <3>1 DEF AllDigits
    <3>3. m = 1
      BY <1>2, <1>4, <3>2
    <3>. QED  BY <3>3 DEF Text
  <2>. QED  BY Zenon, <2>2, <2>3
<1>. QED  BY Zenon, <1>3, <1>5, <1>6

LEMMA ToIntFacts ==
    ASSUME NEW n \in Int
    PROVE  ToInt(n) \in Int /\ (n \in 0..MaxInt => ToInt(n) = n)
<1>1. MaxInt \in Nat /\ MaxLong \in Nat
  BY Zenon, URLAssumption
<1>2. Clipped(n) \in Int
  BY <1>1 DEF Clipped
<1>. DEFINE M == 2 * (MaxInt + 1)
            c == Clipped(n) + MaxInt + 1
<1>3. M \in Nat /\ M > 0 /\ c \in Int
  BY <1>1, <1>2
<1>4. c % M \in Int
  <2>. HIDE DEF c, M
  <2>. QED  BY <1>3
<1>5. ToInt(n) = IF -MaxInt - 1 <= n /\ n <= MaxInt THEN n ELSE (c % M) - (MaxInt + 1)
  BY Zenon DEF ToInt
<1>. HIDE DEF c, M
<1>. QED  BY <1>1, <1>4, <1>5

\* atoi() returns an integer, and for some digits the number that they spell, if
\* that is an int.
LEMMA AtoiFacts ==
    ASSUME NEW s \in Text
    PROVE  /\ Atoi(s) \in Int
           /\ AllDigits(s) /\ Number(s) \in 0..MaxInt => Atoi(s) = Number(s)
<1>. DEFINE t == SkipSpace(s)
            signed == t # <<>> /\ t[1] \in {"-", "+"}
            n == Number(DigitPrefix(IF signed THEN Tail(t) ELSE t))
<1>0. Atoi(s) = ToInt(IF signed /\ t[1] = "-" THEN -n ELSE n)
  BY Zenon DEF Atoi
<1>1. t \in Text /\ (AllDigits(s) => t = s)
  BY Zenon, SkipFacts
<1>. HIDE DEF t
<1>2. ASSUME t # <<>> PROVE Tail(t) \in Text /\ 1 \in 1..Len(t)
  BY <1>1, <1>2 DEF Text
<1>3. n \in Nat
  BY Zenon, <1>1, <1>2, PrefixFacts, NumberFacts
<1>4. ASSUME AllDigits(s) PROVE ~signed /\ n = Number(s)
  <2>1. ~IsDigit("-") /\ ~IsDigit("+")
    BY DEF IsDigit, Digits
  <2>2. ~signed
    BY Zenon, <1>1, <1>2, <1>4, <2>1 DEF AllDigits
  <2>. QED  BY Zenon, <1>1, <1>4, <2>2, PrefixFacts
<1>. HIDE DEF n, signed
<1>5. n \in Int /\ -n \in Int
  BY <1>3
<1>. QED  BY Zenon, <1>0, <1>4, <1>5, ToIntFacts

(******************************************************************************)
(* snprintf("%d")                                                             *)
(******************************************************************************)
\* The last digit of k, and the others.
LastDigit(k) == Digits[(k % 10) + 1]

LEMMA DivisionFacts ==
    ASSUME NEW k \in Nat
    PROVE  /\ k % 10 \in 0..9 /\ k \div 10 \in Nat
           /\ k = 10 * (k \div 10) + (k % 10)
           /\ k >= 10 => k \div 10 < k
           /\ k < 10 => k \in 0..9
  OBVIOUS

LEMMA LastDigitFacts ==
    ASSUME NEW k \in Nat
    PROVE  /\ LastDigit(k) \in Char /\ IsDigit(LastDigit(k))
           /\ DigitValue(LastDigit(k)) = k % 10
  BY Zenon, DivisionFacts, DigitFacts DEF LastDigit

\* What one step of the recursion makes of g.
Written(k, g) == IF k < 10 THEN <<Digits[k + 1]>> ELSE Append(g[k \div 10], LastDigit(k))

WrittenTo(n, g) == \A k \in 0..n : g[k] = Written(k, g)

LEMMA WrittenFacts ==
    ASSUME NEW n \in Nat, NEW g, \A k \in Nat : k < n => g[k] \in Text
    PROVE  Written(n, g) \in Text
<1>1. CASE n < 10
  <2>1. Digits[n + 1] \in Char
    BY Zenon, <1>1, DivisionFacts, DigitFacts
  <2>2. <<Digits[n + 1]>> \in Text
    BY <2>1 DEF Text
  <2>. QED  BY Zenon, <1>1, <2>2 DEF Written
<1>2. CASE ~ (n < 10)
  <2>1. g[n \div 10] \in Text
    <3>1. n >= 10
      BY <1>2
    <3>. QED  BY Zenon, <3>1, DivisionFacts
  <2>2. Append(g[n \div 10], LastDigit(n)) \in Text
    BY <2>1, LastDigitFacts DEF Text
  <2>. QED  BY Zenon, <1>2, <2>2 DEF Written
<1>. QED  BY Zenon, <1>1, <1>2

LEMMA WrittenUnique ==
    ASSUME NEW n \in Nat, NEW g, NEW h, WrittenTo(n, g), WrittenTo(n, h)
    PROVE  SameFrom(0, n, g, h)
<1>. DEFINE B == {i \in 0..n : g[i] # h[i]}
<1>. SUFFICES ASSUME B # {} PROVE FALSE
  BY Zenon DEF SameFrom
<1>1. B \subseteq Nat
  OBVIOUS
<1>2. PICK m \in B : \A k \in B : m <= k
  <2>. HIDE DEF B
  <2>. QED  BY Zenon, <1>1, LeastExists
<1>3. m \in 0..n /\ m \in Nat /\ g[m] # h[m]
  BY Zenon, <1>1
<1>4. ASSUME ~ (m < 10) PROVE g[m \div 10] = h[m \div 10]
  <2>1. m >= 10
    BY <1>3, <1>4
  <2>2. m \div 10 \in Nat /\ m \div 10 < m
    BY Zenon, <1>3, <2>1, DivisionFacts
  <2>3. m \div 10 \in 0..n /\ ~ (m <= m \div 10)
    BY <1>3, <2>2
  <2>. QED  BY Zenon, <1>2, <2>3
<1>5. Written(m, g) = Written(m, h)
  BY Zenon, <1>4 DEF Written
<1>. QED  BY Zenon, <1>3, <1>5 DEF WrittenTo

LEMMA WrittenExists ==
    ASSUME NEW n \in Nat
    PROVE  \E g \in [0..n -> Text] : WrittenTo(n, g)
<1>. DEFINE Good(m) == \E g \in [0..m -> Text] : WrittenTo(m, g)
            B == {m \in Nat : ~Good(m)}
<1>. SUFFICES ASSUME B # {} PROVE FALSE
  BY Zenon
<1>1. B \subseteq Nat
  BY Zenon
<1>2. PICK m \in B : \A k \in B : m <= k
  <2>. HIDE DEF B
  <2>. QED  BY Zenon, <1>1, LeastExists
<1>3. m \in Nat /\ ~Good(m)
  BY Zenon
<1>4. PICK g : /\ \A k \in Nat : k < m => g[k] \in Text
               /\ \A k \in Nat : k < m => g[k] = Written(k, g)
  <2>1. CASE m = 0
    <3>1. \A k \in Nat : ~ (k < m)
      BY <2>1
    <3>. QED  BY Zenon, <3>1
  <2>2. CASE m # 0
    <3>1. m - 1 \in Nat /\ ~ (m <= m - 1) /\ \A k \in Nat : k < m => k \in 0..(m - 1)
      BY <1>3, <2>2
    <3>2. Good(m - 1)
      BY Zenon, <1>2, <3>1
    <3>3. PICK f \in [0..(m - 1) -> Text] : WrittenTo(m - 1, f)
      BY Zenon, <3>2
    <3>. QED  BY Zenon, <3>1, <3>3 DEF WrittenTo
  <2>. QED  BY Zenon, <2>1, <2>2
<1>. DEFINE h == [k \in 0..m |-> IF k = m THEN Written(m, g) ELSE g[k]]
<1>5. \A k \in 0..m : k \in Nat /\ (k = m \/ k < m)
  BY <1>3
<1>6. h \in [0..m -> Text]
  <2>1. Written(m, g) \in Text
    BY Zenon, <1>3, <1>4, WrittenFacts
  <2>. QED  BY Zenon, <1>4, <1>5, <2>1
<1>7. \A k \in 0..m : Written(k, h) = Written(k, g)
  <2>. SUFFICES ASSUME NEW k \in 0..m PROVE Written(k, h) = Written(k, g)
    BY Zenon
  <2>1. ASSUME ~ (k < 10) PROVE h[k \div 10] = g[k \div 10]
    <3>1. k >= 10 /\ k \in Nat
      BY <1>5, <2>1
    <3>2. k \div 10 \in Nat /\ k \div 10 < k
      BY Zenon, <3>1, DivisionFacts
    <3>3. k \div 10 \in 0..m /\ k \div 10 # m
      BY <1>3, <3>2
    <3>. QED  BY Zenon, <3>3
  <2>. HIDE DEF h
  <2>. QED  BY Zenon, <2>1 DEF Written
<1>8. \A k \in 0..m : h[k] = Written(k, g)
  BY Zenon, <1>4, <1>5
<1>9. WrittenTo(m, h)
  BY Zenon, <1>7, <1>8 DEF WrittenTo
<1>. QED  BY Zenon, <1>3, <1>6, <1>9

LEMMA DecimalFacts ==
    \A n \in Nat : Decimal[n] \in Text /\ Decimal[n] = Written(n, Decimal)
<1>. DEFINE G(n) == CHOOSE g \in [0..n -> Text] : WrittenTo(n, g)
            f == [n \in Nat |-> G(n)[n]]
            Step(v) == [n \in Nat |-> IF n < 10 THEN <<Digits[n + 1]>>
                                      ELSE Append(v[n \div 10], Digits[(n % 10) + 1])]
<1>1. \A n \in Nat : G(n) \in [0..n -> Text] /\ WrittenTo(n, G(n))
  BY Zenon, WrittenExists
<1>. HIDE DEF G
<1>2. ASSUME NEW n \in Nat, NEW k \in 0..n PROVE k \in Nat /\ G(n)[k] = f[k]
  <2>1. k \in Nat /\ k \in 0..k /\ 0..k \subseteq 0..n
    OBVIOUS
  <2>2. WrittenTo(k, G(n)) /\ WrittenTo(k, G(k))
    BY Zenon, <1>1, <2>1 DEF WrittenTo
  <2>3. SameFrom(0, k, G(n), G(k))
    BY Zenon, <2>1, <2>2, WrittenUnique
  <2>. QED  BY Zenon, <2>1, <2>3 DEF SameFrom
<1>3. \A n \in Nat : f[n] \in Text /\ f[n] = Written(n, f)
  <2>. SUFFICES ASSUME NEW n \in Nat PROVE f[n] \in Text /\ f[n] = Written(n, f)
    BY Zenon
  <2>1. n \in 0..n
    OBVIOUS
  <2>2. f[n] = G(n)[n] /\ f[n] \in Text /\ G(n)[n] = Written(n, G(n))
    BY Zenon, <1>1, <2>1 DEF WrittenTo
  <2>3. ASSUME ~ (n < 10) PROVE G(n)[n \div 10] = f[n \div 10]
    <3>1. n >= 10
      BY <2>3
    <3>2. n \div 10 \in Nat /\ n \div 10 < n
      BY Zenon, <3>1, DivisionFacts
    <3>3. n \div 10 \in 0..n
      BY <3>2
    <3>. QED  BY Zenon, <1>2, <3>3
  <2>. HIDE DEF f
  <2>4. Written(n, G(n)) = Written(n, f)
    BY Zenon, <2>3 DEF Written
  <2>. QED  BY Zenon, <2>2, <2>4
<1>4. f = Step(f)
  <2>. DEFINE g == Step(f)
  <2>1. \A n \in Nat : g[n] = Written(n, f)
    <3>. HIDE DEF f
    <3>. QED  BY Zenon DEF Written, LastDigit
  <2>2. \A n \in Nat : f[n] = g[n]
    <3>. HIDE DEF f, g
    <3>. QED  BY Zenon, <1>3, <2>1
  <2>3. DOMAIN f = Nat /\ DOMAIN g = Nat
    BY Zenon
  <2>. QED  BY <2>2
<1>5. Decimal = CHOOSE v : v = Step(v)
  BY DEF Decimal
<1>6. Decimal = Step(Decimal)
  <2>. HIDE DEF f
  <2>. QED  BY Zenon, <1>4, <1>5
<1>7. \A n \in Nat : Decimal[n] = Written(n, Decimal)
  <2>. SUFFICES ASSUME NEW n \in Nat PROVE Decimal[n] = Written(n, Decimal)
    BY Zenon
  <2>1. Decimal[n] = Step(Decimal)[n]
    BY Zenon, <1>6
  <2>. QED  BY Zenon, <2>1 DEF Written, LastDigit
<1>. HIDE DEF f
<1>8. ASSUME NEW n \in Nat PROVE Decimal[n] = f[n]
  <2>1. \A k \in 0..n : k \in Nat
    OBVIOUS
  <2>2. WrittenTo(n, Decimal) /\ WrittenTo(n, f)
    BY Zenon, <1>3, <1>7, <2>1 DEF WrittenTo
  <2>3. SameFrom(0, n, Decimal, f) /\ n \in 0..n
    BY <2>2, WrittenUnique
  <2>. QED  BY Zenon, <2>3 DEF SameFrom
<1>. QED  BY Zenon, <1>3, <1>7, <1>8

\* snprintf() writes digits, which spell the number.
LEMMA DecimalSpells ==
    \A n \in Nat : AllDigits(Decimal[n]) /\ Number(Decimal[n]) = n
<1>. DEFINE B == {n \in Nat : ~ (AllDigits(Decimal[n]) /\ Number(Decimal[n]) = n)}
<1>. SUFFICES ASSUME B # {} PROVE FALSE
  BY Zenon
<1>1. B \subseteq Nat
  BY Zenon
<1>2. PICK m \in B : \A k \in B : m <= k
  <2>. HIDE DEF B
  <2>. QED  BY Zenon, <1>1, LeastExists
<1>3. m \in Nat /\ ~ (AllDigits(Decimal[m]) /\ Number(Decimal[m]) = m)
  BY Zenon
<1>4. CASE m < 10
  <2>. DEFINE c == Digits[m + 1]
  <2>1. c \in Char /\ IsDigit(c) /\ DigitValue(c) = m
    BY Zenon, <1>3, <1>4, DivisionFacts, DigitFacts
  <2>2. Decimal[m] = <<c>>
    BY Zenon, <1>3, <1>4, DecimalFacts DEF Written
  <2>. HIDE DEF c
  <2>3. <<c>> = Append(<<>>, c) /\ <<>> \in Text /\ AllDigits(<<>>)
    BY DEF Text, AllDigits
  <2>4. AllDigits(<<c>>) /\ Number(<<c>>) = 10 * Number(<<>>) + DigitValue(c)
    BY Zenon, <2>1, <2>3, NumberFacts
  <2>5. Number(<<c>>) = m
    BY <1>3, <2>1, <2>4, NumberFacts
  <2>. QED  BY Zenon, <1>3, <2>2, <2>4, <2>5
<1>5. CASE ~ (m < 10)
  <2>. DEFINE k == m \div 10
  <2>1. m >= 10
    BY <1>3, <1>5
  <2>2. k \in Nat /\ k < m /\ m = 10 * k + (m % 10)
    BY Zenon, <1>3, <2>1, DivisionFacts
  <2>3. ~ (m <= k)
    BY <1>3, <2>2
  <2>4. AllDigits(Decimal[k]) /\ Number(Decimal[k]) = k
    <3>. HIDE DEF k
    <3>. QED  BY Zenon, <1>2, <2>2, <2>3
  <2>5. Decimal[m] = Append(Decimal[k], LastDigit(m)) /\ Decimal[k] \in Text
    BY Zenon, <1>3, <1>5, <2>2, DecimalFacts DEF Written
  <2>6. /\ AllDigits(Decimal[m])
        /\ Number(Decimal[m]) = 10 * Number(Decimal[k]) + DigitValue(LastDigit(m))
    <3>. HIDE DEF k
    <3>. QED  BY Zenon, <1>3, <2>4, <2>5, LastDigitFacts, NumberFacts
  <2>7. Number(Decimal[m]) = m
    BY Zenon, <1>3, <2>2, <2>4, <2>6, LastDigitFacts
  <2>. QED  BY Zenon, <1>3, <2>6, <2>7
<1>. QED  BY Zenon, <1>4, <1>5

\* atoi() reads what snprintf() has written.
LEMMA AtoiItoa ==
    ASSUME NEW n \in Nat, n <= MaxInt
    PROVE  /\ Itoa(n) \in Text /\ AllDigits(Itoa(n))
           /\ Atoi(Itoa(n)) = n
<1>1. Itoa(n) = Decimal[n]
  BY DEF Itoa
<1>2. n \in 0..MaxInt
  BY URLAssumption
<1>. QED  BY Zenon, <1>1, <1>2, DecimalFacts, DecimalSpells, AtoiFacts

(******************************************************************************)
(* find(), rfind() and substr()                                               *)
(******************************************************************************)
CharAt(s, c) == {i \in 1..Len(s) : s[i] = c}
SeparatorAt(s) == {i \in 1..(Len(s) - 2) : s[i] = ":" /\ s[i + 1] = "/" /\ s[i + 2] = "/"}

LEMMA SubSeqFacts ==
    ASSUME NEW s \in Text, NEW i \in 1..(Len(s) + 1), NEW j \in 0..Len(s), i <= j + 1
    PROVE  /\ SubSeq(s, i, j) \in Text /\ Len(SubSeq(s, i, j)) = j - i + 1
           /\ \A k \in 1..(j - i + 1) : SubSeq(s, i, j)[k] = s[i + k - 1]
  BY DEF Text

LEMMA SameText ==
    ASSUME NEW s \in Text, NEW t \in Text, Len(s) = Len(t), \A i \in 1..Len(s) : s[i] = t[i]
    PROVE  s = t
  BY DEF Text

LEMMA Letters == {"http", ":", "/", "-"} \subseteq Char
  BY Zenon, URLAssumption

LEMMA Joined ==
    ASSUME NEW s \in Text, NEW t \in Text
    PROVE  /\ s \o t \in Text /\ Len(s \o t) = Len(s) + Len(t)
           /\ \A i \in 1..Len(s) : (s \o t)[i] = s[i]
           /\ \A i \in 1..Len(t) : (s \o t)[Len(s) + i] = t[i]
  BY DEF Text

LEMMA SeparatorFacts ==
    /\ Separator \in Text /\ Len(Separator) = 3
    /\ Separator[1] = ":" /\ Separator[2] = "/" /\ Separator[3] = "/"
  BY Letters DEF Text, Separator

LEMMA CharOccurs ==
    ASSUME NEW s \in Text, NEW c \in Char
    PROVE  Occurrences(s, <<c>>) = CharAt(s, c)
<1>0. Len(s) \in Nat /\ <<c>> \in Text /\ Len(<<c>>) = 1 /\ <<c>>[1] = c
  BY DEF Text
<1>1. ASSUME NEW i \in 1..Len(s) PROVE SubSeq(s, i, i + 1 - 1) = <<c>> <=> s[i] = c
  <2>1. i + 1 - 1 = i /\ i \in 1..(Len(s) + 1) /\ i \in 0..Len(s) /\ i <= i + 1 /\ i - i + 1 = 1
        /\ i + 1 - 1 = i
    BY <1>0
  <2>2. /\ SubSeq(s, i, i) \in Text /\ Len(SubSeq(s, i, i)) = 1
        /\ SubSeq(s, i, i)[1] = s[i]
    BY <2>1, SubSeqFacts
  <2>3. ASSUME s[i] = c PROVE SubSeq(s, i, i) = <<c>>
    <3>1. \A k \in 1..1 : SubSeq(s, i, i)[k] = <<c>>[k]
      BY <1>0, <2>2, <2>3
    <3>. QED  BY Zenon, <1>0, <2>2, <3>1, SameText
  <2>. QED  BY Zenon, <1>0, <2>1, <2>2, <2>3
<1>2. Len(s) - 1 + 1 = Len(s)
  BY <1>0
<1>. QED  BY Zenon, <1>0, <1>1, <1>2 DEF Occurrences, CharAt

LEMMA SeparatorOccurs ==
    ASSUME NEW s \in Text
    PROVE  Occurrences(s, Separator) = SeparatorAt(s)
<1>0. /\ Len(s) \in Nat /\ Separator \in Text /\ Len(Separator) = 3
      /\ Separator[1] = ":" /\ Separator[2] = "/" /\ Separator[3] = "/"
  BY SeparatorFacts DEF Text
<1>1. ASSUME NEW i \in 1..(Len(s) - 2)
      PROVE  SubSeq(s, i, i + 3 - 1) = Separator
             <=> s[i] = ":" /\ s[i + 1] = "/" /\ s[i + 2] = "/"
  <2>1. /\ i + 3 - 1 = i + 2 /\ i \in 1..(Len(s) + 1) /\ i + 2 \in 0..Len(s)
        /\ i <= (i + 2) + 1 /\ (i + 2) - i + 1 = 3
        /\ i + 1 - 1 = i /\ i + 2 - 1 = i + 1
    BY <1>0
  <2>. DEFINE t == SubSeq(s, i, i + 2)
  <2>2. t \in Text /\ Len(t) = 3 /\ t[1] = s[i] /\ t[2] = s[i + 1] /\ t[3] = s[i + 2]
    BY <2>1, SubSeqFacts
  <2>3. ASSUME s[i] = ":", s[i + 1] = "/", s[i + 2] = "/" PROVE t = Separator
    <3>. HIDE DEF t
    <3>1. \A k \in 1..3 : t[k] = Separator[k]
      BY <1>0, <2>2, <2>3
    <3>. QED  BY Zenon, <1>0, <2>2, <3>1, SameText
  <2>. QED  BY Zenon, <1>0, <2>1, <2>2, <2>3
<1>2. Len(s) - 3 + 1 = Len(s) - 2
  BY <1>0
<1>3. Occurrences(s, Separator) = {i \in 1..(Len(s) - 2) : SubSeq(s, i, i + 3 - 1) = Separator}
  BY Zenon, <1>0, <1>2 DEF Occurrences
<1>4. ASSUME NEW i PROVE i \in Occurrences(s, Separator) <=> i \in SeparatorAt(s)
  BY Zenon, <1>1, <1>3 DEF SeparatorAt
<1>. QED  BY <1>4

\* The parts of a text around i, with the k characters from i on left out.
LEMMA Around ==
    ASSUME NEW s \in Text, NEW k \in Nat, NEW i \in 1..(Len(s) + 1 - k)
    PROVE  /\ Before(s, i) \in Text /\ Len(Before(s, i)) = i - 1
           /\ \A j \in 1..(i - 1) : Before(s, i)[j] = s[j]
           /\ From(s, i + k) \in Text /\ Len(From(s, i + k)) = Len(s) - (i + k) + 1
           /\ \A j \in 1..(Len(s) - (i + k) + 1) : From(s, i + k)[j] = s[i + k + j - 1]
<1>0. Len(s) \in Nat
  BY DEF Text
<1>1. 1 \in 1..(Len(s) + 1) /\ i - 1 \in 0..Len(s) /\ 1 <= (i - 1) + 1 /\ (i - 1) - 1 + 1 = i - 1
  BY <1>0
<1>2. i + k \in 1..(Len(s) + 1) /\ Len(s) \in 0..Len(s) /\ i + k <= Len(s) + 1
  BY <1>0
<1>3. \A j \in 1..(i - 1) : 1 + j - 1 = j
  BY <1>0
<1>4. /\ Before(s, i) \in Text /\ Len(Before(s, i)) = i - 1
      /\ \A j \in 1..(i - 1) : Before(s, i)[j] = s[1 + j - 1]
  BY <1>1, SubSeqFacts DEF Before
<1>5. /\ From(s, i + k) \in Text /\ Len(From(s, i + k)) = Len(s) - (i + k) + 1
      /\ \A j \in 1..(Len(s) - (i + k) + 1) : From(s, i + k)[j] = s[i + k + j - 1]
  BY Zenon, <1>2, SubSeqFacts DEF From
<1>. QED  BY Zenon, <1>3, <1>4, <1>5

LEMMA HasFacts ==
    ASSUME NEW s \in Text
    PROVE  /\ Has(s, Separator) <=> SeparatorAt(s) # {}
           /\ \A c \in Char : Has(s, <<c>>) <=> \E i \in 1..Len(s) : s[i] = c
<1>1. Has(s, Separator) <=> SeparatorAt(s) # {}
  BY Zenon, SeparatorOccurs DEF Has
<1>2. ASSUME NEW c \in Char PROVE Has(s, <<c>>) <=> CharAt(s, c) # {}
  BY Zenon, CharOccurs DEF Has
<1>3. ASSUME NEW c \in Char PROVE CharAt(s, c) # {} <=> \E i \in 1..Len(s) : s[i] = c
  BY Zenon DEF CharAt
<1>. QED  BY Zenon, <1>1, <1>2, <1>3

(******************************************************************************)
(* What each step of parse() finds                                            *)
(******************************************************************************)
LEMMA SchemeFacts ==
    ASSUME NEW s \in Text
    PROVE  /\ SplitScheme(s).scheme \in Text /\ SplitScheme(s).rest \in Text
           /\ ~Has(SplitScheme(s).scheme, Separator)
           /\ \/ /\ ~Has(s, Separator)
                 /\ SplitScheme(s).scheme = Http /\ SplitScheme(s).rest = s
              \/ \E i \in SeparatorAt(s) : /\ SplitScheme(s).scheme = Before(s, i)
                                           /\ SplitScheme(s).rest = From(s, i + 3)
<1>0. Len(s) \in Nat
  BY DEF Text
<1>1. CASE ~Has(s, Separator)
  <2>1. SplitScheme(s).scheme = Http /\ SplitScheme(s).rest = s
    BY Zenon, <1>1 DEF SplitScheme
  <2>2. Http \in Text /\ Len(Http) = 1
    BY Letters DEF Text, Http
  <2>3. SeparatorAt(Http) = {}
    BY <2>2 DEF SeparatorAt
  <2>. QED  BY Zenon, <1>1, <2>1, <2>2, <2>3, HasFacts
<1>2. CASE Has(s, Separator)
  <2>. DEFINE i == Min(SeparatorAt(s))
  <2>1. SeparatorAt(s) \subseteq Nat
    BY <1>0 DEF SeparatorAt
  <2>2. i \in SeparatorAt(s) /\ \A j \in SeparatorAt(s) : i <= j
    BY Zenon, <1>2, <2>1, HasFacts, MinFacts
  <2>3. SplitScheme(s).scheme = Before(s, i) /\ SplitScheme(s).rest = From(s, i + 3)
    BY Zenon, <1>2, SeparatorOccurs DEF SplitScheme
  <2>. HIDE DEF i
  <2>4. i \in 1..(Len(s) + 1 - 3) /\ 3 \in Nat
    BY <1>0, <2>2 DEF SeparatorAt
  <2>5. /\ Before(s, i) \in Text /\ Len(Before(s, i)) = i - 1
        /\ \A j \in 1..(i - 1) : Before(s, i)[j] = s[j]
        /\ From(s, i + 3) \in Text
    BY Zenon, <2>4, Around
  <2>6. ASSUME NEW j \in SeparatorAt(Before(s, i)) PROVE FALSE
    <3>1. /\ j \in 1..(i - 1) /\ j + 1 \in 1..(i - 1) /\ j + 2 \in 1..(i - 1)
          /\ j \in 1..(Len(s) - 2) /\ ~ (i <= j)
      BY <1>0, <2>4, <2>5 DEF SeparatorAt
    <3>2. s[j] = ":" /\ s[j + 1] = "/" /\ s[j + 2] = "/"
      BY Zenon, <2>5, <3>1 DEF SeparatorAt
    <3>. QED  BY Zenon, <2>2, <3>1, <3>2 DEF SeparatorAt
  <2>7. ~Has(Before(s, i), Separator)
    BY Zenon, <2>5, <2>6, HasFacts
  <2>. QED  BY Zenon, <2>2, <2>3, <2>5, <2>7
<1>. QED  BY Zenon, <1>1, <1>2

LEMMA PathFacts ==
    ASSUME NEW s \in Text
    PROVE  /\ SplitPath(s).path \in Text /\ SplitPath(s).rest \in Text
           /\ ~Has(SplitPath(s).rest, <<"/">>)
           /\ \/ SplitPath(s).path = <<>> /\ SplitPath(s).rest = s
              \/ \E i \in CharAt(s, "/") : /\ SplitPath(s).path = From(s, i + 1)
                                           /\ SplitPath(s).rest = Before(s, i)
<1>0. Len(s) \in Nat /\ "/" \in Char /\ <<>> \in Text
  BY Letters DEF Text
<1>1. CASE ~Has(s, <<"/">>)
  BY Zenon, <1>0, <1>1 DEF SplitPath
<1>2. CASE Has(s, <<"/">>)
  <2>. DEFINE i == Min(CharAt(s, "/"))
  <2>1. CharAt(s, "/") \subseteq Nat
    BY <1>0 DEF CharAt
  <2>2. i \in CharAt(s, "/") /\ \A j \in CharAt(s, "/") : i <= j
    BY Zenon, <1>0, <1>2, <2>1, CharOccurs, MinFacts DEF Has
  <2>3. SplitPath(s).rest = Before(s, i) /\ SplitPath(s).path = From(s, i + 1)
    BY Zenon, <1>0, <1>2, CharOccurs DEF SplitPath
  <2>. HIDE DEF i
  <2>4. i \in 1..(Len(s) + 1 - 1) /\ 1 \in Nat
    BY <1>0, <2>2 DEF CharAt
  <2>5. /\ Before(s, i) \in Text /\ Len(Before(s, i)) = i - 1
        /\ \A j \in 1..(i - 1) : Before(s, i)[j] = s[j]
        /\ From(s, i + 1) \in Text
    BY Zenon, <2>4, Around
  <2>6. ASSUME NEW j \in 1..(i - 1), s[j] = "/" PROVE FALSE
    <3>1. j \in 1..Len(s) /\ ~ (i <= j)
      BY <1>0, <2>4
    <3>. QED  BY Zenon, <2>2, <2>6, <3>1 DEF CharAt
  <2>7. ~Has(Before(s, i), <<"/">>)
    <3>1. \A j \in 1..Len(Before(s, i)) : Before(s, i)[j] # "/"
      BY Zenon, <2>5, <2>6
    <3>. QED  BY Zenon, <1>0, <2>5, <3>1, HasFacts
  <2>. QED  BY Zenon, <2>2, <2>3, <2>5, <2>7
<1>. QED  BY Zenon, <1>1, <1>2

LEMMA PortFacts ==
    ASSUME NEW s \in Text
    PROVE  /\ SplitPort(s).port \in Int /\ SplitPort(s).rest \in Text
           /\ \/ /\ ~Has(s, <<":">>)
                 /\ SplitPort(s).port = DefaultPort /\ SplitPort(s).rest = s
              \/ \E i \in CharAt(s, ":") : /\ SplitPort(s).port = Atoi(From(s, i + 1))
                                           /\ SplitPort(s).rest = Before(s, i)
                                           /\ ~Has(From(s, i + 1), <<":">>)
<1>0. Len(s) \in Nat /\ ":" \in Char
  BY Letters DEF Text
<1>1. CASE ~Has(s, <<":">>)
  <2>1. DefaultPort \in Int
    BY URLAssumption
  <2>. QED  BY Zenon, <1>1, <2>1 DEF SplitPort
<1>2. CASE Has(s, <<":">>)
  <2>. DEFINE i == Max(CharAt(s, ":"))
  <2>1. CharAt(s, ":") \subseteq 0..Len(s)
    BY <1>0 DEF CharAt
  <2>2. i \in CharAt(s, ":") /\ \A j \in CharAt(s, ":") : i >= j
    BY Zenon, <1>0, <1>2, <2>1, CharOccurs, MaxFacts DEF Has
  <2>3. SplitPort(s).rest = Before(s, i) /\ SplitPort(s).port = Atoi(From(s, i + 1))
    BY Zenon, <1>0, <1>2, CharOccurs DEF SplitPort
  <2>. HIDE DEF i
  <2>4. i \in 1..(Len(s) + 1 - 1) /\ 1 \in Nat
    BY <1>0, <2>2 DEF CharAt
  <2>. DEFINE n == Len(s) - (i + 1) + 1
  <2>5. /\ Before(s, i) \in Text /\ From(s, i + 1) \in Text /\ Len(From(s, i + 1)) = n
        /\ \A j \in 1..n : From(s, i + 1)[j] = s[i + 1 + j - 1]
    BY Zenon, <2>4, Around
  <2>6. ASSUME NEW j \in 1..n, s[i + 1 + j - 1] = ":" PROVE FALSE
    <3>1. i + 1 + j - 1 \in 1..Len(s) /\ ~ (i >= i + 1 + j - 1)
      BY <1>0, <2>4
    <3>. QED  BY Zenon, <2>2, <2>6, <3>1 DEF CharAt
  <2>. HIDE DEF n
  <2>7. ~Has(From(s, i + 1), <<":">>)
    BY Zenon, <1>0, <2>5, <2>6, HasFacts
  <2>. QED  BY Zenon, <2>2, <2>3, <2>5, <2>7, AtoiFacts
<1>. QED  BY Zenon, <1>1, <1>2

(******************************************************************************)
(* What parse() finds                                                         *)
(******************************************************************************)
URLs == [scheme : Text, host : Text, port : Int, path : Text, valid : BOOLEAN]

LEMMA ParsedFacts ==
    ASSUME NEW s \in Text
    PROVE  /\ Parsed(s) \in URLs
           /\ ~Has(Parsed(s).scheme, Separator) /\ ~Has(Parsed(s).host, <<"/">>)
           /\ Parsed(s).valid <=> PortInRange(Parsed(s).port) /\ ~Has(Parsed(s).host, <<":">>)
<1>. DEFINE a == SplitScheme(s)
            b == SplitPath(a.rest)
            c == SplitPort(b.rest)
            v == PortInRange(c.port) /\ ~Has(c.rest, <<":">>)
<1>1. a.scheme \in Text /\ a.rest \in Text /\ ~Has(a.scheme, Separator)
  BY Zenon, SchemeFacts
<1>2. b.path \in Text /\ b.rest \in Text /\ ~Has(b.rest, <<"/">>)
  BY Zenon, <1>1, PathFacts
<1>3. /\ c.port \in Int /\ c.rest \in Text
      /\ c.rest = b.rest \/ \E i \in CharAt(b.rest, ":") : c.rest = Before(b.rest, i)
  BY Zenon, <1>2, PortFacts
<1>4. Parsed(s) = [scheme |-> a.scheme, host |-> c.rest, port |-> c.port, path |-> b.path,
                   valid |-> v]
  BY Zenon DEF Parsed
<1>. HIDE DEF a, b, c
<1>5. ~Has(c.rest, <<"/">>)
  <2>1. ASSUME NEW i \in CharAt(b.rest, ":") PROVE ~Has(Before(b.rest, i), <<"/">>)
    <3>0. Len(b.rest) \in Nat /\ "/" \in Char
      BY <1>2, Letters DEF Text
    <3>1. i \in 1..(Len(b.rest) + 1 - 0) /\ 0 \in Nat
      BY <3>0, <2>1 DEF CharAt
    <3>2. /\ Before(b.rest, i) \in Text /\ Len(Before(b.rest, i)) = i - 1
          /\ \A j \in 1..(i - 1) : Before(b.rest, i)[j] = b.rest[j]
      BY Zenon, <1>2, <3>1, Around
    <3>3. 1..(i - 1) \subseteq 1..Len(b.rest)
      BY <3>0, <3>1
    <3>4. \A j \in 1..Len(b.rest) : b.rest[j] # "/"
      BY Zenon, <1>2, <3>0, HasFacts
    <3>5. \A j \in 1..Len(Before(b.rest, i)) : Before(b.rest, i)[j] # "/"
      BY Zenon, <3>2, <3>3, <3>4
    <3>. QED  BY Zenon, <3>0, <3>2, <3>5, HasFacts
  <2>. QED  BY Zenon, <1>2, <1>3, <2>1
<1>6. v \in BOOLEAN
  BY Zenon DEF PortInRange, Has
<1>. HIDE DEF v
<1>7. /\ Parsed(s).scheme = a.scheme /\ Parsed(s).host = c.rest /\ Parsed(s).port = c.port
      /\ Parsed(s).valid = v
  BY <1>4
<1>8. Parsed(s) \in URLs
  BY <1>1, <1>2, <1>3, <1>4, <1>6 DEF URLs
<1>. QED  BY Zenon, <1>1, <1>5, <1>7, <1>8 DEF v

LEMMA ValidSound == ASSUME NEW s \in Text PROVE Parsed(s).valid <=> Sound(Parsed(s))
<1>1. Parsed(s).port \in Int
  BY Zenon, ParsedFacts DEF URLs
<1>2. PortInRange(Parsed(s).port) <=> Parsed(s).port \in 1..MaxPort
  BY <1>1, URLAssumption DEF PortInRange
<1>. QED  BY Zenon, <1>2, ParsedFacts DEF Sound

\* A part of a part.
LEMMA PartOfPart ==
    ASSUME NEW s \in Text, NEW o \in Nat, NEW p \in Nat, o <= p, p <= Len(s),
           NEW x \in Nat, NEW y \in Nat, 1 <= x, x <= y + 1, y <= p - o
    PROVE  SubSeq(SubSeq(s, o + 1, p), x, y) = SubSeq(s, o + x, o + y)
<1>0. Len(s) \in Nat
  BY DEF Text
<1>. DEFINE r == SubSeq(s, o + 1, p)
            t == SubSeq(r, x, y)
            w == SubSeq(s, o + x, o + y)
<1>1. o + 1 \in 1..(Len(s) + 1) /\ p \in 0..Len(s) /\ o + 1 <= p + 1 /\ p - (o + 1) + 1 = p - o
  BY <1>0
<1>2. /\ r \in Text /\ Len(r) = p - o
      /\ \A j \in 1..(p - o) : r[j] = s[o + 1 + j - 1]
  BY <1>1, SubSeqFacts
<1>. HIDE DEF r
<1>3. x \in 1..(Len(r) + 1) /\ y \in 0..Len(r)
  BY <1>0, <1>2
<1>4. /\ t \in Text /\ Len(t) = y - x + 1
      /\ \A k \in 1..(y - x + 1) : t[k] = r[x + k - 1]
  BY <1>2, <1>3, SubSeqFacts
<1>5. o + x \in 1..(Len(s) + 1) /\ o + y \in 0..Len(s) /\ o + x <= (o + y) + 1
      /\ (o + y) - (o + x) + 1 = y - x + 1
  BY <1>0
<1>6. /\ w \in Text /\ Len(w) = y - x + 1
      /\ \A k \in 1..(y - x + 1) : w[k] = s[o + x + k - 1]
  BY <1>5, SubSeqFacts
<1>7. ASSUME NEW k \in 1..(y - x + 1) PROVE t[k] = w[k]
  <2>1. x + k - 1 \in 1..(p - o) /\ o + 1 + (x + k - 1) - 1 = o + x + k - 1
    BY <1>0
  <2>. QED  BY Zenon, <1>2, <1>4, <1>6, <2>1
<1>. HIDE DEF t, w
<1>8. t = w
  BY Zenon, <1>4, <1>6, <1>7, SameText
<1>. QED  BY Zenon, <1>8 DEF r, t, w

\* Where the scheme, the path and the port were cut off.
SchemeCut(s, o, a) ==
    /\ a.rest = SubSeq(s, o + 1, Len(s))
    /\ \/ o = 0 /\ a.scheme = Http /\ ~Has(s, Separator)
       \/ SubSeq(s, 1, o) = a.scheme \o Separator

PathCut(s, k, b) ==
    /\ b.rest = SubSeq(s, 1, k)
    /\ \/ k = Len(s) /\ b.path = <<>>
       \/ k < Len(s) /\ s[k + 1] = "/" /\ b.path = SubSeq(s, k + 2, Len(s))

PortCut(s, j, c) ==
    /\ c.rest = SubSeq(s, 1, j)
    /\ \/ j = Len(s) /\ c.port = DefaultPort /\ ~Has(s, <<":">>)
       \/ /\ j < Len(s) /\ s[j + 1] = ":"
          /\ c.port = Atoi(SubSeq(s, j + 2, Len(s)))
          /\ ~Has(SubSeq(s, j + 2, Len(s)), <<":">>)

LEMMA SchemeIsCut ==
    ASSUME NEW s \in Text
    PROVE  \E o \in 0..Len(s) : SchemeCut(s, o, SplitScheme(s))
<1>0. Len(s) \in Nat /\ SubSeq(s, 1, Len(s)) = s
  BY DEF Text
<1>. DEFINE a == SplitScheme(s)
<1>1. CASE ~Has(s, Separator) /\ a.scheme = Http /\ a.rest = s
  <2>1. 0 \in 0..Len(s) /\ 0 + 1 = 1
    BY <1>0
  <2>. HIDE DEF a
  <2>2. SchemeCut(s, 0, a)
    BY Zenon, <1>0, <1>1, <2>1 DEF SchemeCut
  <2>. QED  BY Zenon, <2>1, <2>2 DEF a
<1>2. ASSUME NEW i \in SeparatorAt(s), a.scheme = Before(s, i), a.rest = From(s, i + 3)
      PROVE  \E o \in 0..Len(s) : SchemeCut(s, o, a)
  <2>1. /\ i \in 1..(Len(s) - 2) /\ i \in 1..(Len(s) + 1 - 3) /\ 3 \in Nat
        /\ i + 2 \in 0..Len(s) /\ (i + 2) + 1 = i + 3
        /\ s[i] = ":" /\ s[i + 1] = "/" /\ s[i + 2] = "/"
    BY <1>0, <1>2 DEF SeparatorAt
  <2>. DEFINE t == SubSeq(s, 1, i + 2)
              b == Before(s, i)
  <2>2. b \in Text /\ Len(b) = i - 1 /\ \A j \in 1..(i - 1) : b[j] = s[j]
    BY Zenon, <2>1, Around
  <2>3. t \in Text /\ Len(t) = i + 2 /\ \A j \in 1..(i + 2) : t[j] = s[j]
    BY <1>0, <2>1 DEF Text
  <2>. HIDE DEF t, b
  <2>4. /\ b \o Separator \in Text /\ Len(b \o Separator) = i + 2
        /\ \A j \in 1..(i - 1) : (b \o Separator)[j] = b[j]
        /\ (b \o Separator)[i] = ":" /\ (b \o Separator)[i + 1] = "/"
        /\ (b \o Separator)[i + 2] = "/"
    <3>1. /\ 1 \in 1..3 /\ 2 \in 1..3 /\ 3 \in 1..3 /\ (i - 1) + 3 = i + 2
          /\ (i - 1) + 1 = i /\ (i - 1) + 2 = i + 1
      BY <2>1
    <3>2. /\ b \o Separator \in Text /\ Len(b \o Separator) = (i - 1) + 3
          /\ \A j \in 1..(i - 1) : (b \o Separator)[j] = b[j]
          /\ \A j \in 1..3 : (b \o Separator)[(i - 1) + j] = Separator[j]
      <4>1. /\ b \o Separator \in Text /\ Len(b \o Separator) = Len(b) + Len(Separator)
            /\ \A j \in 1..Len(b) : (b \o Separator)[j] = b[j]
            /\ \A j \in 1..Len(Separator) : (b \o Separator)[Len(b) + j] = Separator[j]
        BY Zenon, <2>2, SeparatorFacts, Joined
      <4>. QED  BY Zenon, <2>2, <4>1, SeparatorFacts
    <3>3. /\ (b \o Separator)[(i - 1) + 1] = Separator[1]
          /\ (b \o Separator)[(i - 1) + 2] = Separator[2]
          /\ (b \o Separator)[(i - 1) + 3] = Separator[3]
      BY Zenon, <3>1, <3>2
    <3>. QED  BY Zenon, <3>1, <3>2, <3>3, SeparatorFacts
  <2>5. \A j \in 1..(i + 2) : j \in 1..(i - 1) \/ j = i \/ j = i + 1 \/ j = i + 2
    BY <2>1
  <2>6. \A j \in 1..(i + 2) : t[j] = (b \o Separator)[j]
    BY Zenon, <2>1, <2>2, <2>3, <2>4, <2>5
  <2>7. t = b \o Separator
    BY Zenon, <2>3, <2>4, <2>6, SameText
  <2>8. SchemeCut(s, i + 2, a)
    BY Zenon, <1>2, <2>1, <2>7 DEF SchemeCut, From, b, t
  <2>. QED  BY Zenon, <2>1, <2>8
<1>. QED  BY Zenon, <1>1, <1>2, SchemeFacts

LEMMA PathIsCut ==
    ASSUME NEW s \in Text
    PROVE  \E k \in 0..Len(s) : PathCut(s, k, SplitPath(s))
<1>0. Len(s) \in Nat /\ SubSeq(s, 1, Len(s)) = s /\ Len(s) \in 0..Len(s)
  BY DEF Text
<1>. DEFINE b == SplitPath(s)
<1>1. CASE b.path = <<>> /\ b.rest = s
  BY Zenon, <1>0, <1>1 DEF PathCut
<1>2. ASSUME NEW i \in CharAt(s, "/"), b.path = From(s, i + 1), b.rest = Before(s, i)
      PROVE  \E k \in 0..Len(s) : PathCut(s, k, b)
  <2>1. /\ i - 1 \in 0..Len(s) /\ i - 1 < Len(s) /\ (i - 1) + 1 = i /\ (i - 1) + 2 = i + 1
        /\ s[i] = "/"
    BY <1>0, <1>2 DEF CharAt
  <2>2. PathCut(s, i - 1, b)
    BY Zenon, <1>2, <2>1 DEF PathCut, Before, From
  <2>. QED  BY Zenon, <2>1, <2>2
<1>. QED  BY Zenon, <1>1, <1>2, PathFacts

LEMMA PortIsCut ==
    ASSUME NEW s \in Text
    PROVE  \E j \in 0..Len(s) : PortCut(s, j, SplitPort(s))
<1>0. Len(s) \in Nat /\ SubSeq(s, 1, Len(s)) = s /\ Len(s) \in 0..Len(s)
  BY DEF Text
<1>. DEFINE c == SplitPort(s)
<1>1. CASE ~Has(s, <<":">>) /\ c.port = DefaultPort /\ c.rest = s
  BY Zenon, <1>0, <1>1 DEF PortCut
<1>2. ASSUME NEW i \in CharAt(s, ":"), c.port = Atoi(From(s, i + 1)), c.rest = Before(s, i),
             ~Has(From(s, i + 1), <<":">>)
      PROVE  \E j \in 0..Len(s) : PortCut(s, j, c)
  <2>1. /\ i - 1 \in 0..Len(s) /\ i - 1 < Len(s) /\ (i - 1) + 1 = i /\ (i - 1) + 2 = i + 1
        /\ s[i] = ":"
    BY <1>0, <1>2 DEF CharAt
  <2>2. PortCut(s, i - 1, c)
    BY Zenon, <1>2, <2>1 DEF PortCut, Before, From
  <2>. QED  BY Zenon, <2>1, <2>2
<1>. QED  BY Zenon, <1>1, <1>2, PortFacts

LEMMA ParsedSpells == ASSUME NEW s \in Text PROVE Spells(s, Parsed(s))
<1>. DEFINE a == SplitScheme(s)
            b == SplitPath(a.rest)
            c == SplitPort(b.rest)
            u == Parsed(s)
<1>0. Len(s) \in Nat
  BY DEF Text
<1>1. a.scheme \in Text /\ a.rest \in Text /\ ~Has(a.scheme, Separator)
  BY Zenon, SchemeFacts
<1>2. b.path \in Text /\ b.rest \in Text /\ ~Has(b.rest, <<"/">>)
  BY Zenon, <1>1, PathFacts
<1>3. u.scheme = a.scheme /\ u.host = c.rest /\ u.port = c.port /\ u.path = b.path
  BY Zenon DEF Parsed
<1>4. PICK o \in 0..Len(s) : SchemeCut(s, o, a)
  BY Zenon, SchemeIsCut
<1>5. PICK k \in 0..Len(a.rest) : PathCut(a.rest, k, b)
  BY Zenon, <1>1, PathIsCut
<1>6. PICK j \in 0..Len(b.rest) : PortCut(b.rest, j, c)
  BY Zenon, <1>2, PortIsCut
<1>. HIDE DEF a, b, c, u
\* The rest and the authority, as parts of s.
<1>7. a.rest = SubSeq(s, o + 1, Len(s)) /\ Len(a.rest) = Len(s) - o
      /\ \A x \in 1..(Len(s) - o) : a.rest[x] = s[o + x]
  <2>1. /\ o + 1 \in 1..(Len(s) + 1) /\ Len(s) \in 0..Len(s) /\ o + 1 <= Len(s) + 1
        /\ Len(s) - (o + 1) + 1 = Len(s) - o
        /\ \A x \in 1..(Len(s) - o) : o + 1 + x - 1 = o + x
    BY <1>0
  <2>2. a.rest = SubSeq(s, o + 1, Len(s))
    BY Zenon, <1>4 DEF SchemeCut
  <2>3. /\ Len(SubSeq(s, o + 1, Len(s))) = Len(s) - (o + 1) + 1
        /\ \A x \in 1..(Len(s) - (o + 1) + 1) : SubSeq(s, o + 1, Len(s))[x] = s[o + 1 + x - 1]
    BY Zenon, <2>1, SubSeqFacts
  <2>. QED  BY Zenon, <2>1, <2>2, <2>3
<1>8. /\ o \in Nat /\ k \in Nat /\ o + k \in Nat /\ o + k <= Len(s) /\ o <= o + k
      /\ o <= Len(s) /\ Len(s) <= Len(s) /\ k <= Len(s) - o /\ 1 <= 1 /\ 1 <= k + 1
      /\ o + k \in 0..Len(s)
  BY <1>0, <1>7
<1>9. b.rest = SubSeq(s, o + 1, o + k) /\ Len(b.rest) = k
      /\ \A x \in 1..k : b.rest[x] = s[o + x]
  <2>1. b.rest = SubSeq(a.rest, 1, k)
    BY Zenon, <1>5 DEF PathCut
  <2>2. SubSeq(SubSeq(s, o + 1, Len(s)), 1, k) = SubSeq(s, o + 1, o + k)
    BY <1>0, <1>8, PartOfPart
  <2>3. /\ o + 1 \in 1..(Len(s) + 1) /\ o + 1 <= (o + k) + 1 /\ (o + k) - (o + 1) + 1 = k
        /\ \A x \in 1..k : o + 1 + x - 1 = o + x
    BY <1>0, <1>8
  <2>4. Len(SubSeq(s, o + 1, o + k)) = k
        /\ \A x \in 1..k : SubSeq(s, o + 1, o + k)[x] = s[o + 1 + x - 1]
    BY <1>8, <2>3, SubSeqFacts
  <2>. QED  BY Zenon, <1>7, <2>1, <2>2, <2>3, <2>4
<1>10. /\ j \in Nat /\ j <= k /\ o + j \in 0..Len(s) /\ o <= o + j /\ o + j <= o + k
  BY <1>0, <1>6, <1>8, <1>9
<1>11. SubSeq(s, o + 1, o + j) = u.host
  <2>1. SubSeq(SubSeq(s, o + 1, o + k), 1, j) = SubSeq(s, o + 1, o + j)
    <3>1. 1 <= j + 1 /\ j <= (o + k) - o /\ 1 \in Nat
      BY <1>8, <1>10
    <3>. QED  BY <1>8, <1>10, <3>1, PartOfPart
  <2>. QED  BY Zenon, <1>3, <1>6, <1>9, <2>1 DEF PortCut
<1>12. \/ o = 0 /\ u.scheme = Http /\ ~Has(s, Separator)
       \/ SubSeq(s, 1, o) = u.scheme \o Separator /\ ~Has(u.scheme, Separator)
  BY Zenon, <1>1, <1>3, <1>4 DEF SchemeCut
<1>13. ~Has(SubSeq(s, o + 1, o + k), <<"/">>)
  BY Zenon, <1>2, <1>9
<1>14. \/ o + j = o + k /\ u.port = DefaultPort /\ ~Has(u.host, <<":">>)
       \/ /\ o + j < o + k /\ s[(o + j) + 1] = ":"
          /\ Atoi(SubSeq(s, (o + j) + 2, o + k)) = u.port
          /\ ~Has(SubSeq(s, (o + j) + 2, o + k), <<":">>)
  <2>1. CASE j = k /\ c.port = DefaultPort /\ ~Has(b.rest, <<":">>)
    BY Zenon, <1>3, <1>9, <1>11, <2>1
  <2>2. CASE /\ j < k /\ b.rest[j + 1] = ":"
             /\ c.port = Atoi(SubSeq(b.rest, j + 2, k))
             /\ ~Has(SubSeq(b.rest, j + 2, k), <<":">>)
    <3>1. /\ j + 2 \in Nat /\ 1 <= j + 2 /\ j + 2 <= k + 1 /\ k <= (o + k) - o
          /\ o + (j + 2) = (o + j) + 2 /\ o + (j + 1) = (o + j) + 1 /\ j + 1 \in 1..k
          /\ o + j < o + k
      BY <1>8, <1>10, <2>2
    <3>2. SubSeq(SubSeq(s, o + 1, o + k), j + 2, k) = SubSeq(s, o + (j + 2), o + k)
      BY <1>8, <3>1, PartOfPart
    <3>. QED  BY Zenon, <1>3, <1>9, <2>2, <3>1, <3>2
  <2>. QED  BY Zenon, <1>6, <1>9, <2>1, <2>2 DEF PortCut
<1>15. \/ o + k = Len(s) /\ u.path = <<>>
       \/ o + k < Len(s) /\ s[(o + k) + 1] = "/" /\ u.path = From(s, (o + k) + 2)
  <2>1. CASE k = Len(a.rest) /\ b.path = <<>>
    <3>1. o + k = Len(s)
      BY <1>0, <1>7, <1>8, <2>1
    <3>. QED  BY Zenon, <1>3, <2>1, <3>1
  <2>2. CASE /\ k < Len(a.rest) /\ a.rest[k + 1] = "/"
             /\ b.path = SubSeq(a.rest, k + 2, Len(a.rest))
    <3>. DEFINE n == Len(s) - o
    <3>1. /\ k + 2 \in Nat /\ n \in Nat /\ 1 <= k + 2 /\ k + 2 <= n + 1 /\ n <= Len(s) - o
          /\ o + (k + 2) = (o + k) + 2 /\ o + (k + 1) = (o + k) + 1 /\ k + 1 \in 1..n
          /\ o + k < Len(s) /\ o + n = Len(s)
      BY <1>0, <1>7, <1>8, <2>2
    <3>2. Len(a.rest) = n
      BY Zenon, <1>7
    <3>3. a.rest[k + 1] = s[o + (k + 1)]
      BY Zenon, <1>7, <3>1
    <3>. HIDE DEF n
    <3>4. SubSeq(SubSeq(s, o + 1, Len(s)), k + 2, n) = SubSeq(s, o + (k + 2), o + n)
      BY <1>0, <1>8, <3>1, PartOfPart
    <3>. QED  BY Zenon, <1>3, <1>7, <2>2, <3>1, <3>2, <3>3, <3>4 DEF From
  <2>. QED  BY Zenon, <1>5, <2>1, <2>2 DEF PathCut
<1>16. Spells(s, u)
  BY Zenon, <1>8, <1>10, <1>11, <1>12, <1>13, <1>14, <1>15 DEF Spells
<1>. QED  BY Zenon, <1>16 DEF u

(******************************************************************************)
(* Texts put together, and taken apart again                                  *)
(******************************************************************************)
LEMMA Associative ==
    ASSUME NEW x \in Text, NEW y \in Text, NEW z \in Text
    PROVE  (x \o y) \o z = x \o (y \o z)
  BY DEF Text

ThreeParts(s, p, q, r) ==
    /\ s \in Text /\ Len(s) = Len(p) + Len(q) + Len(r)
    /\ \A j \in 1..Len(p) : s[j] = p[j]
    /\ \A j \in 1..Len(q) : s[Len(p) + j] = q[j]
    /\ \A j \in 1..Len(r) : s[Len(p) + Len(q) + j] = r[j]
    /\ Before(s, Len(p) + 1) = p
    /\ From(s, Len(p) + 1 + Len(q)) = r

LEMMA JoinedThree ==
    ASSUME NEW p \in Text, NEW q \in Text, NEW r \in Text
    PROVE  ThreeParts((p \o q) \o r, p, q, r)
<1>. SUFFICES ASSUME NEW s, s = (p \o q) \o r PROVE ThreeParts(s, p, q, r)
  BY Zenon
<1>. DEFINE pq == p \o q
            m == Len(p)
            n == Len(q)
            l == Len(r)
<1>0. m \in Nat /\ n \in Nat /\ l \in Nat
  BY DEF Text
<1>1. /\ pq \in Text /\ Len(pq) = m + n
      /\ \A i \in 1..m : pq[i] = p[i]
      /\ \A i \in 1..n : pq[m + i] = q[i]
  BY Zenon, Joined
<1>. HIDE DEF pq
<1>2. /\ s \in Text /\ Len(s) = m + n + l
      /\ \A i \in 1..(m + n) : s[i] = pq[i]
      /\ \A i \in 1..l : s[m + n + i] = r[i]
  <2>1. /\ pq \o r \in Text /\ Len(pq \o r) = Len(pq) + l
        /\ \A i \in 1..Len(pq) : (pq \o r)[i] = pq[i]
        /\ \A i \in 1..l : (pq \o r)[Len(pq) + i] = r[i]
    BY Zenon, <1>1, Joined
  <2>2. s = pq \o r
    BY Zenon DEF pq
  <2>. QED  BY Zenon, <1>1, <2>1, <2>2
<1>. HIDE DEF m, n, l
<1>3. ASSUME NEW j \in 1..m PROVE s[j] = p[j]
  <2>1. j \in 1..(m + n)
    BY <1>0
  <2>. QED  BY Zenon, <1>1, <1>2, <2>1
<1>4. ASSUME NEW j \in 1..n PROVE s[m + j] = q[j]
  <2>1. m + j \in 1..(m + n)
    BY <1>0
  <2>. QED  BY Zenon, <1>1, <1>2, <2>1
<1>5. /\ m + 1 \in 1..(Len(s) + 1 - n) /\ (m + 1) - 1 = m
      /\ Len(s) - (m + 1 + n) + 1 = l
      /\ \A j \in 1..l : m + 1 + n + j - 1 = m + n + j
  BY <1>0, <1>2
<1>6. /\ Before(s, m + 1) \in Text /\ Len(Before(s, m + 1)) = m
      /\ \A j \in 1..m : Before(s, m + 1)[j] = s[j]
      /\ From(s, m + 1 + n) \in Text /\ Len(From(s, m + 1 + n)) = l
      /\ \A j \in 1..l : From(s, m + 1 + n)[j] = s[m + n + j]
  <2>1. /\ Before(s, m + 1) \in Text /\ Len(Before(s, m + 1)) = (m + 1) - 1
        /\ \A j \in 1..((m + 1) - 1) : Before(s, m + 1)[j] = s[j]
        /\ From(s, m + 1 + n) \in Text
        /\ Len(From(s, m + 1 + n)) = Len(s) - (m + 1 + n) + 1
        /\ \A j \in 1..(Len(s) - (m + 1 + n) + 1) : From(s, m + 1 + n)[j] = s[m + 1 + n + j - 1]
    <3>. DEFINE i == m + 1
    <3>1. i \in 1..(Len(s) + 1 - n)
      BY Zenon, <1>5
    <3>. HIDE DEF i
    <3>2. /\ Before(s, i) \in Text /\ Len(Before(s, i)) = i - 1
          /\ \A j \in 1..(i - 1) : Before(s, i)[j] = s[j]
          /\ From(s, i + n) \in Text /\ Len(From(s, i + n)) = Len(s) - (i + n) + 1
          /\ \A j \in 1..(Len(s) - (i + n) + 1) : From(s, i + n)[j] = s[i + n + j - 1]
      BY Zenon, <1>0, <1>2, <3>1, Around
    <3>. QED  BY Zenon, <3>2 DEF i
  <2>. QED  BY Zenon, <1>5, <2>1
<1>7. Before(s, m + 1) = p
  <2>1. \A j \in 1..Len(p) : Before(s, m + 1)[j] = p[j]
    BY Zenon, <1>3, <1>6 DEF m
  <2>. QED  BY Zenon, <1>6, <2>1, SameText DEF m
<1>8. From(s, m + 1 + n) = r
  <2>1. \A j \in 1..Len(r) : From(s, m + 1 + n)[j] = r[j]
    BY Zenon, <1>2, <1>6 DEF l
  <2>. QED  BY Zenon, <1>6, <2>1, SameText DEF l
<1>. QED  BY Zenon, <1>2, <1>3, <1>4, <1>7, <1>8 DEF ThreeParts, m, n, l

LEMMA SchemeFound ==
    ASSUME NEW p \in Text, NEW r \in Text, ~Has(p, Separator)
    PROVE  LET a == SplitScheme((p \o Separator) \o r) IN a.scheme = p /\ a.rest = r
<1>. DEFINE s == (p \o Separator) \o r
            n == Len(p)
            i == Min(SeparatorAt(s))
<1>0. n \in Nat /\ Len(r) \in Nat
  BY DEF Text
<1>1. /\ s \in Text /\ Len(s) = n + 3 + Len(r)
      /\ \A j \in 1..n : s[j] = p[j]
      /\ \A j \in 1..3 : s[n + j] = Separator[j]
      /\ Before(s, n + 1) = p /\ From(s, n + 1 + 3) = r
  <2>1. ThreeParts(s, p, Separator, r)
    BY Zenon, SeparatorFacts, JoinedThree
  <2>. HIDE DEF s
  <2>. QED  BY Zenon, <2>1, SeparatorFacts DEF ThreeParts
<1>. HIDE DEF s
<1>2. s[n + 1] = ":" /\ s[n + 2] = "/" /\ s[n + 3] = "/"
  BY <1>1, SeparatorFacts
<1>3. n + 1 \in SeparatorAt(s)
  <2>1. n + 1 \in 1..(Len(s) - 2) /\ (n + 1) + 1 = n + 2 /\ (n + 1) + 2 = n + 3
    BY <1>0, <1>1
  <2>. QED  BY Zenon, <1>2, <2>1 DEF SeparatorAt
<1>4. SeparatorAt(s) \subseteq Nat
  BY <1>0, <1>1 DEF SeparatorAt
<1>5. i \in SeparatorAt(s) /\ i <= n + 1
  BY Zenon, <1>3, <1>4, MinFacts
<1>6. SplitScheme(s).scheme = Before(s, i) /\ SplitScheme(s).rest = From(s, i + 3)
  BY Zenon, <1>1, <1>3, SeparatorOccurs DEF SplitScheme, Has
<1>. HIDE DEF i
<1>7. s[i] = ":" /\ s[i + 1] = "/" /\ s[i + 2] = "/" /\ i \in Nat \ {0}
  BY <1>0, <1>1, <1>5 DEF SeparatorAt
\* A separator that begins in p lies in p, since its second and third
\* characters are not its first.
<1>8. i = n + 1
  <2>. SUFFICES ASSUME i # n + 1 PROVE FALSE
    BY Zenon
  <2>1. i + 1 # n + 1 /\ i + 2 # n + 1
    BY <1>2, <1>7
  <2>2. i \in 1..(n - 2) /\ i \in 1..n /\ i + 1 \in 1..n /\ i + 2 \in 1..n
    BY <1>0, <1>5, <1>7, <2>1
  <2>3. i \in SeparatorAt(p)
    BY Zenon, <1>1, <1>7, <2>2 DEF SeparatorAt
  <2>. QED  BY Zenon, <2>3, HasFacts
<1>. QED  BY Zenon, <1>1, <1>6, <1>8 DEF s

\* The same for a character c of which p, or r, has none.
LEMMA CharFound ==
    ASSUME NEW p \in Text, NEW r \in Text, NEW c \in Char
    PROVE  LET s == (p \o <<c>>) \o r
           IN  /\ s \in Text /\ Has(s, <<c>>)
               /\ Before(s, Len(p) + 1) = p /\ From(s, Len(p) + 1 + 1) = r
               /\ ~Has(p, <<c>>) => Min(Occurrences(s, <<c>>)) = Len(p) + 1
               /\ ~Has(r, <<c>>) => Max(Occurrences(s, <<c>>)) = Len(p) + 1
<1>. DEFINE s == (p \o <<c>>) \o r
            n == Len(p)
            C == CharAt(s, c)
<1>0. n \in Nat /\ Len(r) \in Nat /\ <<c>> \in Text /\ Len(<<c>>) = 1 /\ <<c>>[1] = c /\ 1 \in 1..1
  BY DEF Text
<1>1. /\ s \in Text /\ Len(s) = n + 1 + Len(r)
      /\ \A j \in 1..n : s[j] = p[j]
      /\ s[n + 1] = c
      /\ \A j \in 1..Len(r) : s[n + 1 + j] = r[j]
      /\ Before(s, n + 1) = p /\ From(s, n + 1 + 1) = r
  <2>1. ThreeParts(s, p, <<c>>, r)
    BY Zenon, <1>0, JoinedThree
  <2>. HIDE DEF s
  <2>. QED  BY Zenon, <1>0, <2>1 DEF ThreeParts
<1>. HIDE DEF s
<1>2. Occurrences(s, <<c>>) = C
  BY Zenon, <1>1, CharOccurs
<1>3. n + 1 \in C /\ C \subseteq Nat /\ C \subseteq 0..Len(s) /\ Len(s) \in Nat
  BY <1>0, <1>1 DEF CharAt
<1>. HIDE DEF C
<1>4. ASSUME ~Has(p, <<c>>) PROVE Min(C) = n + 1
  <2>. DEFINE i == Min(C)
  <2>1. i \in C /\ i <= n + 1
    BY Zenon, <1>3, MinFacts
  <2>. HIDE DEF i
  <2>2. i \in 1..Len(s) /\ s[i] = c
    BY Zenon, <2>1 DEF C, CharAt
  <2>3. ASSUME i # n + 1 PROVE FALSE
    <3>1. i \in 1..n
      BY <1>0, <1>1, <2>1, <2>2, <2>3
    <3>. QED  BY Zenon, <1>1, <1>4, <2>2, <3>1, HasFacts
  <2>. QED  BY Zenon, <2>3 DEF i
<1>5. ASSUME ~Has(r, <<c>>) PROVE Max(C) = n + 1
  <2>. DEFINE i == Max(C)
  <2>1. i \in C /\ i >= n + 1
    BY Zenon, <1>3, MaxFacts
  <2>. HIDE DEF i
  <2>2. i \in 1..Len(s) /\ s[i] = c
    BY Zenon, <2>1 DEF C, CharAt
  <2>3. ASSUME i # n + 1 PROVE FALSE
    <3>1. i - (n + 1) \in 1..Len(r) /\ n + 1 + (i - (n + 1)) = i
      BY <1>0, <1>1, <2>1, <2>2, <2>3
    <3>2. r[i - (n + 1)] = c
      BY Zenon, <1>1, <2>2, <3>1
    <3>3. \E j \in 1..Len(r) : r[j] = c
      BY Zenon, <3>1, <3>2
    <3>. QED  BY Zenon, <1>5, <3>3, HasFacts
  <2>. QED  BY Zenon, <2>3 DEF i
<1>6. Has(s, <<c>>)
  BY Zenon, <1>2, <1>3 DEF Has
<1>. QED  BY Zenon, <1>1, <1>2, <1>4, <1>5, <1>6 DEF s

LEMMA PathFound ==
    ASSUME NEW h \in Text, NEW q \in Text, ~Has(h, <<"/">>)
    PROVE  LET b == SplitPath((h \o <<"/">>) \o q) IN b.path = q /\ b.rest = h
<1>1. "/" \in Char
  BY Zenon, Letters
<1>. DEFINE s == (h \o <<"/">>) \o q
            i == Min(Occurrences(s, <<"/">>))
<1>2. /\ Has(s, <<"/">>) /\ i = Len(h) + 1
      /\ Before(s, Len(h) + 1) = h /\ From(s, Len(h) + 1 + 1) = q
  BY Zenon, <1>1, CharFound
<1>. HIDE DEF s
<1>3. SplitPath(s).rest = Before(s, i) /\ SplitPath(s).path = From(s, i + 1)
  BY Zenon, <1>2 DEF SplitPath
<1>. HIDE DEF i
<1>. QED  BY Zenon, <1>2, <1>3 DEF s

LEMMA PortFound ==
    ASSUME NEW h \in Text, NEW t \in Text, ~Has(t, <<":">>)
    PROVE  LET c == SplitPort((h \o <<":">>) \o t) IN c.port = Atoi(t) /\ c.rest = h
<1>1. ":" \in Char
  BY Zenon, Letters
<1>. DEFINE s == (h \o <<":">>) \o t
            i == Max(Occurrences(s, <<":">>))
<1>2. /\ Has(s, <<":">>) /\ i = Len(h) + 1
      /\ Before(s, Len(h) + 1) = h /\ From(s, Len(h) + 1 + 1) = t
  BY Zenon, <1>1, CharFound
<1>. HIDE DEF s
<1>3. SplitPort(s).rest = Before(s, i) /\ SplitPort(s).port = Atoi(From(s, i + 1))
  BY Zenon, <1>2 DEF SplitPort
<1>. HIDE DEF i
<1>. QED  BY Zenon, <1>2, <1>3 DEF s

LEMMA DigitsHaveNone ==
    ASSUME NEW t \in Text, AllDigits(t), NEW c \in {":", "/"}
    PROVE  ~Has(t, <<c>>)
<1>1. c \in Char
  BY Zenon, Letters
<1>2. ~IsDigit(c)
  BY DEF IsDigit, Digits
<1>. QED  BY Zenon, <1>1, <1>2, HasFacts DEF AllDigits

LEMMA JoinedHasNone ==
    ASSUME NEW s \in Text, NEW t \in Text, NEW c \in Char, ~Has(s, <<c>>), ~Has(t, <<c>>)
    PROVE  ~Has(s \o t, <<c>>)
<1>. DEFINE w == s \o t
<1>0. Len(s) \in Nat /\ Len(t) \in Nat
  BY DEF Text
<1>1. /\ w \in Text /\ Len(w) = Len(s) + Len(t)
      /\ \A i \in 1..Len(s) : w[i] = s[i]
      /\ \A i \in 1..Len(t) : w[Len(s) + i] = t[i]
  BY Zenon, Joined
<1>. HIDE DEF w
<1>2. \A i \in 1..Len(s) : s[i] # c
  BY Zenon, HasFacts
<1>3. \A i \in 1..Len(t) : t[i] # c
  BY Zenon, HasFacts
<1>4. ASSUME NEW i \in 1..Len(w) PROVE w[i] # c
  <2>1. i \in 1..Len(s) \/ (i - Len(s) \in 1..Len(t) /\ Len(s) + (i - Len(s)) = i)
    BY <1>0, <1>1
  <2>. QED  BY Zenon, <1>1, <1>2, <1>3, <2>1
<1>. QED  BY Zenon, <1>1, <1>4, HasFacts DEF w

(******************************************************************************)
(* parse() of toString()                                                      *)
(******************************************************************************)
LEMMA MadeValid ==
    ASSUME NEW u \in URLs
    PROVE  [u EXCEPT !.valid = TRUE] =
              [scheme |-> u.scheme, host |-> u.host, port |-> u.port, path |-> u.path,
               valid |-> TRUE]
<1>. DEFINE v == [u EXCEPT !.valid = TRUE]
            w == [scheme |-> u.scheme, host |-> u.host, port |-> u.port, path |-> u.path,
                  valid |-> TRUE]
<1>1. v \in URLs /\ w \in URLs
  BY DEF URLs
<1>2. /\ v.scheme = w.scheme /\ v.host = w.host /\ v.port = w.port /\ v.path = w.path
      /\ v.valid = w.valid
  BY DEF URLs
<1>. HIDE DEF v, w
<1>3. v = w
  BY <1>1, <1>2 DEF URLs
<1>. QED  BY Zenon, <1>3 DEF v, w

LEMMA Restored ==
    ASSUME NEW u \in URLs, Sound(u)
    PROVE  Parsed(toString(u)) = [u EXCEPT !.valid = TRUE]
<1>. DEFINE A == u.scheme
            H == u.host
            P == PortText(u)
            Q == u.path
            HP == H \o P
            R == (HP \o <<"/">>) \o Q
<1>1. /\ A \in Text /\ H \in Text /\ Q \in Text /\ u.port \in Int
      /\ u = [scheme |-> A, host |-> H, port |-> u.port, path |-> Q, valid |-> u.valid]
  BY DEF URLs
<1>2. /\ u.port \in Nat /\ PortInRange(u.port) /\ u.port <= MaxInt /\ ~Has(A, Separator)
      /\ ~Has(H, <<":">>) /\ ~Has(H, <<"/">>)
  BY <1>1, URLAssumption DEF Sound, PortInRange
<1>. DEFINE I == Itoa(u.port)
<1>3. I \in Text /\ AllDigits(I) /\ Atoi(I) = u.port
  BY Zenon, <1>2, AtoiItoa
<1>4. /\ ":" \in Char /\ "/" \in Char /\ <<":">> \in Text /\ <<"/">> \in Text /\ <<>> \in Text
  BY Letters DEF Text
<1>5. (P = <<>> /\ u.port = DefaultPort) \/ P = <<":">> \o I
  BY Zenon DEF PortText
<1>6. P \in Text /\ ~Has(P, <<"/">>)
  <2>1. ~Has(<<>>, <<"/">>)
    <3>1. Len(<<>>) = 0 /\ 1..0 = {}
      OBVIOUS
    <3>. QED  BY Zenon, <1>4, <3>1, HasFacts
  <2>2. ~Has(<<":">>, <<"/">>)
    <3>1. \A i \in 1..Len(<<":">>) : <<":">>[i] # "/"
      OBVIOUS
    <3>. QED  BY Zenon, <1>4, <3>1, HasFacts
  <2>3. ~Has(I, <<"/">>)
    <3>. HIDE DEF I
    <3>1. "/" \in {":", "/"}
      BY Zenon
    <3>. QED  BY Zenon, <1>3, <3>1, DigitsHaveNone
  <2>. HIDE DEF I, P
  <2>4. <<":">> \o I \in Text /\ ~Has(<<":">> \o I, <<"/">>)
    BY Zenon, <1>3, <1>4, <2>2, <2>3, Joined, JoinedHasNone
  <2>. QED  BY Zenon, <1>4, <1>5, <2>1, <2>4
<1>. HIDE DEF A, H, P, Q, I
<1>7. HP \in Text /\ ~Has(HP, <<"/">>)
  BY Zenon, <1>1, <1>2, <1>4, <1>6, Joined, JoinedHasNone
<1>8. toString(u) = (A \o Separator) \o R
  <2>. DEFINE AS == A \o Separator
              HL == HP \o <<"/">>
  <2>1. AS \in Text
    BY Zenon, <1>1, SeparatorFacts, Joined
  <2>2. HL \in Text
    <3>. HIDE DEF HP
    <3>. QED  BY Zenon, <1>4, <1>7, Joined
  <2>3. toString(u) = (((AS \o H) \o P) \o <<"/">>) \o Q
    BY Zenon DEF toString, A, H, P, Q
  <2>. HIDE DEF AS
  <2>4. (AS \o H) \o P = AS \o HP
    BY Zenon, <1>1, <1>6, <2>1, Associative
  <2>. HIDE DEF HP
  <2>5. (AS \o HP) \o <<"/">> = AS \o HL
    BY Zenon, <1>4, <1>7, <2>1, Associative
  <2>. HIDE DEF HL
  <2>6. (AS \o HL) \o Q = AS \o (HL \o Q)
    BY Zenon, <1>1, <2>1, <2>2, Associative
  <2>. QED  BY Zenon, <2>3, <2>4, <2>5, <2>6 DEF AS, HL
<1>9. R \in Text
  <2>. HIDE DEF HP
  <2>. QED  BY Zenon, <1>1, <1>4, <1>7, Joined
<1>. DEFINE a == SplitScheme(toString(u))
            b == SplitPath(a.rest)
            c == SplitPort(b.rest)
<1>. HIDE DEF HP
<1>10. a.scheme = A /\ a.rest = R
  <2>. HIDE DEF R
  <2>. QED  BY Zenon, <1>1, <1>2, <1>8, <1>9, SchemeFound
<1>11. b.path = Q /\ b.rest = HP
  <2>1. SplitPath(R).path = Q /\ SplitPath(R).rest = HP
    BY Zenon, <1>1, <1>7, PathFound
  <2>. HIDE DEF R, a
  <2>. QED  BY Zenon, <1>10, <2>1
<1>12. SplitPort(HP).port = u.port /\ SplitPort(HP).rest = H
  <2>1. CASE P = <<>> /\ u.port = DefaultPort
    <3>1. HP = H
      BY <1>1, <2>1 DEF HP, Text
    <3>. QED  BY Zenon, <1>2, <2>1, <3>1 DEF SplitPort
  <2>2. CASE P = <<":">> \o I
    <3>1. HP = (H \o <<":">>) \o I
      BY Zenon, <1>1, <1>3, <1>4, <2>2, Associative DEF HP
    <3>2. ~Has(I, <<":">>)
      <4>1. ":" \in {":", "/"}
        BY Zenon
      <4>. QED  BY Zenon, <1>3, <4>1, DigitsHaveNone
    <3>3. /\ SplitPort((H \o <<":">>) \o I).port = Atoi(I)
          /\ SplitPort((H \o <<":">>) \o I).rest = H
      BY Zenon, <1>1, <1>3, <3>2, PortFound
    <3>. QED  BY Zenon, <1>3, <3>1, <3>3
  <2>. QED  BY Zenon, <1>5, <2>1, <2>2
<1>13. c.port = u.port /\ c.rest = H
  <2>. HIDE DEF a, b
  <2>. QED  BY Zenon, <1>11, <1>12
<1>14. Parsed(toString(u)) =
          [scheme |-> a.scheme, host |-> c.rest, port |-> c.port, path |-> b.path,
           valid |-> PortInRange(c.port) /\ ~Has(c.rest, <<":">>)]
  BY Zenon DEF Parsed
<1>. HIDE DEF a, b, c
<1>15. (PortInRange(c.port) /\ ~Has(c.rest, <<":">>)) = TRUE
  BY Zenon, <1>2, <1>13
<1>16. Parsed(toString(u)) =
          [scheme |-> A, host |-> H, port |-> u.port, path |-> Q, valid |-> TRUE]
  BY Zenon, <1>10, <1>11, <1>13, <1>14, <1>15
<1>. QED  BY Zenon, <1>16, MadeValid DEF A, H, Q

LEMMA SpelledAlike ==
    ASSUME NEW u \in URLs, NEW v \in URLs, Sound(u), Sound(v)
    PROVE  Equal(u, v) <=> [u EXCEPT !.valid = v.valid] = v
<1>1. ASSUME Equal(u, v) PROVE [u EXCEPT !.valid = v.valid] = v
  <2>1. [u EXCEPT !.valid = TRUE] = [v EXCEPT !.valid = TRUE]
    BY Zenon, <1>1, Restored DEF Equal
  <2>. QED  BY <2>1 DEF URLs
<1>2. ASSUME [u EXCEPT !.valid = v.valid] = v PROVE Equal(u, v)
  <2>1. u.scheme = v.scheme /\ u.host = v.host /\ u.port = v.port /\ u.path = v.path
    BY <1>2 DEF URLs
  <2>. QED  BY Zenon, <2>1 DEF Equal, toString, PortText
<1>. QED  BY Zenon, <1>1, <1>2

(******************************************************************************)
(* The life of an object                                                      *)
(******************************************************************************)
\* The objects have parts, and one that was parsed and not changed since has
\* those of its text.
URLInv ==
    /\ url \in URLs /\ other \in URLs /\ text \in Text
    /\ phase = "parsed" => url = Parsed(text)

LEMMA InvInit == Init => URLInv
<1>. SUFFICES ASSUME Init PROVE URLInv
  BY Zenon
<1>1. <<>> \in Text /\ 0 \in Int /\ DefaultPort \in Int
  BY URLAssumption DEF Text
<1>2. url \in URLs
  BY <1>1 DEF Init, URLs
<1>. QED  BY <1>1, <1>2 DEF Init, URLInv

LEMMA EditKeeps ==
    ASSUME URLInv, NEW u \in URLs, Edited(u)
    PROVE  URLInv'
<1>1. phase' = "copied" /\ url' = u /\ other' = other /\ text' = text
  BY Zenon DEF Edited
<1>. QED  BY <1>1 DEF URLInv

LEMMA InvStep == URLInv /\ [Next]_vars => URLInv'
<1>. SUFFICES ASSUME URLInv, [Next]_vars PROVE URLInv'
  BY Zenon
<1>1. ASSUME NEW s \in Inputs, Parse(s) PROVE URLInv'
  <2>1. s \in Text
    BY Zenon, URLAssumption DEF Text
  <2>. QED  BY Zenon, <1>1, <2>1, ParsedFacts DEF Parse, URLInv
<1>2. ASSUME Assign PROVE URLInv'
  BY <1>2 DEF Assign, URLInv
<1>3. ASSUME NEW s \in Names, SetScheme(s) \/ SetHost(s) \/ SetPath(s) PROVE URLInv'
  <2>1. s \in Text
    BY Zenon, URLAssumption DEF Text
  <2>2. /\ [url EXCEPT !.scheme = s] \in URLs
        /\ [url EXCEPT !.host = s] \in URLs
        /\ [url EXCEPT !.path = s] \in URLs
    BY <2>1 DEF URLInv, URLs
  <2>. QED  BY Zenon, <1>3, <2>2, EditKeeps DEF SetScheme, SetHost, SetPath
<1>4. ASSUME NEW n \in Ports, SetPort(n) PROVE URLInv'
  <2>1. n \in Int
    BY Zenon, URLAssumption
  <2>2. [url EXCEPT !.port = n] \in URLs
    BY <2>1 DEF URLInv, URLs
  <2>. QED  BY Zenon, <1>4, <2>2, EditKeeps DEF SetPort
<1>5. CASE UNCHANGED vars
  BY Zenon, <1>5 DEF vars, URLInv
<1>. QED  BY Zenon, <1>1, <1>2, <1>3, <1>4, <1>5 DEF Next

LEMMA InvInductive == Spec => []URLInv
  BY InvInit, InvStep, PTL DEF Spec

\* After parse() of any text, valid() says whether the parts that were found are
\* ones that a text can spell, whatever number atoi() has made of the port.
THEOREM ValidAlwaysMeansSound == Spec => []ValidMeansSound
<1>1. URLInv => ValidMeansSound
  BY Zenon, ValidSound DEF URLInv, ValidMeansSound
<1>. QED  BY <1>1, InvInductive, PTL

\* Any text, however long and whether valid or not, is a spelling of the parts
\* that parse() has found in it.
THEOREM ParseAlwaysKeepsText == Spec => []ParseKeepsText
<1>1. URLInv => ParseKeepsText
  BY Zenon, ParsedSpells DEF URLInv, ParseKeepsText
<1>. QED  BY <1>1, InvInductive, PTL

\* parse(toString()) restores every sound object, of whatever parts, those that
\* were changed through the accessors' references included.
THEOREM AlwaysRoundTrips == Spec => []RoundTrip
<1>1. URLInv => RoundTrip
  BY Zenon, Restored DEF URLInv, RoundTrip
<1>. QED  BY <1>1, InvInductive, PTL

\* operator== tells any two sound objects apart that differ in a part.
THEOREM EqualAlwaysMeansSame == Spec => []EqualMeansSame
<1>1. URLInv => EqualMeansSame
  BY Zenon, SpelledAlike DEF URLInv, EqualMeansSame
<1>. QED  BY <1>1, InvInductive, PTL
================================================================================
