------------------------- MODULE ContentLengthProofs -------------------------
(***************************************************************************)
(* What std::stoi makes of a Content-Length, for every text: it reads n    *)
(* exactly where n is written, and the parser throws where no int is.      *)
(***************************************************************************)
EXTENDS RequestReader, IndexFacts, SequenceTheorems

-----------------------------------------------------------------------------
(* The least and the greatest index.                                       *)

\* Min and Max of sets of indices.
LEMMA MinFacts ==
  ASSUME NEW T \in SUBSET Nat, T # {}
  PROVE  Min(T) \in T /\ \A j \in T : Min(T) <= j
<1>1. \E i \in T : \A j \in T : i <= j
  BY LeastIndex
<1> QED
  BY <1>1 DEF Min

LEMMA MinIs ==
  ASSUME NEW T \in SUBSET Nat, NEW i \in T, \A j \in T : i <= j
  PROVE  T # {} /\ Min(T) = i
<1>1. Min(T) \in T /\ \A j \in T : Min(T) <= j
  BY MinFacts
<1>2. Min(T) \in Nat /\ i \in Nat /\ Min(T) <= i /\ i <= Min(T)
  BY <1>1
<1> QED
  BY <1>2

LEMMA MaxFacts ==
  ASSUME NEW n \in Nat, NEW T \in SUBSET (0 .. n), T # {}
  PROVE  Max(T) \in T /\ \A j \in T : j <= Max(T)
<1>1. \E i \in T : \A j \in T : j <= i
  BY GreatestIndex
<1>2. \E i \in T : \A j \in T : i >= j
  BY <1>1
<1> QED
  BY <1>2 DEF Max

LEMMA MaxIs ==
  ASSUME NEW n \in Nat, NEW T \in SUBSET (0 .. n), NEW i \in T, \A j \in T : j <= i
  PROVE  T # {} /\ Max(T) = i
<1>1. \A j \in T : j \in Nat
  OBVIOUS
<1>2. PICK m \in T : m = Max(T) /\ \A j \in T : j <= m
  BY MaxFacts
<1>3. m <= i /\ i <= m /\ m \in Nat /\ i \in Nat
  BY <1>1, <1>2
<1>4. m = i
  BY <1>3
<1> QED
  BY <1>2, <1>4

-----------------------------------------------------------------------------
(* Reading a number: the digits a text begins with, and the value of each  *)
(* of their beginnings.                                                    *)

Digits == DOMAIN DigitValue
IsRun(text, k) ==
  /\ k \in 0 .. Len(text) /\ \A i \in 1 .. k : text[i] \in Digits
  /\ k = Len(text) \/ text[k + 1] \notin Digits
Values(f, text, k) ==
  /\ f[0] = 0 /\ \A n \in 0 .. k : f[n] \in Nat
  /\ \A n \in 1 .. k : f[n] = 10 * f[n - 1] + DigitValue[text[n]]

\* A digit is worth 0 to 9.
LEMMA DigitFacts == \A t \in Digits : DigitValue[t] \in 0 .. 9
BY DEF Digits, DigitValue

\* The digits a text begins with end in one place.
LEMMA SameRun ==
  ASSUME NEW text, NEW k, NEW j, Len(text) \in Nat, IsRun(text, k), IsRun(text, j)
  PROVE  k = j
<1>1. k \in Nat /\ j \in Nat /\ k <= Len(text) /\ j <= Len(text)
  BY DEF IsRun
<1>2. ASSUME k < j PROVE FALSE
  <2>1. k + 1 \in 1 .. j /\ k # Len(text)
    BY <1>1, <1>2
  <2> QED
    BY <2>1 DEF IsRun
<1>3. ASSUME j < k PROVE FALSE
  <2>1. j + 1 \in 1 .. k /\ j # Len(text)
    BY <1>1, <1>3
  <2> QED
    BY <2>1 DEF IsRun
<1> QED
  BY <1>1, <1>2, <1>3

\* Magnitude is the last of the values of the digits.
LEMMA MagnitudeFacts ==
  ASSUME NEW v \in Seq(Tokens)
  PROVE  \E k \in 0 .. Len(v) : IsRun(v, k) /\ \E f : Values(f, v, k) /\ Magnitude(v) = f[k]
<1> DEFINE others == {i \in 1 .. Len(v) : v[i] \notin DOMAIN DigitValue}
           stop == IF others # {} THEN Min(others) ELSE 0
           digits == IF stop = 0 THEN Len(v) ELSE stop - 1
           Equation(f, k) ==
             f = [n \in 0 .. k |-> IF n = 0 THEN 0 ELSE 10 * f[n - 1] + DigitValue[v[n]]]
           number == CHOOSE f : Equation(f, digits)
<1>1. Magnitude(v) = number[digits]
  BY DEF Magnitude, SelectInSeq
<1>2. IsRun(v, digits)
  <2>1. others \in SUBSET Nat /\ Len(v) \in Nat /\ others \subseteq 1 .. Len(v)
    OBVIOUS
  <2>2. others # {} => Min(others) \in others /\ \A j \in others : Min(others) <= j
    <3> HIDE DEF others
    <3> QED
      BY <2>1, MinFacts
  <2>3. /\ digits \in 0 .. Len(v) /\ \A i \in 1 .. digits : i \in 1 .. Len(v) /\ i \notin others
        /\ digits = Len(v) \/ digits + 1 \in others
    <3> HIDE DEF others
    <3>1. CASE others = {}
      BY <2>1, <3>1
    <3>2. CASE others # {}
      <4>1. Min(others) \in 1 .. Len(v)
        BY <2>1, <2>2, <3>2
      <4>2. stop = Min(others)
        BY <3>2
      <4>3. stop # 0
        BY <4>1, <4>2
      <4>4. digits = Min(others) - 1
        BY <4>2, <4>3
      <4> HIDE DEF digits
      <4> QED
        BY <2>1, <2>2, <3>2, <4>1, <4>4
    <3> QED
      BY <3>1, <3>2
  <2> HIDE DEF digits
  <2>4. \A i \in 1 .. digits : v[i] \in Digits
    BY <2>3 DEF Digits
  <2>5. digits + 1 \in others => v[digits + 1] \notin Digits
    BY DEF Digits
  <2> HIDE DEF others
  <2> QED
    BY <2>3, <2>4, <2>5 DEF IsRun
<1> HIDE DEF digits
<1>3. digits \in 0 .. Len(v) /\ digits \in Nat /\ \A i \in 1 .. digits : DigitValue[v[i]] \in Nat
  BY <1>2, DigitFacts DEF IsRun
<1> DEFINE K == {k \in Nat : k > digits \/ \E f : Equation(f, k) /\ \A n \in 0 .. k : f[n] \in Nat}
<1>4. 0 \in K
  <2> DEFINE f == [n \in 0 .. 0 |-> 0]
  <2>1. Equation(f, 0) /\ \A n \in 0 .. 0 : f[n] \in Nat
    OBVIOUS
  <2> QED
    BY <2>1
<1>5. ASSUME NEW k \in K
      PROVE  k + 1 \in K
  <2>1. CASE k + 1 > digits
    BY <2>1
  <2>2. CASE k + 1 <= digits
    <3>1. PICK f : Equation(f, k) /\ \A n \in 0 .. k : f[n] \in Nat
      BY <1>3, <2>2
    <3>2. DigitValue[v[k + 1]] \in Nat
      BY <1>3, <2>2
    <3> DEFINE g == [n \in 0 .. k + 1 |-> IF n = k + 1 THEN 10 * f[k] + DigitValue[v[k + 1]] ELSE f[n]]
    <3>3. \A n \in 0 .. k + 1 : g[n] \in Nat
      BY <3>1, <3>2
    <3>4. \A n \in 0 .. k : f[n] = IF n = 0 THEN 0 ELSE 10 * f[n - 1] + DigitValue[v[n]]
      BY <3>1
    <3>5. \A n \in 0 .. k + 1 : g[n] = IF n = 0 THEN 0 ELSE 10 * g[n - 1] + DigitValue[v[n]]
      BY <3>4
    <3>6. Equation(g, k + 1)
      BY <3>5
    <3> HIDE DEF g, Equation
    <3>7. \E h : Equation(h, k + 1) /\ \A n \in 0 .. k + 1 : h[n] \in Nat
      BY <3>3, <3>6
    <3> QED
      BY <3>7
  <2> QED
    BY <1>3, <2>1, <2>2
<1>6. digits \in K
  <2>1. K \in SUBSET Nat
    OBVIOUS
  <2>2. \A k \in K : k + 1 \in K
    <3> HIDE DEF K
    <3> QED
      BY <1>5
  <2> HIDE DEF K
  <2>3. K = Nat
    BY <1>4, <2>1, <2>2, SetInduction
  <2>4. digits \in Nat
    BY <1>3
  <2> QED
    BY <2>3, <2>4
<1>7. \E f : Equation(f, digits)
  BY <1>3, <1>6
<1>8. Equation(number, digits)
  BY <1>7
<1> HIDE DEF number
<1>9. /\ number[0] = 0
      /\ \A n \in 1 .. digits : number[n] = 10 * number[n - 1] + DigitValue[v[n]]
  BY <1>3, <1>8
<1> DEFINE N == {n \in Nat : n > digits \/ number[n] \in Nat}
<1>10. 0 \in N /\ \A n \in N : n + 1 \in N
  <2>1. ASSUME NEW n \in Nat, n + 1 <= digits, number[n] \in Nat
        PROVE  number[n + 1] \in Nat
    <3>1. n + 1 \in 1 .. digits /\ n + 1 - 1 = n
      BY <1>3, <2>1
    <3>2. number[n + 1] = 10 * number[n] + DigitValue[v[n + 1]] /\ DigitValue[v[n + 1]] \in Nat
      BY <1>3, <1>9, <3>1
    <3> QED
      BY <2>1, <3>2
  <2> QED
    BY <1>3, <1>9, <2>1
<1>11. N = Nat
  <2>1. N \in SUBSET Nat
    OBVIOUS
  <2> HIDE DEF N
  <2> QED
    BY <1>10, <2>1, SetInduction
<1>12. Values(number, v, digits)
  <2>1. \A n \in 0 .. digits : number[n] \in Nat
    <3>1. N = Nat
      BY <1>11
    <3> QED
      BY <1>3, <3>1
  <2> QED
    BY <1>9, <2>1 DEF Values
<1> HIDE DEF Values
<1> QED
  BY <1>1, <1>2, <1>3, <1>12

-----------------------------------------------------------------------------
(* Writing a number: what is left of it without its last digits.           *)

\* One decimal digit more or less.
LEMMA DivFacts ==
  ASSUME NEW n \in Nat
  PROVE  /\ n \div 10 \in Nat /\ n = 10 * (n \div 10) + (n % 10)
         /\ \A a \in Nat : \A d \in 0 .. 9 : n = 10 * a + d => n \div 10 = a /\ n % 10 = d
<1>1. n \div 10 \in Nat /\ n = 10 * (n \div 10) + (n % 10)
  OBVIOUS
<1>2. ASSUME NEW a \in Nat, NEW d \in 0 .. 9, n = 10 * a + d
      PROVE  n \div 10 = a /\ n % 10 = d
  <2>1. n \div 10 = a
    BY <1>2
  <2>2. n % 10 = d
    BY <1>2
  <2> QED
    BY <2>1, <2>2
<1> QED
  BY <1>1, <1>2

\* The steps of Left: one digit less each time.
Lefts(f, n, k) ==
  /\ f[0] = n /\ \A j \in 0 .. k : f[j] \in Nat
  /\ \A j \in 1 .. k : f[j] = f[j - 1] \div 10

\* Left has such steps: by induction on their number.
LEMMA LeftSteps ==
  ASSUME NEW n \in Nat, NEW m \in Nat
  PROVE  \E f : Lefts(f, n, m) /\ Left(n, m) = f[m]
<1> DEFINE Equation(f, k) == f = [j \in 0 .. k |-> IF j = 0 THEN n ELSE f[j - 1] \div 10]
           left == CHOOSE f : Equation(f, m)
           K == {k \in Nat : \E f : Equation(f, k) /\ \A j \in 0 .. k : f[j] \in Nat}
<1>1. Left(n, m) = left[m]
  BY DEF Left
<1>2. 0 \in K
  <2> DEFINE f == [j \in 0 .. 0 |-> n]
  <2>1. Equation(f, 0) /\ \A j \in 0 .. 0 : f[j] \in Nat
    OBVIOUS
  <2> QED
    BY <2>1
<1>3. ASSUME NEW k \in K
      PROVE  k + 1 \in K
  <2>1. k \in Nat
    OBVIOUS
  <2>2. PICK f : Equation(f, k) /\ \A j \in 0 .. k : f[j] \in Nat
    OBVIOUS
  <2> DEFINE g == [j \in 0 .. k + 1 |-> IF j = k + 1 THEN f[k] \div 10 ELSE f[j]]
  <2>3. f[k] \div 10 \in Nat
    BY <2>1, <2>2, DivFacts
  <2>4. \A j \in 0 .. k + 1 : g[j] \in Nat
    BY <2>2, <2>3
  <2>5. \A j \in 0 .. k : f[j] = IF j = 0 THEN n ELSE f[j - 1] \div 10
    BY <2>2
  <2>6. \A j \in 0 .. k + 1 : g[j] = IF j = 0 THEN n ELSE g[j - 1] \div 10
    BY <2>1, <2>5
  <2>7. Equation(g, k + 1)
    BY <2>6
  <2> HIDE DEF g, Equation
  <2>8. \E h : Equation(h, k + 1) /\ \A j \in 0 .. k + 1 : h[j] \in Nat
    BY <2>4, <2>7
  <2> QED
    BY <2>1, <2>8
<1>4. K = Nat
  <2>1. K \in SUBSET Nat /\ \A k \in K : k + 1 \in K
    <3>1. K \in SUBSET Nat
      OBVIOUS
    <3> HIDE DEF K
    <3> QED
      BY <1>3, <3>1
  <2> HIDE DEF K
  <2> QED
    BY <1>2, <2>1, SetInduction
<1>5. \E f : Equation(f, m)
  <2>1. m \in K
    <3> HIDE DEF K
    <3> QED
      BY <1>4
  <2> QED
    BY <2>1
<1>6. Equation(left, m)
  BY <1>5
<1> HIDE DEF left
<1>7. left[0] = n /\ \A j \in 1 .. m : left[j] = left[j - 1] \div 10
  BY <1>6
<1> DEFINE N == {j \in Nat : j > m \/ left[j] \in Nat}
<1>8. N = Nat
  <2>1. 0 \in N
    BY <1>7
  <2>2. ASSUME NEW j \in N
        PROVE  j + 1 \in N
    <3>1. CASE j + 1 > m
      BY <3>1
    <3>2. CASE j + 1 <= m
      <4>1. left[j] \in Nat /\ j + 1 \in 1 .. m /\ j + 1 - 1 = j
        BY <3>2
      <4>2. left[j + 1] \in Nat
        BY <1>7, <4>1, DivFacts
      <4> QED
        BY <4>2
    <3> QED
      BY <3>1, <3>2
  <2>3. N \in SUBSET Nat
    OBVIOUS
  <2> HIDE DEF N
  <2> QED
    BY <2>1, <2>2, <2>3, SetInduction
<1>9. Lefts(left, n, m)
  <2>1. \A j \in 0 .. m : left[j] \in Nat
    BY <1>8
  <2> QED
    BY <1>7, <2>1 DEF Lefts
<1> HIDE DEF Lefts
<1> QED
  BY <1>1, <1>9

\* Any list of steps gives the same.
LEMMA LeftIs ==
  ASSUME NEW n \in Nat, NEW m \in Nat, NEW g, Lefts(g, n, m)
  PROVE  \A k \in 0 .. m : Left(n, k) = g[k]
<1> SUFFICES ASSUME NEW k \in 0 .. m PROVE Left(n, k) = g[k]
  OBVIOUS
<1>1. k \in Nat
  OBVIOUS
<1>2. PICK f : Lefts(f, n, k) /\ Left(n, k) = f[k]
  BY <1>1, LeftSteps
<1> DEFINE T == {j \in Nat : j > k \/ f[j] = g[j]}
<1>3. 0 \in T
  BY <1>2 DEF Lefts
<1>4. ASSUME NEW j \in T
      PROVE  j + 1 \in T
  <2>1. CASE j + 1 > k
    BY <2>1
  <2>2. CASE j + 1 <= k
    <3>1. f[j] = g[j] /\ j + 1 \in 1 .. k /\ j + 1 \in 1 .. m /\ j + 1 - 1 = j
      BY <2>2
    <3>2. f[j + 1] = g[j + 1]
      BY <1>2, <3>1 DEF Lefts
    <3> QED
      BY <3>2
  <2> QED
    BY <2>1, <2>2
<1>5. T = Nat
  <2>1. T \in SUBSET Nat
    OBVIOUS
  <2> HIDE DEF T
  <2> QED
    BY <1>3, <1>4, <2>1, SetInduction
<1> QED
  BY <1>1, <1>2, <1>5

\* Left, one digit at a time.
LEMMA LeftFacts ==
  ASSUME NEW n \in Nat, NEW m \in Nat
  PROVE  /\ Left(n, 0) = n /\ Left(n, m) \in Nat
         /\ Left(n, m + 1) = Left(n, m) \div 10
<1>1. PICK f : Lefts(f, n, m + 1)
  BY LeftSteps
<1>2. \A k \in 0 .. m + 1 : Left(n, k) = f[k]
  BY <1>1, LeftIs
<1>3. 0 \in 0 .. m + 1 /\ m \in 0 .. m + 1 /\ m + 1 \in 1 .. m + 1 /\ m + 1 - 1 = m
  OBVIOUS
<1> QED
  BY <1>1, <1>2, <1>3 DEF Lefts

-----------------------------------------------------------------------------
(* Reading and writing are inverse to one another.                         *)

\* The value of the first j digits of n is what is left without the others.
LEMMA Reads ==
  ASSUME NEW v, NEW k \in Nat, NEW f, Values(f, v, k), NEW n \in Nat,
         Left(n, k) = 0, \A j \in 1 .. k : DigitValue[v[j]] = Left(n, k - j) % 10
  PROVE  f[k] = n
<1> DEFINE T == {j \in Nat : j > k \/ f[j] = Left(n, k - j)}
<1>1. 0 \in T
  BY DEF Values
<1>2. ASSUME NEW j \in T
      PROVE  j + 1 \in T
  <2>1. CASE j + 1 > k
    BY <2>1
  <2>2. CASE j + 1 <= k
    <3> DEFINE r == k - (j + 1)
               left == Left(n, r)
    <3>1. /\ r \in Nat /\ r + 1 = k - j /\ j + 1 \in 1 .. k /\ j + 1 - 1 = j
          /\ f[j] = Left(n, k - j)
      BY <2>2
    <3>2. left \in Nat /\ Left(n, r + 1) = left \div 10
      <4> HIDE DEF r
      <4> QED
        BY <3>1, LeftFacts
    <3>3. f[j + 1] = 10 * f[j] + DigitValue[v[j + 1]]
      BY <3>1 DEF Values
    <3>4. DigitValue[v[j + 1]] = left % 10
      BY <3>1
    <3> HIDE DEF left
    <3>5. left = 10 * (left \div 10) + (left % 10)
      BY <3>2, DivFacts
    <3>6. f[j + 1] = left
      BY <3>1, <3>2, <3>3, <3>4, <3>5
    <3> QED
      BY <3>6 DEF left
  <2> QED
    BY <2>1, <2>2
<1>3. T = Nat
  <2>1. T \in SUBSET Nat
    OBVIOUS
  <2> HIDE DEF T
  <2> QED
    BY <1>1, <1>2, <2>1, SetInduction
<1>4. f[k] = Left(n, k - k)
  <2>1. k \in T
    <3> HIDE DEF T
    <3> QED
      BY <1>3
  <2> QED
    BY <2>1
<1> QED
  BY <1>4, LeftFacts

\* Without its last j digits the value of k digits is that of k - j.
LEMMA Writes ==
  ASSUME NEW v, NEW k \in Nat, NEW f, Values(f, v, k), \A j \in 1 .. k : v[j] \in Digits
  PROVE  /\ f[k] \in Nat /\ Left(f[k], k) = 0
         /\ \A j \in 1 .. k : DigitValue[v[j]] = Left(f[k], k - j) % 10
<1> DEFINE T == {j \in Nat : j > k \/ Left(f[k], j) = f[k - j]}
<1>1. f[k] \in Nat
  BY DEF Values
<1>2. 0 \in T
  <2>1. Left(f[k], 0) = f[k]
    BY <1>1, LeftFacts
  <2> QED
    BY <2>1
<1>3. ASSUME NEW j \in 1 .. k
      PROVE  f[j] \in Nat /\ f[j] \div 10 = f[j - 1] /\ f[j] % 10 = DigitValue[v[j]]
  <2>1. f[j] = 10 * f[j - 1] + DigitValue[v[j]] /\ f[j] \in Nat /\ f[j - 1] \in Nat
    BY DEF Values
  <2>2. DigitValue[v[j]] \in 0 .. 9
    BY DigitFacts
  <2> QED
    BY <2>1, <2>2, DivFacts
<1>4. ASSUME NEW j \in T
      PROVE  j + 1 \in T
  <2>1. CASE j + 1 > k
    BY <2>1
  <2>2. CASE j + 1 <= k
    <3>1. j \in Nat /\ k - j \in 1 .. k /\ k - j - 1 = k - (j + 1) /\ Left(f[k], j) = f[k - j]
      BY <2>2
    <3>2. Left(f[k], j + 1) = Left(f[k], j) \div 10
      BY <1>1, <3>1, LeftFacts
    <3>3. f[k - j] \div 10 = f[k - j - 1]
      BY <1>3, <3>1
    <3>4. Left(f[k], j + 1) = f[k - (j + 1)]
      BY <3>1, <3>2, <3>3
    <3> QED
      BY <3>4
  <2> QED
    BY <2>1, <2>2
<1>5. T = Nat
  <2>1. T \in SUBSET Nat
    OBVIOUS
  <2> HIDE DEF T
  <2> QED
    BY <1>2, <1>4, <2>1, SetInduction
<1>6. \A j \in 0 .. k : Left(f[k], j) = f[k - j]
  BY <1>5
<1>7. Left(f[k], k) = 0
  BY <1>6 DEF Values
<1>8. ASSUME NEW j \in 1 .. k
      PROVE  DigitValue[v[j]] = Left(f[k], k - j) % 10
  <2>1. k - j \in 0 .. k /\ k - (k - j) = j
    OBVIOUS
  <2>2. Left(f[k], k - j) = f[j]
    BY <1>6, <2>1
  <2> QED
    BY <1>3, <2>2
<1> QED
  BY <1>1, <1>7, <1>8

\* A text begins with n exactly if it begins with digits and they are read as n.
LEMMA BeginsFacts ==
  ASSUME NEW v \in Seq(Tokens), NEW n \in Nat
  PROVE  Begins(v, n) <=> v # <<>> /\ v[1] \in Digits /\ Magnitude(v) = n
<1>1. PICK k \in 0 .. Len(v) : IsRun(v, k) /\ \E f : Values(f, v, k) /\ Magnitude(v) = f[k]
  BY MagnitudeFacts
<1>2. PICK f : Values(f, v, k) /\ Magnitude(v) = f[k]
  BY <1>1
<1>3. Len(v) \in Nat /\ k \in Nat /\ (v # <<>> <=> Len(v) >= 1)
  OBVIOUS
<1>4. ASSUME Begins(v, n)
      PROVE  v # <<>> /\ v[1] \in Digits /\ Magnitude(v) = n
  <2>1. PICK j \in 1 .. Len(v) :
          /\ j = Len(v) \/ v[j + 1] \notin Digits
          /\ Left(n, j) = 0
          /\ \A i \in 1 .. j : v[i] \in Digits /\ DigitValue[v[i]] = Left(n, j - i) % 10
    BY <1>4 DEF Begins, Digits
  <2>2. IsRun(v, j)
    BY <1>3, <2>1 DEF IsRun
  <2>3. j = k
    BY <1>1, <1>3, <2>2, SameRun
  <2>4. f[k] = n
    BY <1>2, <1>3, <2>1, <2>3, Reads
  <2>5. 1 \in 1 .. j
    BY <1>3
  <2> QED
    BY <1>2, <1>3, <2>1, <2>4, <2>5
<1>5. ASSUME v # <<>>, v[1] \in Digits, Magnitude(v) = n
      PROVE  Begins(v, n)
  <2>1. k \in 1 .. Len(v)
    <3>1. k # 0
      BY <1>1, <1>3, <1>5 DEF IsRun
    <3> QED
      BY <1>3, <3>1
  <2>2. /\ \A j \in 1 .. k : v[j] \in Digits
        /\ k = Len(v) \/ v[k + 1] \notin Digits
    BY <1>1 DEF IsRun
  <2>3. /\ Left(n, k) = 0
        /\ \A j \in 1 .. k : DigitValue[v[j]] = Left(n, k - j) % 10
    <3>1. f[k] = n
      BY <1>2, <1>5
    <3>2. /\ Left(f[k], k) = 0
          /\ \A j \in 1 .. k : DigitValue[v[j]] = Left(f[k], k - j) % 10
      BY <1>2, <1>3, <2>2, Writes
    <3> QED
      BY <3>1, <3>2
  <2> QED
    BY <2>1, <2>2, <2>3 DEF Begins, Digits
<1> QED
  BY <1>4, <1>5

\* What is read is an integer, and a natural number without its sign.
LEMMA NumberType ==
  ASSUME NEW v \in Seq(Tokens)
  PROVE  Magnitude(v) \in Nat /\ Number(v) \in Int
<1>1. \A u \in Seq(Tokens) : Magnitude(u) \in Nat
  <2> SUFFICES ASSUME NEW u \in Seq(Tokens) PROVE Magnitude(u) \in Nat
    OBVIOUS
  <2>1. PICK k \in 0 .. Len(u) : IsRun(u, k) /\ \E f : Values(f, u, k) /\ Magnitude(u) = f[k]
    BY MagnitudeFacts
  <2>2. PICK f : Values(f, u, k) /\ Magnitude(u) = f[k]
    BY <2>1
  <2> QED
    BY <2>2 DEF Values
<1>2. Unsigned(v) \in Seq(Tokens)
  BY DEF Unsigned
<1>3. Magnitude(Unsigned(v)) \in Nat
  BY <1>1, <1>2
<1> QED
  BY <1>1, <1>3 DEF Number

\* std::stoi and the string constructor accept exactly the texts that say an
\* int from 0 on, and read what they say.
LEMMA SaysFacts ==
  ASSUME NEW v \in Seq(Chars)
  PROVE  /\ (\E n \in 0 .. MaxInt : Says(v, n)) <=> ~Throws(v)
         /\ \A n \in 0 .. MaxInt : Says(v, n) => Number(v) = n
<1>1. v \in Seq(Tokens) /\ (v # <<>> => v[1] \in Chars) /\ MaxInt \in Nat
  BY MaxIntAssumption DEF Tokens
<1>2. Number(v) \in Int /\ \A n \in 0 .. MaxInt : n \in Nat
  BY <1>1, NumberType
<1>3. CASE v = <<>>
  <2>1. \A n \in 0 .. MaxInt : ~Begins(v, n)
    BY <1>1, <1>2, <1>3, BeginsFacts
  <2> QED
    BY <1>3, <2>1 DEF Says, Throws, Unsigned
<1>4. CASE v # <<>> /\ v[1] \in Digits
  <2>1. v[1] \notin {"plus", "minus"}
    BY <1>4 DEF Digits, DigitValue
  <2>2. Unsigned(v) = v /\ Number(v) = Magnitude(v)
    BY <2>1 DEF Unsigned, Number
  <2>3. \A n \in 0 .. MaxInt : Says(v, n) <=> Number(v) = n
    BY <1>1, <1>2, <1>4, <2>1, <2>2, BeginsFacts DEF Says
  <2>4. Throws(v) <=> Number(v) \notin 0 .. MaxInt
    BY <1>4, <2>2 DEF Throws, Digits
  <2> QED
    BY <2>3, <2>4
<1>5. CASE v # <<>> /\ v[1] \in {"plus", "minus"}
  <2> DEFINE u == Tail(v)
  <2>1. v[1] \notin Digits
    BY <1>5 DEF Digits, DigitValue
  <2>2. u \in Seq(Tokens) /\ Unsigned(v) = u
    BY <1>1, <1>5 DEF Unsigned
  <2>3. Magnitude(u) \in Nat
    BY <2>2, NumberType
  <2>4. \A n \in 0 .. MaxInt : Begins(u, n) <=> u # <<>> /\ u[1] \in Digits /\ Magnitude(u) = n
    BY <1>2, <2>2, BeginsFacts
  <2>5. \A n \in 0 .. MaxInt : Says(v, n) <=> (v[1] = "plus" \/ n = 0) /\ Begins(u, n)
    BY <1>1, <1>2, <1>5, <2>1, BeginsFacts DEF Says
  <2>6. Number(v) = IF v[1] = "minus" THEN -Magnitude(u) ELSE Magnitude(u)
    BY <1>5, <2>2 DEF Number
  <2>7. Throws(v) <=> u = <<>> \/ u[1] \notin Digits \/ Number(v) \notin 0 .. MaxInt
    BY <2>2 DEF Throws, Digits
  <2> HIDE DEF u
  <2>8. CASE v[1] = "plus"
    BY <1>1, <2>3, <2>4, <2>5, <2>6, <2>7, <2>8
  <2>9. CASE v[1] = "minus"
    <3>1. \A n \in 0 .. MaxInt :
            Says(v, n) <=> n = 0 /\ u # <<>> /\ u[1] \in Digits /\ Magnitude(u) = n
      BY <2>4, <2>5, <2>9
    <3>2. Number(v) = -Magnitude(u) /\ 0 \in 0 .. MaxInt
      BY <1>1, <2>6, <2>9
    <3>3. Number(v) \in 0 .. MaxInt <=> Magnitude(u) = 0
      BY <1>1, <2>3, <3>2
    <3> QED
      BY <2>3, <2>7, <3>1, <3>2, <3>3
  <2> QED
    BY <1>5, <2>8, <2>9
<1>6. CASE v # <<>> /\ v[1] \notin Digits /\ v[1] \notin {"plus", "minus"}
  <2>1. Unsigned(v) = v
    BY <1>6 DEF Unsigned
  <2>2. \A n \in 0 .. MaxInt : ~Says(v, n)
    BY <1>1, <1>2, <1>6, BeginsFacts DEF Says
  <2> QED
    BY <1>6, <2>1, <2>2 DEF Throws, Digits
<1> QED
  BY <1>3, <1>4, <1>5, <1>6

\* What a message declares, as the client means it and as the parser reads it.
LEMMA SizeFacts ==
  ASSUME NEW m, Declared(m), LastLength(m) \in Seq(Chars)
  PROVE  /\ IsSize(m) <=> ~Throws(LastLength(m))
         /\ IsSize(m) => Size(m) = Number(LastLength(m)) /\ Size(m) \in Nat
<1>1. IsSize(m) <=> ~Throws(LastLength(m))
  BY SaysFacts DEF IsSize
<1>2. ASSUME IsSize(m)
      PROVE  Size(m) \in 0 .. MaxInt /\ Says(LastLength(m), Size(m))
  BY <1>2 DEF IsSize, Size
<1>3. IsSize(m) => Size(m) = Number(LastLength(m))
  BY <1>2, SaysFacts
<1> QED
  BY <1>1, <1>2, <1>3, MaxIntAssumption
=============================================================================
