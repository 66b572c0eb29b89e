----------------------------- MODULE LinkProofs -----------------------------
(***************************************************************************)
(* The line between host and module, for every value of the constants:     *)
(* what encode.rs writes decode.rs reads back (Codec), what is sent        *)
(* arrives, and a line that lost a byte is rejected, or read as Misread    *)
(* says (Link).  In this order: numbers, fields, lines; streams of lines;  *)
(* types; without loss; with one byte lost.                                *)
(***************************************************************************)
EXTENDS Link, SequenceTheorems, FiniteSetTheorems, WellFoundedInduction, TLAPS

-----------------------------------------------------------------------------
(* Recursive functions                                                     *)

\* A set of natural numbers has a least element: induction, as the absence of a
\* least counterexample.
LEMMA LeastNat ==
  ASSUME NEW T \in SUBSET Nat, T # {}
  PROVE  \E x \in T : \A y \in T : x <= y
PROOF
  <1> DEFINE R == OpToRel(<, Nat)
  <1>1. IsWellFoundedOn(R, Nat)
    BY NatLessThanWellFounded
  <1>2. \A x, y \in Nat : y < x => <<y, x>> \in R
    BY DEF OpToRel
  <1> HIDE DEF R
  <1>3. T \subseteq Nat
    OBVIOUS
  <1>4. PICK x \in T : \A y \in T : ~(<<y, x>> \in R)
    BY <1>1, <1>3, WFMin
  <1>5. \A y \in T : x <= y
    <2>1. SUFFICES ASSUME NEW y \in T PROVE x <= y
      OBVIOUS
    <2>2. x \in Nat /\ y \in Nat /\ ~(y < x)
      BY <1>2, <1>4
    <2> QED BY <2>2
  <1> QED BY <1>5

\* A value from the base by steps, each from the value at a smaller argument.
Recursive(V, base, prev, step) ==
  /\ base \in V
  /\ prev \in [Nat -> Nat] /\ \A k \in Nat \ {0} : prev[k] < k
  /\ step \in [Nat \X V -> V]

\* g is the function the step defines, up to n.
Approximates(g, n, V, base, prev, step) ==
  /\ g \in [0..n -> V] /\ g[0] = base
  /\ \A k \in 1..n : g[k] = step[<<k, g[prev[k]]>>]

\* The step leaves no choice.
LEMMA ApproximationsAgree ==
  ASSUME NEW V, NEW base, NEW prev, NEW step, Recursive(V, base, prev, step)
  PROVE  \A m, n \in Nat : \A g, h :
           /\ Approximates(g, m, V, base, prev, step)
           /\ Approximates(h, n, V, base, prev, step)
           => \A k \in Nat : k <= m /\ k <= n => g[k] = h[k]
PROOF
  <1> SUFFICES ASSUME NEW m \in Nat, NEW n \in Nat, NEW g, NEW h,
                      Approximates(g, m, V, base, prev, step),
                      Approximates(h, n, V, base, prev, step)
               PROVE  \A k \in Nat : k <= m /\ k <= n => g[k] = h[k]
    OBVIOUS
  <1> USE DEF Recursive
  <1> DEFINE T == {k \in Nat : k <= m /\ k <= n /\ g[k] # h[k]}
  <1>1. SUFFICES ASSUME T # {} PROVE FALSE
    BY <1>1
  <1>2. T \in SUBSET Nat
    OBVIOUS
  <1> HIDE DEF T
  <1>3. PICK x \in T : \A y \in T : x <= y
    BY <1>1, <1>2, LeastNat
  <1>4. x \in Nat /\ x <= m /\ x <= n /\ g[x] # h[x]
    BY DEF T
  <1>5. x # 0
    BY <1>4 DEF Approximates
  <1>6. x \in 1..m /\ x \in 1..n
    BY <1>4, <1>5
  <1>7. prev[x] \in Nat /\ prev[x] < x
    BY <1>4, <1>5
  <1>8. prev[x] \notin T
    BY <1>3, <1>4, <1>7
  <1>9. g[prev[x]] = h[prev[x]]
    BY <1>4, <1>7, <1>8 DEF T
  <1> QED BY <1>4, <1>6, <1>9 DEF Approximates

\* A step from a smaller argument defines a function on the natural numbers.
LEMMA Recursion ==
  ASSUME NEW V, NEW base, NEW prev, NEW step, Recursive(V, base, prev, step)
  PROVE  \E f \in [Nat -> V] :
           f[0] = base /\ \A k \in Nat \ {0} : f[k] = step[<<k, f[prev[k]]>>]
PROOF
  <1> DEFINE Appr(g, n) == Approximates(g, n, V, base, prev, step)
             T == {n \in Nat : ~\E g : Appr(g, n)}
  <1>0. \A m, n \in Nat : \A f1, f2 :
          /\ Approximates(f1, m, V, base, prev, step)
          /\ Approximates(f2, n, V, base, prev, step)
          => \A j \in Nat : j <= m /\ j <= n => f1[j] = f2[j]
    BY ApproximationsAgree
  <1> USE DEF Recursive
  <1>1. \A n \in Nat : \E g : Appr(g, n)
    <2>1. SUFFICES ASSUME T # {} PROVE FALSE
      BY <2>1
    <2>2. T \in SUBSET Nat
      OBVIOUS
    <2> HIDE DEF T
    <2>3. PICK x \in T : \A y \in T : x <= y
      BY <2>1, <2>2, LeastNat
    <2>4. x \in Nat /\ ~\E g : Appr(g, x)
      BY DEF T
    <2>5. x # 0
      <3>1. Appr([k \in 0..0 |-> base], 0)
        BY DEF Approximates
      <3> QED BY <2>4, <3>1
    <2>6. x - 1 \in Nat /\ x - 1 \notin T
      BY <2>3, <2>4, <2>5
    <2>7. PICK g : Appr(g, x - 1)
      BY <2>6 DEF T
    <2> DEFINE h == [k \in 0..x |-> IF k < x THEN g[k] ELSE step[<<x, g[prev[x]]>>]]
    <2>8. \A k \in 1..x : prev[k] \in 0..(x - 1) /\ prev[k] < k
      BY <2>4
    <2>9. g \in [0..(x - 1) -> V]
      BY <2>7 DEF Approximates
    <2>10. \A k \in 0..(x - 1) : k < x /\ k \in 0..x
      BY <2>4
    <2>11. h \in [0..x -> V]
      <3>1. x \in 1..x
        BY <2>4, <2>5
      <3>2. g[prev[x]] \in V
        BY <2>8, <2>9, <3>1
      <3>3. step[<<x, g[prev[x]]>>] \in V
        BY <2>4, <3>2
      <3>4. \A k \in 0..x : k < x => k \in 0..(x - 1)
        BY <2>4
      <3> QED BY <2>9, <3>3, <3>4
    <2>12. h[0] = base
      BY <2>4, <2>5, <2>7 DEF Approximates
    <2>13. ASSUME NEW k \in 1..x PROVE h[k] = step[<<k, h[prev[k]]>>]
      <3>1. h[prev[k]] = g[prev[k]]
        BY <2>8, <2>10
      <3>2. CASE k < x
        <4>1. k \in 1..(x - 1) /\ k \in 0..x
          BY <2>4, <3>2
        <4>2. g[k] = step[<<k, g[prev[k]]>>]
          BY <2>7, <4>1 DEF Approximates
        <4> QED BY <3>1, <3>2, <4>1, <4>2
      <3>3. CASE ~(k < x)
        <4>1. k = x /\ k \in 0..x
          BY <2>4, <3>3
        <4>2. h[x] = step[<<x, g[prev[x]]>>]
          BY <2>4, <4>1
        <4> QED BY <3>1, <4>1, <4>2
      <3> QED BY <3>2, <3>3
    <2> HIDE DEF h
    <2>14. Appr(h, x)
      BY <2>11, <2>12, <2>13 DEF Approximates
    <2> QED BY <2>4, <2>14
  <1> DEFINE G(n) == CHOOSE g : Appr(g, n)
             f == [n \in Nat |-> G(n)[n]]
  <1>2. \A n \in Nat : Appr(G(n), n)
    BY <1>1
  <1> HIDE DEF G
  <1>3. \A n \in Nat : n \in 0..n
    OBVIOUS
  <1>4. f \in [Nat -> V]
    <2>1. ASSUME NEW n \in Nat PROVE G(n)[n] \in V
      BY <1>2, <1>3 DEF Approximates
    <2> QED BY <2>1
  <1>5. f[0] = base
    BY <1>2 DEF Approximates
  <1>6. ASSUME NEW k \in Nat \ {0} PROVE f[k] = step[<<k, f[prev[k]]>>]
    <2>1. k \in 1..k /\ prev[k] \in Nat /\ prev[k] < k
      OBVIOUS
    <2>2. G(k)[k] = step[<<k, G(k)[prev[k]]>>]
      BY <1>2, <2>1 DEF Approximates
    <2>3. Appr(G(k), k) /\ Appr(G(prev[k]), prev[k])
      BY <1>2, <2>1
    <2> HIDE DEF Appr
    <2>4. G(k)[prev[k]] = G(prev[k])[prev[k]]
      <3> DEFINE p == prev[k]
                 g1 == G(k)
                 g2 == G(p)
      <3>1. p \in Nat /\ k \in Nat /\ p <= k /\ p <= p
        BY <2>1
      <3>2. Approximates(g1, k, V, base, prev, step) /\ Approximates(g2, p, V, base, prev, step)
        BY <2>3 DEF Appr
      <3> HIDE DEF p, g1, g2
      <3>3. g1[p] = g2[p]
        BY <1>0, <3>1, <3>2
      <3> QED BY <3>3 DEF p, g1, g2
    <2> QED BY <2>1, <2>2, <2>4
  <1> HIDE DEF f
  <1> QED BY <1>4, <1>5, <1>6

-----------------------------------------------------------------------------
(* Numbers in decimal                                                      *)

\* A digit and its value determine each other.
LEMMA DigitValues ==
  /\ \A k \in 0..9 : DIGITS[k + 1] \in Digit /\ DigitValue[DIGITS[k + 1]] = k
  /\ \A d \in Digit : DigitValue[d] \in 0..9 /\ DIGITS[DigitValue[d] + 1] = d
PROOF
  <1>1. \A i, j \in 1..10 : DIGITS[i] = DIGITS[j] => i = j
    BY DEF DIGITS
  <1>2. ASSUME NEW k \in 0..9
        PROVE  DIGITS[k + 1] \in Digit /\ DigitValue[DIGITS[k + 1]] = k
    <2>1. k + 1 \in 1..10
      OBVIOUS
    <2>2. DIGITS[k + 1] \in Digit
      BY <2>1 DEF Digit
    <2>3. \A j \in 0..9 : DIGITS[j + 1] = DIGITS[k + 1] => j = k
      BY <1>1, <2>1
    <2>4. (CHOOSE j \in 0..9 : DIGITS[j + 1] = DIGITS[k + 1]) = k
      BY <2>3
    <2> QED BY <2>2, <2>4 DEF DigitValue
  <1>3. ASSUME NEW d \in Digit
        PROVE  DigitValue[d] \in 0..9 /\ DIGITS[DigitValue[d] + 1] = d
    <2>1. PICK i \in 1..10 : d = DIGITS[i]
      BY DEF Digit
    <2>2. i - 1 \in 0..9 /\ d = DIGITS[(i - 1) + 1]
      BY <2>1
    <2> QED BY <1>2, <2>2
  <1> QED BY <1>2, <1>3

\* The digits of a number are those of its tenth part and one more.
LEMMA DecimalSteps ==
  \E f \in [Nat -> Seq(Digit)] :
    /\ f[0] = <<>>
    /\ \A m \in Nat \ {0} : f[m] = Append(f[m \div 10], DIGITS[(m % 10) + 1])
    /\ \A n \in Nat : Decimal(n) = IF n = 0 THEN <<"0">> ELSE f[n]
PROOF
  <1> DEFINE V == Seq(Digit)
             prev == [m \in Nat |-> m \div 10]
             step == [p \in Nat \X V |-> Append(p[2], DIGITS[(p[1] % 10) + 1])]
             F(f) == [m \in Nat |-> IF m = 0 THEN <<>>
                                    ELSE Append(f[m \div 10], DIGITS[(m % 10) + 1])]
  <1>1. \A m \in Nat : m \div 10 \in Nat /\ (m # 0 => m \div 10 < m) /\ m % 10 \in 0..9
    OBVIOUS
  <1>2. \A m \in Nat : DIGITS[(m % 10) + 1] \in Digit
    BY <1>1, DigitValues
  <1>3. Recursive(V, <<>>, prev, step)
    <2>1. <<>> \in V
      OBVIOUS
    <2>2. prev \in [Nat -> Nat] /\ \A k \in Nat \ {0} : prev[k] < k
      BY <1>1
    <2>3. step \in [Nat \X V -> V]
      <3>1. ASSUME NEW p \in Nat \X V
            PROVE  Append(p[2], DIGITS[(p[1] % 10) + 1]) \in V
        <4>1. p[1] \in Nat /\ p[2] \in Seq(Digit)
          OBVIOUS
        <4> QED BY <1>2, <4>1, AppendProperties
      <3> QED BY <3>1
    <2> QED BY <2>1, <2>2, <2>3 DEF Recursive
  <1>4. \A k \in Nat, v \in V : step[<<k, v>>] = Append(v, DIGITS[(k % 10) + 1])
    OBVIOUS
  <1>5. \A k \in Nat : prev[k] = k \div 10
    OBVIOUS
  <1> HIDE DEF V, prev, step
  <1>6. PICK f \in [Nat -> V] :
          f[0] = <<>> /\ \A k \in Nat \ {0} : f[k] = step[<<k, f[prev[k]]>>]
    BY <1>3, Recursion
  <1>7. \A m \in Nat \ {0} : f[m] = Append(f[m \div 10], DIGITS[(m % 10) + 1])
    BY <1>1, <1>4, <1>5, <1>6
  <1>8. f = F(f)
    BY <1>6, <1>7
  <1>9. ASSUME NEW g, g = F(g) PROVE g = f
    <2>1. /\ g[0] = <<>>
          /\ \A m \in Nat \ {0} : g[m] = Append(g[m \div 10], DIGITS[(m % 10) + 1])
          /\ g = [m \in Nat |-> g[m]]
      BY <1>9
    <2> DEFINE T == {m \in Nat : g[m] # f[m]}
    <2>2. SUFFICES ASSUME T # {} PROVE FALSE
      BY <1>6, <2>1
    <2>3. T \in SUBSET Nat
      OBVIOUS
    <2> HIDE DEF T
    <2>4. PICK x \in T : \A y \in T : x <= y
      BY <2>2, <2>3, LeastNat
    <2>5. x \in Nat /\ g[x] # f[x]
      BY DEF T
    <2>6. x # 0
      BY <1>6, <2>1, <2>5
    <2>7. x \div 10 \notin T /\ x \div 10 \in Nat
      BY <1>1, <2>4, <2>5, <2>6
    <2> QED BY <1>7, <2>1, <2>5, <2>6, <2>7 DEF T
  <1> HIDE DEF F
  <1>10. (CHOOSE g : g = F(g)) = f
    BY <1>8, <1>9
  <1>11. \A n \in Nat : Decimal(n) = IF n = 0 THEN <<"0">> ELSE f[n]
    <2>1. \A n \in Nat : Decimal(n) = IF n = 0 THEN <<"0">> ELSE (CHOOSE g : g = F(g))[n]
      BY Zenon DEF Decimal, F
    <2> QED BY <1>10, <2>1
  <1> QED BY <1>6, <1>7, <1>11 DEF V

\* A number of one digit, and one of more: the digits of its tenth part and one more.
LEMMA DecimalFacts ==
  /\ \A n \in Nat : Decimal(n) \in Seq(Digit) /\ Decimal(n) # <<>>
  /\ \A n \in 0..9 : Decimal(n) = <<DIGITS[n + 1]>>
  /\ \A n \in Nat : n >= 10 =>
       Decimal(n) = Append(Decimal(n \div 10), DIGITS[(n % 10) + 1])
PROOF
  <1>1. PICK f \in [Nat -> Seq(Digit)] :
          /\ f[0] = <<>>
          /\ \A m \in Nat \ {0} : f[m] = Append(f[m \div 10], DIGITS[(m % 10) + 1])
          /\ \A n \in Nat : Decimal(n) = IF n = 0 THEN <<"0">> ELSE f[n]
    BY DecimalSteps
  <1>2. DIGITS[1] = "0" /\ "0" \in Digit
    BY DEF DIGITS, Digit
  <1>3. ASSUME NEW n \in Nat PROVE Decimal(n) \in Seq(Digit) /\ Decimal(n) # <<>>
    <2>1. CASE n = 0
      <3>1. <<"0">> \in Seq(Digit) /\ <<"0">> # <<>>
        BY <1>2
      <3> QED BY <1>1, <2>1, <3>1
    <2>2. CASE n # 0
      <3>1. n \div 10 \in Nat /\ n % 10 \in 0..9
        OBVIOUS
      <3>2. f[n \div 10] \in Seq(Digit) /\ DIGITS[(n % 10) + 1] \in Digit
        BY <1>1, <3>1, DigitValues
      <3>3. ASSUME NEW t \in Seq(Digit), NEW d \in Digit PROVE Append(t, d) # <<>>
        <4> DEFINE a == Append(t, d)
        <4>1. Len(a) = Len(t) + 1 /\ Len(t) \in Nat
          BY AppendProperties, LenProperties
        <4>2. Len(<<>>) = 0
          BY EmptySeq
        <4> HIDE DEF a
        <4>3. a # <<>>
          BY <4>1, <4>2
        <4> QED BY <4>3 DEF a
      <3> QED BY <1>1, <2>2, <3>2, <3>3
    <2> QED BY <2>1, <2>2
  <1>4. ASSUME NEW n \in 0..9 PROVE Decimal(n) = <<DIGITS[n + 1]>>
    <2>1. CASE n = 0
      <3>1. n + 1 = 1 /\ n \in Nat
        BY <2>1
      <3>2. DIGITS[n + 1] = "0"
        BY <1>2, <3>1
      <3> QED BY <1>1, <2>1, <3>1, <3>2
    <2>2. CASE n # 0
      <3>1. n \div 10 = 0 /\ n % 10 = n /\ n \in Nat
        OBVIOUS
      <3>2. Decimal(n) = Append(<<>>, DIGITS[n + 1])
        BY <1>1, <2>2, <3>1
      <3> QED BY <3>2
    <2> QED BY <2>1, <2>2
  <1>5. ASSUME NEW n \in Nat, n >= 10
        PROVE  Decimal(n) = Append(Decimal(n \div 10), DIGITS[(n % 10) + 1])
    <2>1. n # 0 /\ n \div 10 \in Nat /\ n \div 10 # 0
      BY <1>5
    <2> QED BY <1>1, <2>1
  <1> QED BY <1>3, <1>4, <1>5

\* One more digit: the number it makes, or -1 if that is above the limit.
Extend(v, d, limit) == IF v = -1 \/ v > (limit - d) \div 10 THEN -1 ELSE 10 * v + d

\* u[i] is the number the first i digits stand for.
Reads(u, digits, limit) ==
  /\ u \in [0..Len(digits) -> Int] /\ u[0] = 0
  /\ \A i \in 1..Len(digits) : u[i] = Extend(u[i - 1], DigitValue[digits[i]], limit)

\* There is such a u, Value is its last one.
LEMMA ValueSteps ==
  ASSUME NEW digits \in Seq(Digit), NEW limit \in Nat
  PROVE  \E u : Reads(u, digits, limit) /\ Value(digits, limit) = u[Len(digits)]
PROOF
  <1> DEFINE N == Len(digits)
             prev == [i \in Nat |-> IF i = 0 THEN 0 ELSE i - 1]
             step == [p \in Nat \X Int |->
                        IF p[1] \in 1..N
                          THEN Extend(p[2], DigitValue[digits[p[1]]], limit) ELSE 0]
             F(u) == [i \in 0..N |-> IF i = 0 THEN 0
                                     ELSE Extend(u[i - 1], DigitValue[digits[i]], limit)]
  <1>1. N \in Nat /\ \A i \in 1..N : DigitValue[digits[i]] \in Int
    BY DigitValues, LenProperties, ElementOfSeq
  <1> DEFINE dv == [i \in 1..N |-> DigitValue[digits[i]]]
  <1>2. \A v \in Int, d \in Int : Extend(v, d, limit) \in Int
    BY DEF Extend
  <1>3. Recursive(Int, 0, prev, step)
    <2>1. prev \in [Nat -> Nat] /\ \A k \in Nat \ {0} : prev[k] < k
      OBVIOUS
    <2>2. ASSUME NEW p \in Nat \X Int
          PROVE  (IF p[1] \in 1..N
                    THEN Extend(p[2], DigitValue[digits[p[1]]], limit) ELSE 0) \in Int
      <3>1. p[2] \in Int
        OBVIOUS
      <3> DEFINE d == DigitValue[digits[p[1]]]
      <3>2. CASE p[1] \in 1..N
        <4>1. d \in Int
          BY <1>1, <3>2
        <4> HIDE DEF d, N
        <4>2. Extend(p[2], d, limit) \in Int
          BY <1>2, <3>1, <4>1
        <4> QED BY <3>2, <4>2 DEF d
      <3> QED BY <3>2
    <2>3. step \in [Nat \X Int -> Int]
      BY <2>2
    <2> QED BY <2>1, <2>3 DEF Recursive
  <1>4. \A i \in 1..N, v \in Int :
          step[<<i, v>>] = Extend(v, DigitValue[digits[i]], limit)
    BY <1>1
  <1>5. \A i \in 1..N : prev[i] = i - 1 /\ i - 1 \in Nat /\ i - 1 \in 0..N /\ i \in 0..N /\ i # 0
    BY <1>1
  <1> HIDE DEF N, prev, step
  <1>6. PICK f \in [Nat -> Int] :
          f[0] = 0 /\ \A k \in Nat \ {0} : f[k] = step[<<k, f[prev[k]]>>]
    BY <1>3, Recursion
  <1> DEFINE u == [i \in 0..N |-> f[i]]
  <1>7. u \in [0..N -> Int] /\ u[0] = 0
    BY <1>1, <1>6
  <1>8. ASSUME NEW i \in 1..N PROVE u[i] = Extend(u[i - 1], DigitValue[digits[i]], limit)
    <2>1. i \in Nat \ {0} /\ f[i - 1] \in Int
      BY <1>1, <1>5, <1>6
    <2>2. f[i] = step[<<i, f[i - 1]>>]
      BY <1>5, <1>6, <2>1
    <2>3. u[i] = f[i] /\ u[i - 1] = f[i - 1]
      BY <1>5
    <2> QED BY <1>4, <2>1, <2>2, <2>3
  <1> HIDE DEF u
  <1>9. u = F(u)
    BY <1>1, <1>7, <1>8
  <1>10. ASSUME NEW g, g = F(g) PROVE g = u
    <2>1. /\ g[0] = 0
          /\ \A i \in 1..N : g[i] = Extend(g[i - 1], DigitValue[digits[i]], limit)
          /\ g = [i \in 0..N |-> g[i]]
      <3> DEFINE e(i) == IF i = 0 THEN 0 ELSE Extend(g[i - 1], DigitValue[digits[i]], limit)
      <3>1. g = [i \in 0..N |-> e(i)]
        BY <1>10
      <3> HIDE DEF e
      <3>2. \A i \in 0..N : g[i] = e(i)
        BY <3>1
      <3>3. g = [i \in 0..N |-> g[i]]
        BY <3>1, <3>2
      <3>4. 0 \in 0..N
        BY <1>1
      <3> QED BY <1>5, <3>2, <3>3, <3>4 DEF e
    <2> DEFINE T == {i \in 0..N : g[i] # u[i]}
    <2>2. SUFFICES ASSUME T # {} PROVE FALSE
      BY <1>7, <2>1
    <2>3. T \in SUBSET Nat
      BY <1>1
    <2> HIDE DEF T
    <2>4. PICK x \in T : \A y \in T : x <= y
      BY <2>2, <2>3, LeastNat
    <2>5. x \in 0..N /\ g[x] # u[x]
      BY DEF T
    <2>6. x \in 1..N
      BY <1>1, <1>7, <2>1, <2>5
    <2>7. x - 1 \notin T /\ x - 1 \in 0..N
      BY <1>1, <2>4, <2>6
    <2>8. g[x - 1] = u[x - 1]
      BY <2>7 DEF T
    <2> QED BY <1>8, <2>1, <2>5, <2>6, <2>8
  <1> HIDE DEF F
  <1>11. (CHOOSE g : g = F(g)) = u
    BY <1>9, <1>10
  <1>12. Value(digits, limit) = (CHOOSE g : g = F(g))[N]
    BY Zenon DEF Value, F, N, Extend
  <1>13. Reads(u, digits, limit)
    BY <1>7, <1>8 DEF Reads, N
  <1> QED BY <1>11, <1>12, <1>13 DEF N

\* The numbers of a prefix do not depend on what follows it.
LEMMA ReadsAgree ==
  ASSUME NEW s \in Seq(Digit), NEW t \in Seq(Digit), NEW limit \in Nat, NEW u, NEW w,
         Reads(u, s, limit), Reads(w, t, limit),
         NEW n \in Nat, n <= Len(s), n <= Len(t), \A i \in 1..n : s[i] = t[i]
  PROVE  \A i \in 0..n : u[i] = w[i]
PROOF
  <1> DEFINE T == {i \in 0..n : u[i] # w[i]}
  <1>1. SUFFICES ASSUME T # {} PROVE FALSE
    OBVIOUS
  <1>2. T \in SUBSET Nat
    OBVIOUS
  <1> HIDE DEF T
  <1>3. PICK x \in T : \A y \in T : x <= y
    BY <1>1, <1>2, LeastNat
  <1>4. x \in 0..n /\ u[x] # w[x]
    BY DEF T
  <1>5. Len(s) \in Nat /\ Len(t) \in Nat
    BY LenProperties
  <1>6. x # 0
    BY <1>4 DEF Reads
  <1>7. x \in 1..n /\ x \in 1..Len(s) /\ x \in 1..Len(t)
    BY <1>4, <1>5, <1>6
  <1>8. x - 1 \in 0..n /\ x - 1 \notin T
    BY <1>3, <1>7
  <1>9. u[x - 1] = w[x - 1]
    BY <1>8 DEF T
  <1> QED BY <1>4, <1>7, <1>9 DEF Reads

\* What a number reads as, digit by digit; it never exceeds the limit.
LEMMA ValueFacts ==
  ASSUME NEW limit \in Nat
  PROVE  /\ Value(<<>>, limit) = 0
         /\ \A s \in Seq(Digit) : Value(s, limit) \in -1..limit
         /\ \A s \in Seq(Digit), d \in Digit :
              Value(Append(s, d), limit) = Extend(Value(s, limit), DigitValue[d], limit)
PROOF
  <1>1. Value(<<>>, limit) = 0
    <2>1. <<>> \in Seq(Digit) /\ Len(<<>>) = 0
      OBVIOUS
    <2>2. PICK u : Reads(u, <<>>, limit) /\ Value(<<>>, limit) = u[Len(<<>>)]
      BY <2>1, ValueSteps
    <2> QED BY <2>1, <2>2 DEF Reads
  <1>2. ASSUME NEW s \in Seq(Digit) PROVE Value(s, limit) \in -1..limit
    <2>1. PICK u : Reads(u, s, limit) /\ Value(s, limit) = u[Len(s)]
      BY ValueSteps
    <2>2. Len(s) \in Nat
      BY LenProperties
    <2> DEFINE T == {i \in 0..Len(s) : u[i] \notin -1..limit}
    <2>3. SUFFICES ASSUME T # {} PROVE FALSE
      BY <2>1, <2>2
    <2>4. T \in SUBSET Nat
      BY <2>2
    <2> HIDE DEF T
    <2>5. PICK x \in T : \A y \in T : x <= y
      BY <2>3, <2>4, LeastNat
    <2>6. x \in 0..Len(s) /\ u[x] \notin -1..limit
      BY DEF T
    <2>7. x # 0
      BY <2>1, <2>6 DEF Reads
    <2>8. x \in 1..Len(s) /\ x - 1 \in 0..Len(s) /\ x - 1 \notin T
      BY <2>2, <2>5, <2>6, <2>7
    <2>9. u[x - 1] \in -1..limit
      BY <2>8 DEF T
    <2>10. s[x] \in Digit
      BY <2>8, ElementOfSeq
    <2>11. DigitValue[s[x]] \in 0..9
      BY <2>10, DigitValues
    <2>12. \A v \in -1..limit, d \in 0..9 : Extend(v, d, limit) \in -1..limit
      BY DEF Extend
    <2>13. u[x] = Extend(u[x - 1], DigitValue[s[x]], limit)
      BY <2>1, <2>8 DEF Reads
    <2> QED BY <2>6, <2>9, <2>11, <2>12, <2>13
  <1>3. ASSUME NEW s \in Seq(Digit), NEW d \in Digit
        PROVE  Value(Append(s, d), limit) = Extend(Value(s, limit), DigitValue[d], limit)
    <2> DEFINE t == Append(s, d)
               n == Len(s)
    <2>1. /\ t \in Seq(Digit) /\ Len(t) = n + 1 /\ t[n + 1] = d
          /\ \A i \in 1..n : t[i] = s[i]
      BY AppendProperties
    <2>2. n \in Nat
      BY LenProperties
    <2> HIDE DEF t
    <2>3. PICK u : Reads(u, s, limit) /\ Value(s, limit) = u[n]
      BY ValueSteps
    <2>4. PICK w : Reads(w, t, limit) /\ Value(t, limit) = w[Len(t)]
      BY <2>1, ValueSteps
    <2>5. n <= Len(s) /\ n <= Len(t) /\ \A i \in 1..n : s[i] = t[i]
      BY <2>1, <2>2
    <2>6. \A i \in 0..n : u[i] = w[i]
      BY <2>1, <2>2, <2>3, <2>4, <2>5, ReadsAgree
    <2>7. n + 1 \in 1..Len(t) /\ (n + 1) - 1 = n /\ n \in 0..n
      BY <2>1, <2>2
    <2>8. w[n + 1] = Extend(w[n], DigitValue[d], limit)
      BY <2>1, <2>4, <2>7 DEF Reads
    <2>9. Value(t, limit) = Extend(Value(s, limit), DigitValue[d], limit)
      BY <2>1, <2>3, <2>4, <2>6, <2>7, <2>8
    <2> QED BY <2>9 DEF t
  <1> QED BY <1>1, <1>2, <1>3

\* A number's digits stand for it. (encode.rs: Writer::u32; decode.rs: parse_bytes.)
LEMMA DecimalReadsBack ==
  ASSUME NEW limit \in Nat
  PROVE  \A n \in 0..limit : Value(Decimal(n), limit) = n
PROOF
  <1> DEFINE T == {n \in 0..limit : Value(Decimal(n), limit) # n}
  <1>1. SUFFICES ASSUME T # {} PROVE FALSE
    OBVIOUS
  <1>2. T \in SUBSET Nat
    OBVIOUS
  <1> HIDE DEF T
  <1>3. PICK x \in T : \A y \in T : x <= y
    BY <1>1, <1>2, LeastNat
  <1>4. x \in 0..limit /\ Value(Decimal(x), limit) # x
    BY DEF T
  <1>5. CASE x < 10
    <2>1. x \in 0..9 /\ x \in Nat
      BY <1>4, <1>5
    <2> DEFINE d == DIGITS[x + 1]
    <2>2. d \in Digit /\ DigitValue[d] = x
      BY <2>1, DigitValues
    <2>3. Decimal(x) = <<d>>
      BY <2>1, DecimalFacts
    <2> HIDE DEF d
    <2>4. <<d>> = Append(<<>>, d) /\ <<>> \in Seq(Digit)
      BY <2>2
    <2>5. Value(Append(<<>>, d), limit) = Extend(0, x, limit)
      BY <2>2, <2>4, ValueFacts
    <2>6. Extend(0, x, limit) = x
      BY <1>4, <2>1 DEF Extend
    <2> QED BY <1>4, <2>3, <2>4, <2>5, <2>6
  <1>6. CASE x >= 10
    <2> DEFINE q == x \div 10
               r == x % 10
               d == DIGITS[r + 1]
    <2>1. x \in Nat
      BY <1>4
    <2>2. q \in Nat /\ q < x /\ r \in 0..9 /\ 10 * q + r = x
      BY <1>6, <2>1
    <2>3. d \in Digit /\ DigitValue[d] = r
      BY <2>2, DigitValues
    <2>4. Decimal(x) = Append(Decimal(q), d) /\ Decimal(q) \in Seq(Digit)
      BY <1>6, <2>1, <2>2, DecimalFacts
    <2> HIDE DEF q, r, d
    <2>5. q \in 0..limit /\ q \notin T
      BY <1>3, <1>4, <2>2
    <2>6. Value(Decimal(q), limit) = q
      BY <2>5 DEF T
    <2>7. Value(Decimal(x), limit) = Extend(q, r, limit)
      BY <2>3, <2>4, <2>6, ValueFacts
    <2>8. Extend(q, r, limit) = x
      <3>1. q # -1
        BY <2>2
      <3>2. q <= (limit - r) \div 10
        BY <1>4, <2>2
      <3> QED BY <2>2, <3>1, <3>2 DEF Extend
    <2> QED BY <1>4, <2>7, <2>8
  <1> QED BY <1>4, <1>5, <1>6

-----------------------------------------------------------------------------
(* Fields of a line                                                        *)

\* Text that holds no byte which ends a field or a line.
Plain(s) == s \in Seq(Byte) /\ \A i \in 1..Len(s) : s[i] \notin {",", "CR", "LF"}

\* No digit has another meaning in a line.
LEMMA DigitBytes ==
  Digit \subseteq Byte /\ \A d \in Digit : d \notin {",", "-", "+", "CR", "LF"}
PROOF
  <1>1. Digit \subseteq Byte
    BY DEF HexDigit, Byte
  <1>2. ASSUME NEW i \in 1..10 PROVE DIGITS[i] \notin {",", "-", "+", "CR", "LF"}
    <2>1. i \in {1, 2, 3, 4, 5, 6, 7, 8, 9, 10}
      OBVIOUS
    <2>2. DIGITS[i] \in {"0", "1", "2", "3", "4", "5", "6", "7", "8", "9"}
      BY <2>1 DEF DIGITS
    <2> QED BY <2>2
  <1> QED BY <1>1, <1>2 DEF Digit

\* A sequence of digits is plain text.
LEMMA DigitsPlain ==
  ASSUME NEW s \in Seq(Digit)
  PROVE  Plain(s) /\ ToSet(s) \subseteq Digit
PROOF
  <1>1. s \in Seq(Byte)
    BY DigitBytes, SeqMonotonic
  <1>2. \A i \in 1..Len(s) : s[i] \in Digit
    BY ElementOfSeq
  <1>3. DOMAIN s = 1..Len(s)
    BY LenProperties
  <1> QED BY <1>1, <1>2, <1>3, DigitBytes DEF Plain, ToSet

\* Text of digits is a sequence of digits.
LEMMA DigitText ==
  ASSUME NEW s \in Seq(Byte), ToSet(s) \subseteq Digit
  PROVE  s \in Seq(Digit)
PROOF
  <1>1. s \in [1..Len(s) -> Byte] /\ Len(s) \in Nat /\ DOMAIN s = 1..Len(s)
    BY LenProperties
  <1>2. \A i \in 1..Len(s) : s[i] \in Digit
    BY <1>1 DEF ToSet
  <1>3. s \in [1..Len(s) -> Digit]
    BY <1>1, <1>2
  <1> QED BY <1>1, <1>3, SeqDef

\* The parts of ParseInt.
Signed(bytes, low)   == bytes # <<>> /\ bytes[1] = "-" /\ low < 0
Unsigned(bytes, low) ==
  IF bytes # <<>> /\ (bytes[1] = "+" \/ Signed(bytes, low)) THEN Tail(bytes) ELSE bytes
LimitOf(bytes, low, high) == IF Signed(bytes, low) THEN -low ELSE high

LEMMA ParseIntIs ==
  ASSUME NEW bytes, NEW low, NEW high
  PROVE  LET digits == Unsigned(bytes, low)
             value  == Value(digits, LimitOf(bytes, low, high))
         IN  ParseInt(bytes, low, high) =
               IF digits = <<>> \/ ~(ToSet(digits) \subseteq Digit) \/ value = -1
                 THEN ParseError
                 ELSE Parsed(IF Signed(bytes, low) THEN -value ELSE value)
PROOF BY DEF ParseInt, Unsigned, LimitOf, Signed

\* A number that parses is one of its type. (decode.rs: parse_bytes.)
LEMMA ParseIntType ==
  ASSUME NEW bytes \in Seq(Byte), NEW low \in Int, NEW high \in Nat, low <= 0
  PROVE  LET r == ParseInt(bytes, low, high)
         IN  r.ok \in BOOLEAN /\ (r.ok => r = Parsed(r.val) /\ r.val \in low..high)
PROOF
  <1> DEFINE digits == Unsigned(bytes, low)
             limit == LimitOf(bytes, low, high)
             value == Value(digits, limit)
             r == ParseInt(bytes, low, high)
  <1>1. limit \in Nat /\ (Signed(bytes, low) => limit = -low)
          /\ (~Signed(bytes, low) => limit = high)
    BY DEF LimitOf, Signed
  <1>2. digits \in Seq(Byte)
    <2>1. bytes # <<>> => Tail(bytes) \in Seq(Byte)
      BY HeadTailProperties
    <2> QED BY <2>1 DEF Unsigned
  <1>3. r = IF digits = <<>> \/ ~(ToSet(digits) \subseteq Digit) \/ value = -1
              THEN ParseError
              ELSE Parsed(IF Signed(bytes, low) THEN -value ELSE value)
    BY ParseIntIs
  <1> HIDE DEF digits, limit, r
  <1>4. CASE digits = <<>> \/ ~(ToSet(digits) \subseteq Digit) \/ value = -1
    <2>1. r = ParseError
      BY <1>3, <1>4
    <2> QED BY <2>1 DEF ParseError, r
  <1>5. CASE ~(digits = <<>> \/ ~(ToSet(digits) \subseteq Digit) \/ value = -1)
    <2>1. digits \in Seq(Digit)
      BY <1>2, <1>5, DigitText
    <2>2. value \in -1..limit
      BY <1>1, <2>1, ValueFacts
    <2> HIDE DEF value
    <2>3. value \in 0..limit
      BY <1>1, <1>5, <2>2
    <2> DEFINE v == IF Signed(bytes, low) THEN -value ELSE value
    <2>4. r = Parsed(v)
      BY <1>3, <1>5
    <2>5. v \in low..high
      <3>1. CASE Signed(bytes, low)
        BY <1>1, <2>3, <3>1
      <3>2. CASE ~Signed(bytes, low)
        BY <1>1, <2>3, <3>2
      <3> QED BY <3>1, <3>2
    <2> HIDE DEF v
    <2> QED BY <2>4, <2>5 DEF Parsed, r
  <1> QED BY <1>4, <1>5

\* A printed number is plain text, and not empty.
LEMMA PrintedPlain ==
  ASSUME NEW n \in Int
  PROVE  /\ Plain(Printed(n)) /\ Len(Printed(n)) > 0
         /\ \A i \in 1..Len(Printed(n)) : Printed(n)[i] \in Digit \cup {"-"}
PROOF
  <1>1. CASE n >= 0
    <2> DEFINE d == Decimal(n)
    <2>1. d \in Seq(Digit) /\ d # <<>> /\ Printed(n) = d
      <3>1. n \in Nat /\ ~(n < 0)
        BY <1>1
      <3>2. d \in Seq(Digit) /\ d # <<>>
        BY <3>1, DecimalFacts
      <3> QED BY <3>1, <3>2 DEF Printed
    <2> HIDE DEF d
    <2>2. Plain(d) /\ Len(d) > 0 /\ \A i \in 1..Len(d) : d[i] \in Digit
      <3>1. Len(d) \in Nat \ {0}
        BY <2>1, EmptySeq
      <3>2. \A i \in 1..Len(d) : d[i] \in Digit
        BY <2>1, ElementOfSeq
      <3> QED BY <2>1, <3>1, <3>2, DigitsPlain
    <2> QED BY <2>1, <2>2
  <1>2. CASE n < 0
    <2> DEFINE d == Decimal(-n)
               s == <<"-">> \o d
    <2>1. d \in Seq(Digit) /\ Printed(n) = s
      <3>1. -n \in Nat
        BY <1>2
      <3>2. d \in Seq(Digit)
        BY <3>1, DecimalFacts
      <3> QED BY <1>2, <3>2 DEF Printed
    <2> HIDE DEF d
    <2>2. d \in Seq(Byte) /\ \A i \in 1..Len(d) : d[i] \in Digit
      BY <2>1, DigitsPlain, ElementOfSeq DEF Plain
    <2>3. <<"-">> \in Seq(Byte) /\ Len(<<"-">>) = 1 /\ <<"-">>[1] = "-"
      BY DEF Byte
    <2>4. /\ s \in Seq(Byte) /\ Len(s) = 1 + Len(d)
          /\ \A i \in 1..(1 + Len(d)) : s[i] = IF i <= 1 THEN <<"-">>[i] ELSE d[i - 1]
      BY <2>2, <2>3, ConcatProperties
    <2>5. Len(d) \in Nat
      BY <2>2, LenProperties
    <2> HIDE DEF s
    <2>6. ASSUME NEW i \in 1..Len(s) PROVE s[i] \in Digit \cup {"-"}
      <3>1. CASE i = 1
        BY <2>3, <2>4, <2>5, <3>1
      <3>2. CASE i # 1
        <4>1. i - 1 \in 1..Len(d) /\ ~(i <= 1) /\ i \in 1..(1 + Len(d))
          BY <2>4, <2>5, <3>2
        <4> QED BY <2>2, <2>4, <4>1
      <3> QED BY <3>1, <3>2
    <2>7. "-" \notin {",", "CR", "LF"}
      OBVIOUS
    <2>8. Plain(s)
      BY <2>4, <2>6, <2>7, DigitBytes DEF Plain
    <2>9. Len(s) > 0
      BY <2>4, <2>5
    <2> QED BY <2>1, <2>6, <2>8, <2>9
  <1> QED BY <1>1, <1>2

\* What is printed parses to the number printed, in every type it fits.
\* (decode.rs: parse_bytes.)
THEOREM NumberReadsBack ==
  ASSUME NEW low \in Int, NEW high \in Nat, low <= 0, NEW n \in low..high
  PROVE  ParseInt(Printed(n), low, high) = Parsed(n)
PROOF
  <1>1. n \in Int
    OBVIOUS
  <1>2. CASE n >= 0
    <2> DEFINE d == Decimal(n)
    <2>1. d \in Seq(Digit) /\ d # <<>> /\ Printed(n) = d /\ Value(d, high) = n
      <3>1. n \in Nat /\ n \in 0..high /\ ~(n < 0)
        BY <1>1, <1>2
      <3>2. d \in Seq(Digit) /\ d # <<>>
        BY <3>1, DecimalFacts
      <3>3. Value(d, high) = n
        BY <3>1, DecimalReadsBack
      <3> QED BY <3>1, <3>2, <3>3 DEF Printed
    <2> HIDE DEF d
    <2>2. d[1] \in Digit
      <3>1. Len(d) \in Nat \ {0}
        BY <2>1, EmptySeq
      <3>2. 1 \in 1..Len(d)
        BY <3>1
      <3> QED BY <2>1, <3>2, ElementOfSeq
    <2>3. ~Signed(d, low) /\ Unsigned(d, low) = d /\ LimitOf(d, low, high) = high
      BY <2>2, DigitBytes DEF Signed, Unsigned, LimitOf
    <2>4. ToSet(d) \subseteq Digit /\ n # -1
      BY <1>2, <2>1, DigitsPlain
    <2> QED BY <2>1, <2>3, <2>4, ParseIntIs
  <1>3. CASE n < 0
    <2> DEFINE d == Decimal(-n)
               s == <<"-">> \o d
    <2>1. -n \in 0..(-low) /\ -low \in Nat /\ -(-n) = n /\ -n # -1 /\ -n \in Nat
      BY <1>3
    <2>2. d \in Seq(Digit) /\ d # <<>> /\ Printed(n) = s /\ Value(d, -low) = -n
      BY <1>1, <1>3, <2>1, DecimalFacts, DecimalReadsBack DEF Printed
    <2> HIDE DEF d
    <2>3. d \in Seq(Byte)
      BY <2>2, DigitsPlain DEF Plain
    <2>4. s # <<>> /\ s[1] = "-" /\ Tail(s) = d
      <3>1. <<"-">> \in Seq(Byte) /\ Len(<<"-">>) = 1 /\ <<"-">>[1] = "-"
        BY DEF Byte
      <3>2. /\ s \in Seq(Byte) /\ Len(s) = 1 + Len(d)
            /\ \A i \in 1..(1 + Len(d)) : s[i] = IF i <= 1 THEN <<"-">>[i] ELSE d[i - 1]
        BY <2>3, <3>1, ConcatProperties
      <3>3. Len(d) \in Nat /\ Len(<<>>) = 0
        BY <2>3, LenProperties, EmptySeq
      <3> HIDE DEF s
      <3>4. s # <<>> /\ s[1] = "-"
        BY <3>1, <3>2, <3>3
      <3>5. /\ Tail(s) \in Seq(Byte) /\ Len(Tail(s)) = Len(s) - 1
            /\ \A i \in 1..Len(Tail(s)) : Tail(s)[i] = s[i + 1]
        BY <3>2, <3>4, HeadTailProperties
      <3> DEFINE t == Tail(s)
      <3> HIDE DEF t
      <3>6. Len(t) = Len(d) /\ t \in Seq(Byte)
        BY <3>2, <3>3, <3>5 DEF t
      <3>7. ASSUME NEW i \in 1..Len(d) PROVE t[i] = d[i]
        <4>1. t[i] = s[i + 1] /\ i + 1 \in 1..(1 + Len(d)) /\ ~(i + 1 <= 1) /\ (i + 1) - 1 = i
          BY <3>3, <3>5, <3>6 DEF t
        <4> QED BY <3>2, <4>1
      <3>8. t = d
        BY <2>3, <3>6, <3>7, SeqEqual
      <3> QED BY <3>4, <3>8 DEF t
    <2> HIDE DEF s
    <2>5. Signed(s, low) /\ Unsigned(s, low) = d /\ LimitOf(s, low, high) = -low
      <3>1. low < 0
        BY <1>3
      <3> QED BY <2>4, <3>1 DEF Signed, Unsigned, LimitOf
    <2>6. ToSet(d) \subseteq Digit
      BY <2>2, DigitsPlain
    <2>7. ParseInt(s, low, high) = Parsed(-(-n))
      BY <2>1, <2>2, <2>5, <2>6, ParseIntIs
    <2> QED BY <2>1, <2>2, <2>7
  <1> QED BY <1>1, <1>2, <1>3

\* Two texts with one byte between them.
Join(s, c, t) == s \o (<<c>> \o t)

\* Where the bytes of b are those of s, c and t.
Joins(b, s, c, t) ==
  /\ b \in Seq(Byte) /\ Len(b) = Len(s) + 1 + Len(t)
  /\ b[Len(s) + 1] = c
  /\ \A i \in 1..Len(s) : b[i] = s[i]
  /\ \A i \in 1..Len(t) : b[Len(s) + 1 + i] = t[i]
  /\ SubSeq(b, 1, Len(s)) = s
  /\ SubSeq(b, Len(s) + 2, Len(b)) = t

LEMMA JoinFacts ==
  ASSUME NEW s \in Seq(Byte), NEW c \in Byte, NEW t \in Seq(Byte)
  PROVE  Joins(Join(s, c, t), s, c, t)
PROOF
  <1> DEFINE e == <<c>> \o t
             b == s \o e
             m == Len(s)
             n == Len(t)
  <1>1. m \in Nat /\ n \in Nat
    BY LenProperties
  <1>2. <<c>> \in Seq(Byte) /\ Len(<<c>>) = 1 /\ <<c>>[1] = c
    OBVIOUS
  <1>3. /\ e \in Seq(Byte) /\ Len(e) = 1 + n
        /\ \A i \in 1..(1 + n) : e[i] = IF i <= 1 THEN <<c>>[i] ELSE t[i - 1]
    BY <1>2, ConcatProperties
  <1> HIDE DEF e
  <1>4. e[1] = c /\ \A i \in 1..n : e[1 + i] = t[i]
    <2>1. e[1] = c
      BY <1>1, <1>2, <1>3
    <2>2. ASSUME NEW i \in 1..n PROVE e[1 + i] = t[i]
      <3>1. 1 + i \in 1..(1 + n) /\ ~(1 + i <= 1) /\ (1 + i) - 1 = i
        BY <1>1
      <3> QED BY <1>3, <3>1
    <2> QED BY <2>1, <2>2
  <1>5. /\ b \in Seq(Byte) /\ Len(b) = m + Len(e)
        /\ \A i \in 1..(m + Len(e)) : b[i] = IF i <= m THEN s[i] ELSE e[i - m]
    BY <1>3, ConcatProperties
  <1> HIDE DEF b
  <1>6. Len(b) = m + 1 + n
    BY <1>1, <1>3, <1>5
  <1>7. b[m + 1] = c
    <2>1. m + 1 \in 1..(m + Len(e)) /\ ~(m + 1 <= m) /\ (m + 1) - m = 1
      BY <1>1, <1>3
    <2> QED BY <1>4, <1>5, <2>1
  <1>8. ASSUME NEW i \in 1..m PROVE b[i] = s[i]
    <2>1. i \in 1..(m + Len(e)) /\ i <= m
      BY <1>1, <1>3
    <2> QED BY <1>5, <2>1
  <1>9. ASSUME NEW i \in 1..n PROVE b[m + 1 + i] = t[i]
    <2>1. /\ m + 1 + i \in 1..(m + Len(e)) /\ ~(m + 1 + i <= m)
          /\ (m + 1 + i) - m = 1 + i
      BY <1>1, <1>3
    <2> QED BY <1>4, <1>5, <2>1
  <1>10. SubSeq(b, 1, m) = s
    <2> DEFINE u == SubSeq(b, 1, m)
    <2>1. \A i \in 1..m : b[i] \in Byte
      BY <1>8, ElementOfSeq
    <2>2. /\ u \in Seq(Byte) /\ Len(u) = IF 1 <= m THEN m - 1 + 1 ELSE 0
          /\ \A i \in 1..(m - 1 + 1) : u[i] = b[1 + i - 1]
      BY <1>1, <2>1, SubSeqProperties
    <2> HIDE DEF u
    <2>3. Len(u) = m
      BY <1>1, <2>2
    <2>4. ASSUME NEW i \in 1..m PROVE u[i] = s[i]
      <3>1. i \in 1..(m - 1 + 1) /\ 1 + i - 1 = i
        BY <1>1
      <3> QED BY <1>8, <2>2, <3>1
    <2>5. u = s
      BY <2>2, <2>3, <2>4, SeqEqual
    <2> QED BY <2>5 DEF u
  <1>11. SubSeq(b, m + 2, Len(b)) = t
    <2> DEFINE u == SubSeq(b, m + 2, Len(b))
    <2>1. \A i \in (m + 2)..Len(b) : b[i] \in Byte
      <3>1. \A i \in (m + 2)..Len(b) : i \in 1..Len(b)
        BY <1>1, <1>6
      <3> QED BY <1>5, <3>1, ElementOfSeq
    <2>2. m + 2 \in Int /\ Len(b) \in Int
      BY <1>1, <1>6
    <2>3. /\ u \in Seq(Byte)
          /\ Len(u) = IF m + 2 <= Len(b) THEN Len(b) - (m + 2) + 1 ELSE 0
          /\ \A i \in 1..(Len(b) - (m + 2) + 1) : u[i] = b[(m + 2) + i - 1]
      BY <2>1, <2>2, SubSeqProperties
    <2> HIDE DEF u
    <2>4. Len(u) = n
      BY <1>1, <1>6, <2>3
    <2>5. ASSUME NEW i \in 1..n PROVE u[i] = t[i]
      <3>1. i \in 1..(Len(b) - (m + 2) + 1) /\ (m + 2) + i - 1 = m + 1 + i
        BY <1>1, <1>6
      <3> QED BY <1>9, <2>3, <3>1
    <2>6. u = t
      BY <2>3, <2>4, <2>5, SeqEqual
    <2> QED BY <2>6 DEF u
  <1> QED BY <1>5, <1>6, <1>7, <1>8, <1>9, <1>10, <1>11 DEF b, e, Join, Joins

\* Comma finds the first comma.
LEMMA CommaFacts ==
  ASSUME NEW b \in Seq(Byte)
  PROVE  /\ \A k \in 1..Len(b) :
              b[k] = "," /\ (\A i \in 1..(k - 1) : b[i] # ",") => Comma(b) = k
         /\ (\A i \in 1..Len(b) : b[i] # ",") => Comma(b) = 0
PROOF
  <1> DEFINE I == {i \in 1..Len(b) : b[i] = ","}
  <1>1. Comma(b) = IF I # {} THEN Min(I) ELSE 0
    BY DEF Comma, SelectInSeq
  <1>2. Len(b) \in Nat
    BY LenProperties
  <1>3. ASSUME NEW k \in 1..Len(b), b[k] = ",", \A i \in 1..(k - 1) : b[i] # ","
        PROVE  Comma(b) = k
    <2>1. ASSUME NEW i \in 1..Len(b), b[i] = "," PROVE i \in Nat /\ k <= i
      <3>1. i \notin 1..(k - 1)
        BY <1>3, <2>1
      <3> QED BY <1>2, <3>1
    <2>2. k \in I /\ \A i \in I : i \in Nat /\ k <= i
      BY <1>3, <2>1
    <2> HIDE DEF I
    <2>3. \A x \in I : (\A y \in I : x <= y) => x = k
      BY <2>2
    <2>4. Min(I) = k
      BY <2>2, <2>3 DEF Min
    <2> QED BY <1>1, <2>2, <2>4
  <1>4. ASSUME \A i \in 1..Len(b) : b[i] # "," PROVE Comma(b) = 0
    BY <1>1, <1>4
  <1> QED BY <1>3, <1>4

\* A field and what is behind its comma.
LEMMA FieldFacts ==
  ASSUME NEW s, Plain(s), NEW t \in Seq(Byte)
  PROVE  LET b == Join(s, ",", t)
         IN  /\ b \in Seq(Byte) /\ HasComma(b)
             /\ BeforeComma(b) = s /\ AfterComma(b) = t
PROOF
  <1> DEFINE comma == ","
             b == Join(s, comma, t)
             m == Len(s)
  <1>0. comma \in Byte
    BY DEF Byte
  <1>1. s \in Seq(Byte)
    BY DEF Plain
  <1>2. m \in Nat /\ Len(t) \in Nat
    BY <1>1, LenProperties
  <1>3. \A i \in 1..m : s[i] # comma
    BY DEF Plain
  <1> HIDE DEF comma
  <1>4. /\ b \in Seq(Byte) /\ Len(b) = m + 1 + Len(t)
        /\ b[m + 1] = comma
        /\ \A i \in 1..m : b[i] = s[i]
        /\ SubSeq(b, 1, m) = s
        /\ SubSeq(b, m + 2, Len(b)) = t
    <2>1. Joins(b, s, comma, t)
      BY <1>0, <1>1, JoinFacts
    <2> QED BY <2>1 DEF Joins
  <1> HIDE DEF b, m
  <1>5. m + 1 \in 1..Len(b) /\ (m + 1) - 1 = m /\ (m + 1) + 1 = m + 2 /\ m + 1 # 0
    BY <1>2, <1>4
  <1>6. \A i \in 1..((m + 1) - 1) : b[i] # comma
    BY <1>3, <1>4, <1>5
  <1>7. Comma(b) = m + 1
    BY <1>4, <1>5, <1>6, CommaFacts DEF comma
  <1>8. HasComma(b) /\ BeforeComma(b) = s /\ AfterComma(b) = t
    BY <1>4, <1>5, <1>7 DEF HasComma, BeforeComma, AfterComma
  <1> QED BY <1>4, <1>8 DEF b, comma

\* Joining is the same from the left and from the right.
LEMMA JoinFromLeft ==
  ASSUME NEW c \in Byte
  PROVE  /\ \A x, y \in Seq(Byte) :
              Join(x, c, y) \in Seq(Byte) /\ (x \o <<c>>) \o y = Join(x, c, y)
         /\ \A x, y, z \in Seq(Byte) :
              Join(Join(x, c, y), c, z) = Join(x, c, Join(y, c, z))
PROOF
  <1> DEFINE d == <<c>>
  <1>1. d \in Seq(Byte)
    OBVIOUS
  <1> HIDE DEF d
  <1>2. \A u, v \in Seq(Byte) : u \o v \in Seq(Byte)
    BY ConcatProperties
  <1>3. \A u, v, w \in Seq(Byte) : (u \o v) \o w = u \o (v \o w)
    BY ConcatAssociative
  <1>4. ASSUME NEW x \in Seq(Byte), NEW y \in Seq(Byte)
        PROVE  x \o (d \o y) \in Seq(Byte) /\ (x \o d) \o y = x \o (d \o y)
    BY <1>1, <1>2, <1>3
  <1>5. ASSUME NEW x \in Seq(Byte), NEW y \in Seq(Byte), NEW z \in Seq(Byte)
        PROVE  (x \o (d \o y)) \o (d \o z) = x \o (d \o (y \o (d \o z)))
    <2>1. d \o y \in Seq(Byte) /\ d \o z \in Seq(Byte)
      BY <1>1, <1>2
    <2>2. (x \o (d \o y)) \o (d \o z) = x \o ((d \o y) \o (d \o z))
      BY <1>3, <2>1
    <2>3. (d \o y) \o (d \o z) = d \o (y \o (d \o z))
      BY <1>1, <1>3, <2>1
    <2> QED BY <2>2, <2>3
  <1> QED BY <1>4, <1>5 DEF Join, d

\* What is behind the first byte of a line.
LEMMA TailOfPrefixed ==
  ASSUME NEW c \in Byte, NEW t \in Seq(Byte)
  PROVE  /\ <<c>> \o t \in Seq(Byte) /\ Len(<<c>> \o t) = Len(t) + 1
         /\ (<<c>> \o t)[1] = c
         /\ \A i \in 1..Len(t) : (<<c>> \o t)[i + 1] = t[i]
         /\ Tail(<<c>> \o t) = t
PROOF
  <1> DEFINE d == <<c>>
             s == d \o t
             u == Tail(s)
  <1>1. d \in Seq(Byte) /\ Len(d) = 1 /\ d[1] = c
    OBVIOUS
  <1>2. Len(t) \in Nat /\ Len(<<>>) = 0
    BY LenProperties, EmptySeq
  <1> HIDE DEF d
  <1>3. /\ s \in Seq(Byte) /\ Len(s) = 1 + Len(t)
        /\ \A i \in 1..(1 + Len(t)) : s[i] = IF i <= 1 THEN d[i] ELSE t[i - 1]
    <2>1. /\ s \in Seq(Byte) /\ Len(s) = Len(d) + Len(t)
          /\ \A i \in 1..(Len(d) + Len(t)) :
               s[i] = IF i <= Len(d) THEN d[i] ELSE t[i - Len(d)]
      BY <1>1, ConcatProperties
    <2> QED BY <1>1, <2>1
  <1> HIDE DEF s
  <1>4. s # <<>> /\ s[1] = c
    BY <1>1, <1>2, <1>3
  <1>5. ASSUME NEW i \in 1..Len(t) PROVE s[i + 1] = t[i]
    <2>1. i + 1 \in 1..(1 + Len(t)) /\ ~(i + 1 <= 1) /\ (i + 1) - 1 = i
      BY <1>2
    <2> QED BY <1>3, <2>1
  <1>6. u \in Seq(Byte) /\ Len(u) = Len(s) - 1 /\ \A i \in 1..Len(u) : u[i] = s[i + 1]
    BY <1>3, <1>4, HeadTailProperties
  <1> HIDE DEF u
  <1>7. Len(u) = Len(t)
    BY <1>2, <1>3, <1>6
  <1>8. \A i \in 1..Len(u) : u[i] = t[i]
    BY <1>5, <1>6, <1>7
  <1>9. u = t
    BY <1>6, <1>7, <1>8, SeqEqual
  <1>10. Len(s) = Len(t) + 1
    BY <1>2, <1>3
  <1> QED BY <1>3, <1>4, <1>5, <1>9, <1>10 DEF d, s, u

\* What is behind the first two.
LEMMA TailOfTwo ==
  ASSUME NEW c \in Byte, NEW d \in Byte, NEW t \in Seq(Byte)
  PROVE  /\ <<c>> \o (<<d>> \o t) \in Seq(Byte) /\ <<d>> \o t \in Seq(Byte)
         /\ Len(<<c>> \o (<<d>> \o t)) = Len(t) + 2
         /\ (<<c>> \o (<<d>> \o t))[1] = c /\ (<<c>> \o (<<d>> \o t))[2] = d
         /\ Tail(Tail(<<c>> \o (<<d>> \o t))) = t
         /\ <<c, d>> \o t = <<c>> \o (<<d>> \o t)
PROOF
  <1> DEFINE u == <<d>> \o t
             s == <<c>> \o u
  <1>1. /\ u \in Seq(Byte) /\ Len(u) = Len(t) + 1 /\ u[1] = d /\ Tail(u) = t
    BY TailOfPrefixed
  <1>2. Len(t) \in Nat
    BY LenProperties
  <1> HIDE DEF u
  <1>3. /\ s \in Seq(Byte) /\ Len(s) = Len(u) + 1 /\ s[1] = c /\ Tail(s) = u
        /\ \A i \in 1..Len(u) : s[i + 1] = u[i]
    BY <1>1, TailOfPrefixed
  <1>4. Len(s) = Len(t) + 2 /\ 1 \in 1..Len(u)
    BY <1>1, <1>2, <1>3
  <1>5. s[2] = d
    <2>1. s[1 + 1] = u[1]
      BY <1>3, <1>4
    <2> QED BY <1>1, <2>1
  <1>6. <<c, d>> \o t = <<c>> \o (<<d>> \o t)
    <2>1. <<c>> \in Seq(Byte) /\ <<d>> \in Seq(Byte)
      OBVIOUS
    <2>2. (<<c>> \o <<d>>) \o t = <<c>> \o (<<d>> \o t)
      BY <2>1, ConcatAssociative
    <2>3. <<c>> \o <<d>> = <<c, d>>
      <3> DEFINE x == <<c>> \o <<d>>
                 y == <<c, d>>
      <3>1. /\ x \in Seq(Byte) /\ Len(x) = Len(<<d>>) + 1 /\ x[1] = c
            /\ \A i \in 1..Len(<<d>>) : x[i + 1] = <<d>>[i]
        BY <2>1, TailOfPrefixed
      <3>2. y \in Seq(Byte) /\ Len(y) = 2 /\ y[1] = c /\ y[2] = d /\ Len(<<d>>) = 1
        OBVIOUS
      <3> HIDE DEF x, y
      <3>3. Len(x) = 2 /\ x[1 + 1] = <<d>>[1]
        BY <3>1, <3>2
      <3>4. x[2] = d
        BY <3>3
      <3>5. \A i \in 1..Len(x) : x[i] = y[i]
        BY <3>1, <3>2, <3>3, <3>4
      <3>6. x = y
        BY <3>1, <3>2, <3>3, <3>5, SeqEqual
      <3> QED BY <3>6 DEF x, y
    <2> QED BY <2>2, <2>3
  <1> QED BY <1>1, <1>3, <1>4, <1>5, <1>6 DEF s, u

-----------------------------------------------------------------------------
(* A +RCV line                                                             *)

SignalText(signal) == Join(Printed(signal.rssi), ",", Printed(signal.snr))

\* What is between the prefix and the end of a +RCV line.
RcvText(data, signal) ==
  Join(Printed(signal.from), ",",
       Join(Printed(Len(data)), ",", Join(data, ",", SignalText(signal))))

\* What parse_event is handed.
RcvHead(data, signal) == <<"+RCV">> \o (<<"=">> \o RcvText(data, signal))

\* The parts are bytes.
LEMMA RcvParts ==
  ASSUME NEW data \in Seq(Byte), NEW signal \in Signal
  PROVE  /\ Plain(Printed(signal.from)) /\ Plain(Printed(Len(data)))
         /\ Plain(Printed(signal.rssi)) /\ Plain(Printed(signal.snr))
         /\ Len(data) \in Nat /\ signal.from \in 0..U16_MAX
         /\ signal.rssi \in I16 /\ signal.snr \in I16
         /\ SignalText(signal) \in Seq(Byte)
         /\ Join(data, ",", SignalText(signal)) \in Seq(Byte)
         /\ Join(Printed(Len(data)), ",", Join(data, ",", SignalText(signal))) \in Seq(Byte)
         /\ RcvText(data, signal) \in Seq(Byte)
PROOF
  <1>1. Len(data) \in Nat
    BY LenProperties
  <1>2. signal.from \in 0..U16_MAX /\ signal.rssi \in I16 /\ signal.snr \in I16
    BY DEF Signal
  <1>3. signal.from \in Int /\ Len(data) \in Int /\ signal.rssi \in Int /\ signal.snr \in Int
    <2>1. I16 \subseteq Int
      BY DEF I16, I16_MAX
    <2>2. \A x \in 0..U16_MAX : x \in Int
      BY DEF U16_MAX
    <2>3. signal.rssi \in Int /\ signal.snr \in Int
      BY <1>2, <2>1
    <2>4. signal.from \in Int
      BY <1>2, <2>2
    <2> QED BY <1>1, <2>3, <2>4
  <1>4. /\ Plain(Printed(signal.from)) /\ Plain(Printed(Len(data)))
        /\ Plain(Printed(signal.rssi)) /\ Plain(Printed(signal.snr))
    BY <1>3, PrintedPlain
  <1>5. /\ Printed(signal.from) \in Seq(Byte) /\ Printed(Len(data)) \in Seq(Byte)
        /\ Printed(signal.rssi) \in Seq(Byte) /\ Printed(signal.snr) \in Seq(Byte)
    BY <1>4 DEF Plain
  <1>6. \A x, y \in Seq(Byte) : Join(x, ",", y) \in Seq(Byte)
    <2>1. "," \in Byte
      BY DEF Byte
    <2> QED BY <2>1, JoinFromLeft
  <1>7. SignalText(signal) \in Seq(Byte)
    BY <1>5, <1>6 DEF SignalText
  <1>8. Join(data, ",", SignalText(signal)) \in Seq(Byte)
    BY <1>6, <1>7
  <1>9. Join(Printed(Len(data)), ",", Join(data, ",", SignalText(signal))) \in Seq(Byte)
    BY <1>5, <1>6, <1>8
  <1>10. RcvText(data, signal) \in Seq(Byte)
    BY <1>5, <1>6, <1>9 DEF RcvText
  <1> QED BY <1>1, <1>2, <1>4, <1>7, <1>8, <1>9, <1>10

\* A line is its prefix, its text and CR LF.
LEMMA RcvLineIs ==
  ASSUME NEW data \in Seq(Byte), NEW signal \in Signal
  PROVE  RcvLine(data, signal) = RcvHead(data, signal) \o CRLF
PROOF
  <1> DEFINE A == <<"+RCV", "=">>
             c == ","
             F == Printed(signal.from)
             L == Printed(Len(data))
             R == Printed(signal.rssi)
             S == Printed(signal.snr)
             J(x, y) == (x \o <<c>>) \o y
  <1>1. F \in Seq(Byte) /\ L \in Seq(Byte) /\ R \in Seq(Byte) /\ S \in Seq(Byte)
    BY RcvParts DEF Plain
  <1>2. A \in Seq(Byte)
    <2>1. "+RCV" \in Byte /\ "=" \in Byte
      BY DEF Byte
    <2> QED BY <2>1
  <1>3. c \in Byte
    BY DEF Byte
  <1>4. RcvLine(data, signal)
          = (((((((((A \o F) \o <<c>>) \o L) \o <<c>>) \o data) \o <<c>>) \o R) \o <<c>>) \o S)
              \o CRLF
    BY DEF RcvLine
  <1>5. RcvHead(data, signal) = A \o Join(F, c, Join(L, c, Join(data, c, Join(R, c, S))))
    <2>1. "+RCV" \in Byte /\ "=" \in Byte /\ RcvText(data, signal) \in Seq(Byte)
      BY RcvParts DEF Byte
    <2>2. A \o RcvText(data, signal) = RcvHead(data, signal)
      BY <2>1, TailOfTwo DEF RcvHead
    <2>3. RcvText(data, signal) = Join(F, c, Join(L, c, Join(data, c, Join(R, c, S))))
      BY DEF RcvText, SignalText
    <2> QED BY <2>2, <2>3
  <1> HIDE DEF A, F, L, R, S, c
  <1>6. \A x, y \in Seq(Byte) : J(x, y) = Join(x, c, y) /\ J(x, y) \in Seq(Byte)
    <2>1. \A x, y \in Seq(Byte) : Join(x, c, y) \in Seq(Byte) /\ J(x, y) = Join(x, c, y)
      BY <1>3, JoinFromLeft, Zenon
    <2> HIDE DEF J
    <2> QED BY <2>1
  <1>7. \A x, y, z \in Seq(Byte) : J(J(x, y), z) = J(x, J(y, z))
    <2> HIDE DEF J
    <2>1. \A x, y, z \in Seq(Byte) : Join(Join(x, c, y), c, z) = Join(x, c, Join(y, c, z))
      BY <1>3, JoinFromLeft, Zenon
    <2> QED BY <1>6, <2>1
  <1>8. \A x, y \in Seq(Byte) : J(A \o x, y) = A \o J(x, y)
    <2> DEFINE d == <<c>>
    <2>1. d \in Seq(Byte)
      BY <1>3
    <2> HIDE DEF d
    <2>2. \A u, v \in Seq(Byte) : u \o v \in Seq(Byte)
      BY ConcatProperties
    <2>3. \A u, v, w \in Seq(Byte) : (u \o v) \o w = u \o (v \o w)
      BY ConcatAssociative
    <2>4. ASSUME NEW x \in Seq(Byte), NEW y \in Seq(Byte)
          PROVE  ((A \o x) \o d) \o y = A \o ((x \o d) \o y)
      <3>1. (A \o x) \o d = A \o (x \o d) /\ x \o d \in Seq(Byte)
        <4>1. (A \o x) \o d = A \o (x \o d)
          BY <1>2, <2>1, <2>3
        <4>2. x \o d \in Seq(Byte)
          BY <2>1, <2>2
        <4> QED BY <4>1, <4>2
      <3>2. (A \o (x \o d)) \o y = A \o ((x \o d) \o y)
        BY <1>2, <2>3, <3>1
      <3> QED BY <3>1, <3>2
    <2> QED BY <2>4 DEF d
  <1>9. RcvLine(data, signal) = J(J(J(J(A \o F, L), data), R), S) \o CRLF
    BY <1>4
  <1> HIDE DEF J
  <1>10. J(J(J(J(A \o F, L), data), R), S) = A \o J(J(J(J(F, L), data), R), S)
    <2>1. J(F, L) \in Seq(Byte) /\ J(J(F, L), data) \in Seq(Byte)
            /\ J(J(J(F, L), data), R) \in Seq(Byte)
      BY <1>1, <1>6
    <2>2. J(A \o F, L) = A \o J(F, L)
      BY <1>1, <1>8
    <2>3. J(A \o J(F, L), data) = A \o J(J(F, L), data)
      BY <1>8, <2>1
    <2>4. J(A \o J(J(F, L), data), R) = A \o J(J(J(F, L), data), R)
      BY <1>1, <1>8, <2>1
    <2>5. J(A \o J(J(J(F, L), data), R), S) = A \o J(J(J(J(F, L), data), R), S)
      BY <1>1, <1>8, <2>1
    <2> QED BY <2>2, <2>3, <2>4, <2>5
  <1>11. J(J(J(J(F, L), data), R), S) = J(F, J(L, J(data, J(R, S))))
    <2>1. J(F, L) \in Seq(Byte) /\ J(R, S) \in Seq(Byte) /\ J(data, J(R, S)) \in Seq(Byte)
            /\ J(J(F, L), data) \in Seq(Byte)
      BY <1>1, <1>6
    <2>2. J(J(J(J(F, L), data), R), S) = J(J(J(F, L), data), J(R, S))
      BY <1>1, <1>7, <2>1
    <2>3. J(J(J(F, L), data), J(R, S)) = J(J(F, L), J(data, J(R, S)))
      BY <1>1, <1>7, <2>1
    <2>4. J(J(F, L), J(data, J(R, S))) = J(F, J(L, J(data, J(R, S))))
      BY <1>1, <1>7, <2>1
    <2> QED BY <2>2, <2>3, <2>4
  <1>12. J(F, J(L, J(data, J(R, S)))) = Join(F, c, Join(L, c, Join(data, c, Join(R, c, S))))
    <2>1. J(R, S) = Join(R, c, S) /\ J(R, S) \in Seq(Byte)
      BY <1>1, <1>6
    <2>2. J(data, J(R, S)) = Join(data, c, J(R, S)) /\ J(data, J(R, S)) \in Seq(Byte)
      BY <1>6, <2>1
    <2>3. J(L, J(data, J(R, S))) = Join(L, c, J(data, J(R, S)))
            /\ J(L, J(data, J(R, S))) \in Seq(Byte)
      BY <1>1, <1>6, <2>2
    <2>4. J(F, J(L, J(data, J(R, S)))) = Join(F, c, J(L, J(data, J(R, S))))
      BY <1>1, <1>6, <2>3
    <2> QED BY <2>1, <2>2, <2>3, <2>4
  <1> QED BY <1>5, <1>9, <1>10, <1>11, <1>12

\* The fields parse_event takes a line apart into, one after the other.
RcvFields(fields) ==
  LET rest == AfterComma(AfterComma(fields))
      len  == ParseInt(BeforeComma(AfterComma(fields)), 0, U32_MAX)
  IN  [from |-> ParseInt(BeforeComma(fields), 0, U16_MAX), len |-> len, rest |-> rest,
       signal |-> SubSeq(rest, len.val + 2, Len(rest))]

\* ParseRcv is decided by its fields.
LEMMA ParseRcvIs ==
  ASSUME NEW line
  PROVE  LET fields == Tail(Tail(line))
             f == RcvFields(fields)
             rssi == ParseInt(BeforeComma(f.signal), -I16_MAX - 1, I16_MAX)
             snr  == ParseInt(AfterComma(f.signal), -I16_MAX - 1, I16_MAX)
         IN  ParseRcv(line) =
               IF /\ Len(line) >= 2 /\ line[2] = "="
                  /\ HasComma(fields) /\ f.from.ok
                  /\ HasComma(AfterComma(fields)) /\ f.len.ok
                  /\ DataEnds(f.rest, f.len.val)
                  /\ HasComma(f.signal) /\ rssi.ok /\ snr.ok
                 THEN Parsed([from |-> f.from.val, data |-> SubSeq(f.rest, 1, f.len.val),
                              rssi |-> rssi.val, snr |-> snr.val])
                 ELSE ParseError
PROOF BY DEF ParseRcv, RcvFields

\* What the module prints of a transmission parses to that transmission.
THEOREM RcvReadsBack ==
  ASSUME NEW data \in Seq(Byte), Len(data) <= U32_MAX, NEW signal \in Signal
  PROVE  ParseRcv(RcvHead(data, signal)) =
           Parsed([from |-> signal.from, data |-> data,
                   rssi |-> signal.rssi, snr |-> signal.snr])
PROOF
  <1> DEFINE text == RcvText(data, signal)
             sig == SignalText(signal)
             rest == Join(data, ",", sig)
             tail == Join(Printed(Len(data)), ",", rest)
             n == Len(data)
             line == RcvHead(data, signal)
             f == RcvFields(Tail(Tail(line)))
  <1>1. /\ Plain(Printed(signal.from)) /\ Plain(Printed(n))
        /\ Plain(Printed(signal.rssi)) /\ Plain(Printed(signal.snr))
        /\ n \in Nat /\ signal.from \in 0..U16_MAX
        /\ signal.rssi \in I16 /\ signal.snr \in I16
        /\ sig \in Seq(Byte) /\ rest \in Seq(Byte) /\ tail \in Seq(Byte) /\ text \in Seq(Byte)
    BY RcvParts
  <1>0. n \in Nat /\ n <= U32_MAX
    BY <1>1
  <1>2. "+RCV" \in Byte /\ "=" \in Byte /\ "," \in Byte
    BY DEF Byte
  <1>3. Tail(Tail(line)) = text /\ Len(line) >= 2 /\ line[2] = "="
    <2> DEFINE c == "+RCV"
               q == "="
               u == <<c>> \o (<<q>> \o text)
    <2>1. c \in Byte /\ q \in Byte /\ text \in Seq(Byte) /\ Len(text) \in Nat
      BY <1>1, <1>2, LenProperties
    <2> HIDE DEF text, c, q
    <2>2. Len(u) = Len(text) + 2 /\ Tail(Tail(u)) = text /\ u[2] = q
      BY <2>1, TailOfTwo
    <2> HIDE DEF u
    <2>3. Len(u) >= 2
      BY <2>1, <2>2
    <2>4. line = u
      BY DEF RcvHead, text, c, q, u
    <2> QED BY <2>2, <2>3, <2>4 DEF text, q
  <1>4. HasComma(text) /\ BeforeComma(text) = Printed(signal.from) /\ AfterComma(text) = tail
    BY <1>1, FieldFacts DEF RcvText
  <1>5. HasComma(tail) /\ BeforeComma(tail) = Printed(n) /\ AfterComma(tail) = rest
    BY <1>1, FieldFacts
  <1>6. /\ Len(rest) = n + 1 + Len(sig) /\ rest[n + 1] = ","
        /\ SubSeq(rest, 1, n) = data /\ SubSeq(rest, n + 2, Len(rest)) = sig
    <2> DEFINE comma == ","
    <2>1. comma \in Byte
      BY <1>2
    <2> HIDE DEF comma
    <2>2. Joins(Join(data, comma, sig), data, comma, sig)
      BY <1>1, <2>1, JoinFacts
    <2> QED BY <2>2 DEF Joins, comma
  <1>7. /\ HasComma(sig) /\ BeforeComma(sig) = Printed(signal.rssi)
        /\ AfterComma(sig) = Printed(signal.snr)
    <2>1. Printed(signal.snr) \in Seq(Byte)
      BY <1>1 DEF Plain
    <2> QED BY <1>1, <2>1, FieldFacts DEF SignalText
  <1>8. /\ ParseInt(Printed(signal.from), 0, U16_MAX) = Parsed(signal.from)
        /\ ParseInt(Printed(n), 0, U32_MAX) = Parsed(n)
        /\ ParseInt(Printed(signal.rssi), -I16_MAX - 1, I16_MAX) = Parsed(signal.rssi)
        /\ ParseInt(Printed(signal.snr), -I16_MAX - 1, I16_MAX) = Parsed(signal.snr)
    <2>1. U16_MAX \in Nat /\ U32_MAX \in Nat /\ I16_MAX \in Nat
      BY DEF U16_MAX, U32_MAX, I16_MAX
    <2>2. 0 \in Int /\ 0 <= 0 /\ -I16_MAX - 1 \in Int /\ -I16_MAX - 1 <= 0
      BY <2>1
    <2>3. n \in 0..U32_MAX
      BY <1>0, <2>1
    <2> HIDE DEF n
    <2>4. ParseInt(Printed(signal.from), 0, U16_MAX) = Parsed(signal.from)
      BY <1>1, <2>1, <2>2, NumberReadsBack
    <2>5. ParseInt(Printed(n), 0, U32_MAX) = Parsed(n)
      BY <2>1, <2>2, <2>3, NumberReadsBack
    <2>6. signal.rssi \in (-I16_MAX - 1)..I16_MAX /\ signal.snr \in (-I16_MAX - 1)..I16_MAX
      BY <1>1 DEF I16
    <2> DEFINE low == -I16_MAX - 1
    <2>7. low \in Int /\ low <= 0 /\ signal.rssi \in low..I16_MAX /\ signal.snr \in low..I16_MAX
      BY <2>2, <2>6
    <2> HIDE DEF low
    <2>8. /\ ParseInt(Printed(signal.rssi), low, I16_MAX) = Parsed(signal.rssi)
          /\ ParseInt(Printed(signal.snr), low, I16_MAX) = Parsed(signal.snr)
      BY <2>1, <2>7, NumberReadsBack
    <2> QED BY <2>4, <2>5, <2>8 DEF low
  <1> HIDE DEF text, sig, rest, tail, n, line, f
  <1>9. /\ f.from = Parsed(signal.from) /\ f.len = Parsed(n) /\ f.rest = rest
        /\ f.signal = sig
    <2>1. Parsed(n).val = n
      BY DEF Parsed
    <2> QED BY <1>3, <1>4, <1>5, <1>6, <1>8, <2>1 DEF f, RcvFields
  <1>10. DataEnds(rest, n)
    <2>1. Len(sig) \in Nat
      BY <1>1, LenProperties
    <2>2. Len(rest) = n + 1 + Len(sig)
      BY <1>6
    <2>3. Len(rest) >= n + 1
      BY <1>0, <2>1, <2>2
    <2> QED BY <1>6, <2>3 DEF DataEnds
  <1>11. \A v : Parsed(v).ok /\ Parsed(v).val = v
    BY DEF Parsed
  <1>12. ParseRcv(line) =
           Parsed([from |-> signal.from, data |-> data,
                   rssi |-> signal.rssi, snr |-> signal.snr])
    <2>1. /\ HasComma(Tail(Tail(line))) /\ HasComma(AfterComma(Tail(Tail(line))))
          /\ f.from.ok /\ f.len.ok /\ f.from.val = signal.from /\ f.len.val = n
          /\ DataEnds(f.rest, f.len.val) /\ HasComma(f.signal)
          /\ SubSeq(f.rest, 1, f.len.val) = data
      BY <1>3, <1>4, <1>5, <1>6, <1>7, <1>9, <1>10, <1>11
    <2>2. /\ ParseInt(BeforeComma(f.signal), -I16_MAX - 1, I16_MAX) = Parsed(signal.rssi)
          /\ ParseInt(AfterComma(f.signal), -I16_MAX - 1, I16_MAX) = Parsed(signal.snr)
      BY <1>7, <1>8, <1>9
    <2> QED BY <1>3, <1>11, <2>1, <2>2, ParseRcvIs DEF f
  <1> QED BY <1>12 DEF line

-----------------------------------------------------------------------------
(* Answers to queries                                                      *)

\* The k-th smallest element of S.
Nth(S, k) == CHOOSE i \in S : Cardinality({j \in S : j <= i}) = k

\* A set of three numbers, in ascending order.
LEMMA ThreeInOrder ==
  ASSUME NEW p1 \in Int, NEW p2 \in Int, NEW p3 \in Int, p1 < p2, p2 < p3,
         NEW S, S = {p1, p2, p3}
  PROVE  Cardinality(S) = 3 /\ Nth(S, 1) = p1 /\ Nth(S, 2) = p2 /\ Nth(S, 3) = p3
PROOF
  <1> DEFINE C(i) == Cardinality({j \in S : j <= i})
  <1>1. Cardinality({p1}) = 1 /\ IsFiniteSet({p1})
    BY FS_Singleton
  <1>2. Cardinality({p1, p2}) = 2 /\ IsFiniteSet({p1, p2})
    <2>1. {p1, p2} = {p1} \cup {p2} /\ p2 \notin {p1}
      OBVIOUS
    <2>2. /\ IsFiniteSet({p1} \cup {p2})
          /\ Cardinality({p1} \cup {p2}) = Cardinality({p1}) + 1
      BY <1>1, <2>1, FS_AddElement, Zenon
    <2> QED BY <1>1, <2>1, <2>2
  <1>3. Cardinality(S) = 3
    <2>1. S = {p1, p2} \cup {p3} /\ p3 \notin {p1, p2}
      OBVIOUS
    <2>2. Cardinality({p1, p2} \cup {p3}) = Cardinality({p1, p2}) + 1
      BY <1>2, <2>1, FS_AddElement, Zenon
    <2> QED BY <1>2, <2>1, <2>2
  <1>4. {j \in S : j <= p1} = {p1} /\ {j \in S : j <= p2} = {p1, p2} /\ {j \in S : j <= p3} = S
    OBVIOUS
  <1>5. C(p1) = 1 /\ C(p2) = 2 /\ C(p3) = 3
    BY <1>1, <1>2, <1>3, <1>4
  <1> HIDE DEF C
  <1>6. /\ (CHOOSE i \in S : C(i) = 1) = p1
        /\ (CHOOSE i \in S : C(i) = 2) = p2
        /\ (CHOOSE i \in S : C(i) = 3) = p3
    BY <1>5
  <1> QED BY <1>3, <1>6 DEF C, Nth

\* Four fields between three commas.
FourFields(w, x, y, z) == Join(w, ",", Join(x, ",", Join(y, ",", z)))

\* Where they are in b.
FourAt(b, w, x, y, z) ==
  LET p1 == Len(w) + 1
      p2 == p1 + Len(x) + 1
      p3 == p2 + Len(y) + 1
  IN  /\ b \in Seq(Byte) /\ Len(b) = p3 + Len(z)
      /\ \A i \in 1..Len(w) : b[i] = w[i]
      /\ \A i \in 1..Len(x) : b[p1 + i] = x[i]
      /\ \A i \in 1..Len(y) : b[p2 + i] = y[i]
      /\ \A i \in 1..Len(z) : b[p3 + i] = z[i]
      /\ b[p1] = "," /\ b[p2] = "," /\ b[p3] = ","

LEMMA FourFieldsAt ==
  ASSUME NEW w, NEW x, NEW y, NEW z, Plain(w), Plain(x), Plain(y), Plain(z)
  PROVE  FourAt(FourFields(w, x, y, z), w, x, y, z)
PROOF
  <1> DEFINE c == ","
             t2 == Join(y, c, z)
             t1 == Join(x, c, t2)
             b == Join(w, c, t1)
             n1 == Len(w)
             n2 == Len(x)
             n3 == Len(y)
             n4 == Len(z)
  <1>1. w \in Seq(Byte) /\ x \in Seq(Byte) /\ y \in Seq(Byte) /\ z \in Seq(Byte)
    BY DEF Plain
  <1>2. c \in Byte
    BY DEF Byte
  <1>3. b = FourFields(w, x, y, z)
    BY DEF FourFields
  <1> HIDE DEF c
  <1>4. n1 \in Nat /\ n2 \in Nat /\ n3 \in Nat /\ n4 \in Nat
    BY <1>1, LenProperties
  <1>5. Joins(t2, y, c, z)
    BY <1>1, <1>2, JoinFacts
  <1>6. Joins(t1, x, c, t2)
    <2>1. t2 \in Seq(Byte)
      BY <1>5 DEF Joins
    <2> HIDE DEF t2
    <2> QED BY <1>1, <1>2, <2>1, JoinFacts
  <1>7. Joins(b, w, c, t1)
    <2>1. t1 \in Seq(Byte)
      BY <1>6 DEF Joins
    <2> HIDE DEF t1, t2
    <2> QED BY <1>1, <1>2, <2>1, JoinFacts
  <1> HIDE DEF t1, t2, b, n1, n2, n3, n4
  <1>8. /\ Len(t2) = n3 + 1 + n4 /\ t2[n3 + 1] = c
        /\ \A i \in 1..n3 : t2[i] = y[i]
        /\ \A i \in 1..n4 : t2[n3 + 1 + i] = z[i]
    BY <1>5 DEF Joins, n3, n4
  <1>9. /\ Len(t1) = n2 + 1 + Len(t2) /\ t1[n2 + 1] = c
        /\ \A i \in 1..n2 : t1[i] = x[i]
        /\ \A i \in 1..Len(t2) : t1[n2 + 1 + i] = t2[i]
    BY <1>6 DEF Joins, n2
  <1>10. /\ b \in Seq(Byte) /\ Len(b) = n1 + 1 + Len(t1) /\ b[n1 + 1] = c
         /\ \A i \in 1..n1 : b[i] = w[i]
         /\ \A i \in 1..Len(t1) : b[n1 + 1 + i] = t1[i]
    BY <1>7 DEF Joins, n1
  <1> DEFINE p1 == n1 + 1
             p2 == p1 + n2 + 1
             p3 == p2 + n3 + 1
             m1 == Len(t1)
             m2 == Len(t2)
  <1>11. m2 = n3 + 1 + n4 /\ m1 = n2 + 1 + m2
    BY <1>8, <1>9
  <1> HIDE DEF m1, m2
  <1>12. Len(b) = p3 + n4
    <2>1. Len(b) = n1 + 1 + m1
      BY <1>10 DEF m1
    <2> QED BY <1>4, <1>11, <2>1
  <1>13. \A i \in 1..n2 : b[p1 + i] = x[i]
    <2>1. \A i \in 1..n2 : i \in 1..m1
      BY <1>4, <1>11
    <2> QED BY <1>9, <1>10, <2>1 DEF m1
  <1>14. b[p2] = c
    <2>1. n2 + 1 \in 1..m1 /\ p1 + (n2 + 1) = p2
      BY <1>4, <1>11
    <2> QED BY <1>9, <1>10, <2>1 DEF m1
  <1>15. \A i \in 1..Len(t2) : b[p2 + i] = t2[i]
    <2>1. ASSUME NEW i \in 1..Len(t2) PROVE b[p2 + i] = t2[i]
      <3>1. i \in 1..m2
        BY DEF m2
      <3>2. n2 + 1 + i \in 1..m1 /\ p1 + (n2 + 1 + i) = p2 + i
        BY <1>4, <1>11, <3>1
      <3> QED BY <1>9, <1>10, <3>1, <3>2 DEF m1, m2
    <2> QED BY <2>1
  <1>16. \A i \in 1..n3 : b[p2 + i] = y[i]
    <2>1. \A i \in 1..n3 : i \in 1..m2
      BY <1>4, <1>11
    <2> QED BY <1>8, <1>15, <2>1 DEF m2
  <1>17. b[p3] = c
    <2>1. n3 + 1 \in 1..m2 /\ p2 + (n3 + 1) = p3
      BY <1>4, <1>11
    <2> QED BY <1>8, <1>15, <2>1 DEF m2
  <1>18. \A i \in 1..n4 : b[p3 + i] = z[i]
    <2>1. ASSUME NEW i \in 1..n4 PROVE b[p3 + i] = z[i]
      <3>1. n3 + 1 + i \in 1..m2 /\ p2 + (n3 + 1 + i) = p3 + i
        BY <1>4, <1>11
      <3> QED BY <1>8, <1>15, <3>1 DEF m2
    <2> QED BY <2>1
  <1> QED BY <1>3, <1>10, <1>12, <1>13, <1>14, <1>16, <1>17, <1>18 DEF c, n1, n2, n3, n4, FourAt

\* A part of a text, byte by byte.
LEMMA PartIs ==
  ASSUME NEW b \in Seq(Byte), NEW s \in Seq(Byte), NEW m \in Nat,
         m + Len(s) <= Len(b), \A i \in 1..Len(s) : b[m + i] = s[i]
  PROVE  SubSeq(b, m + 1, m + Len(s)) = s
PROOF
  <1> DEFINE n == Len(s)
             lo == m + 1
             hi == m + n
             u == SubSeq(b, lo, hi)
  <1>1. n \in Nat /\ Len(b) \in Nat
    BY LenProperties
  <1>2. hi <= Len(b)
    OBVIOUS
  <1>3. \A i \in 1..n : b[m + i] = s[i]
    OBVIOUS
  <1> HIDE DEF n
  <1>4. \A i \in lo..hi : b[i] \in Byte
    <2>1. \A i \in lo..hi : i \in 1..Len(b)
      BY <1>1, <1>2
    <2> QED BY <2>1, ElementOfSeq
  <1>5. lo \in Int /\ hi \in Int /\ hi - lo + 1 = n /\ (n # 0 => lo <= hi) /\ (n = 0 => ~(lo <= hi))
    BY <1>1
  <1>6. \A i \in 1..n : lo + i - 1 = m + i
    BY <1>1
  <1> HIDE DEF lo, hi
  <1>7. /\ u \in Seq(Byte) /\ Len(u) = IF lo <= hi THEN hi - lo + 1 ELSE 0
        /\ \A i \in 1..(hi - lo + 1) : u[i] = b[lo + i - 1]
    BY <1>4, <1>5, SubSeqProperties
  <1> HIDE DEF u
  <1>8. Len(u) = n
    BY <1>5, <1>7
  <1>9. \A i \in 1..n : u[i] = s[i]
    BY <1>3, <1>5, <1>6, <1>7
  <1>10. u = s
    BY <1>7, <1>8, <1>9, SeqEqual DEF n
  <1> QED BY <1>10 DEF u, lo, hi, n

\* split finds the four fields.
LEMMA SplitFour ==
  ASSUME NEW w, NEW x, NEW y, NEW z, Plain(w), Plain(x), Plain(y), Plain(z)
  PROVE  LET parts == Split(FourFields(w, x, y, z))
         IN  /\ DOMAIN parts = 1..4
             /\ parts[1] = w /\ parts[2] = x /\ parts[3] = y /\ parts[4] = z
PROOF
  <1> DEFINE b == FourFields(w, x, y, z)
             n1 == Len(w)
             n2 == Len(x)
             n3 == Len(y)
             n4 == Len(z)
             p1 == n1 + 1
             p2 == p1 + n2 + 1
             p3 == p2 + n3 + 1
             C == {i \in DOMAIN b : b[i] = ","}
             cut == [k \in 0..(Cardinality(C) + 1) |->
                       CASE k = 0 -> 0
                         [] k \in 1..Cardinality(C) -> Nth(C, k)
                         [] OTHER -> Len(b) + 1]
  <1>1. w \in Seq(Byte) /\ x \in Seq(Byte) /\ y \in Seq(Byte) /\ z \in Seq(Byte)
    BY DEF Plain
  <1>2. n1 \in Nat /\ n2 \in Nat /\ n3 \in Nat /\ n4 \in Nat
    BY <1>1, LenProperties
  <1>0. FourAt(b, w, x, y, z)
    BY FourFieldsAt
  <1>3. b \in Seq(Byte)
    BY <1>0 DEF FourAt
  <1>4. Len(b) = p3 + n4
    BY <1>0 DEF FourAt
  <1>5. /\ \A i \in 1..n1 : b[i] = w[i]
        /\ \A i \in 1..n2 : b[p1 + i] = x[i]
        /\ \A i \in 1..n3 : b[p2 + i] = y[i]
        /\ \A i \in 1..n4 : b[p3 + i] = z[i]
    BY <1>0 DEF FourAt
  <1>6. b[p1] = "," /\ b[p2] = "," /\ b[p3] = ","
    BY <1>0 DEF FourAt
  <1>7. /\ \A i \in 1..n1 : w[i] # ","
        /\ \A i \in 1..n2 : x[i] # ","
        /\ \A i \in 1..n3 : y[i] # ","
        /\ \A i \in 1..n4 : z[i] # ","
    BY DEF Plain
  <1>8. Split(b) = [k \in 1..(Cardinality(C) + 1) |-> SubSeq(b, cut[k - 1] + 1, cut[k] - 1)]
    BY Zenon DEF Split, Nth
  <1>9. DOMAIN b = 1..Len(b)
    BY <1>3, LenProperties
  <1> HIDE DEF b, n1, n2, n3, n4
  <1>10. C = {p1, p2, p3}
    <2>1. p1 \in 1..Len(b) /\ p2 \in 1..Len(b) /\ p3 \in 1..Len(b)
      BY <1>2, <1>4
    <2>2. ASSUME NEW i \in 1..Len(b), b[i] = "," PROVE i \in {p1, p2, p3}
      <3>1. \/ i \in 1..n1
            \/ i \in {p1, p2, p3}
            \/ \E k \in 1..n2 : i = p1 + k
            \/ \E k \in 1..n3 : i = p2 + k
            \/ \E k \in 1..n4 : i = p3 + k
        <4>1. i \in 1..(p3 + n4)
          BY <1>4
        <4>2. ASSUME i > p1, i < p2 PROVE \E k \in 1..n2 : i = p1 + k
          <5>1. i - p1 \in 1..n2 /\ i = p1 + (i - p1)
            BY <1>2, <4>1, <4>2
          <5> QED BY <5>1
        <4>3. ASSUME i > p2, i < p3 PROVE \E k \in 1..n3 : i = p2 + k
          <5>1. i - p2 \in 1..n3 /\ i = p2 + (i - p2)
            BY <1>2, <4>1, <4>3
          <5> QED BY <5>1
        <4>4. ASSUME i > p3 PROVE \E k \in 1..n4 : i = p3 + k
          <5>1. i - p3 \in 1..n4 /\ i = p3 + (i - p3)
            BY <1>2, <4>1, <4>4
          <5> QED BY <5>1
        <4>5. i <= n1 \/ i = p1 \/ (i > p1 /\ i < p2) \/ i = p2 \/ (i > p2 /\ i < p3)
                \/ i = p3 \/ i > p3
          BY <1>2, <4>1
        <4>6. i <= n1 => i \in 1..n1
          BY <1>2, <4>1
        <4> QED BY <4>2, <4>3, <4>4, <4>5, <4>6
      <3> DEFINE comma == ","
      <3>2. b[i] = comma
        BY <2>2
      <3>3. /\ \A k \in 1..n1 : w[k] # comma
            /\ \A k \in 1..n2 : x[k] # comma
            /\ \A k \in 1..n3 : y[k] # comma
            /\ \A k \in 1..n4 : z[k] # comma
        BY <1>7
      <3> HIDE DEF comma, p1, p2, p3
      <3> QED BY <1>5, <3>1, <3>2, <3>3
    <2> QED BY <1>6, <1>9, <2>1, <2>2
  <1>11. p1 \in Int /\ p2 \in Int /\ p3 \in Int /\ p1 < p2 /\ p2 < p3
    BY <1>2
  <1> HIDE DEF p1, p2, p3
  <1> HIDE DEF C
  <1>12. Cardinality(C) = 3 /\ Nth(C, 1) = p1 /\ Nth(C, 2) = p2 /\ Nth(C, 3) = p3
    BY <1>10, <1>11, ThreeInOrder
  <1>13. cut = [k \in 0..4 |-> CASE k = 0 -> 0
                                 [] k \in 1..3 -> Nth(C, k)
                                 [] OTHER -> Len(b) + 1]
    BY <1>12
  <1> HIDE DEF cut
  <1>15. Split(b) = [k \in 1..4 |-> SubSeq(b, cut[k - 1] + 1, cut[k] - 1)]
    BY <1>8, <1>12
  <1>16. cut[0] = 0 /\ cut[1] = p1 /\ cut[2] = p2 /\ cut[3] = p3 /\ cut[4] = Len(b) + 1
    BY <1>12, <1>13
  <1>17. /\ Split(b)[1] = SubSeq(b, 0 + 1, p1 - 1)
         /\ Split(b)[2] = SubSeq(b, p1 + 1, p2 - 1)
         /\ Split(b)[3] = SubSeq(b, p2 + 1, p3 - 1)
         /\ Split(b)[4] = SubSeq(b, p3 + 1, (Len(b) + 1) - 1)
    <2>1. \A k \in 1..4 : Split(b)[k] = SubSeq(b, cut[k - 1] + 1, cut[k] - 1)
      BY <1>15
    <2>2. 1 - 1 = 0 /\ 2 - 1 = 1 /\ 3 - 1 = 2 /\ 4 - 1 = 3
      OBVIOUS
    <2>3. /\ Split(b)[1] = SubSeq(b, cut[0] + 1, cut[1] - 1)
          /\ Split(b)[2] = SubSeq(b, cut[1] + 1, cut[2] - 1)
          /\ Split(b)[3] = SubSeq(b, cut[2] + 1, cut[3] - 1)
          /\ Split(b)[4] = SubSeq(b, cut[3] + 1, cut[4] - 1)
      BY <2>1, <2>2
    <2> QED BY <1>16, <2>3
  <1>18. /\ p1 - 1 = 0 + n1 /\ p2 - 1 = p1 + n2 /\ p3 - 1 = p2 + n3
         /\ (Len(b) + 1) - 1 = p3 + n4
         /\ p1 \in Nat /\ p2 \in Nat /\ p3 \in Nat /\ 0 \in Nat
         /\ 0 + n1 <= Len(b) /\ p1 + n2 <= Len(b) /\ p2 + n3 <= Len(b) /\ p3 + n4 <= Len(b)
    BY <1>2, <1>4 DEF p1, p2, p3
  <1>19. \A i \in 1..n1 : b[0 + i] = w[i]
    BY <1>5
  <1>20. /\ SubSeq(b, 0 + 1, 0 + n1) = w /\ SubSeq(b, p1 + 1, p1 + n2) = x
         /\ SubSeq(b, p2 + 1, p2 + n3) = y /\ SubSeq(b, p3 + 1, p3 + n4) = z
    <2>1. SubSeq(b, 0 + 1, 0 + n1) = w
      BY <1>1, <1>3, <1>18, <1>19, PartIs DEF n1
    <2>2. SubSeq(b, p1 + 1, p1 + n2) = x
      BY <1>1, <1>3, <1>5, <1>18, PartIs DEF n2
    <2>3. SubSeq(b, p2 + 1, p2 + n3) = y
      BY <1>1, <1>3, <1>5, <1>18, PartIs DEF n3
    <2>4. SubSeq(b, p3 + 1, p3 + n4) = z
      BY <1>1, <1>3, <1>5, <1>18, PartIs DEF n4
    <2> QED BY <2>1, <2>2, <2>3, <2>4
  <1>21. DOMAIN Split(b) = 1..4
    BY <1>15
  <1> QED BY <1>17, <1>18, <1>20, <1>21 DEF b

\* What parse_event and parse_response are handed of the answer to a query.
AnswerHead(s) == <<PrefixOf[s.setting]>> \o TextOf(s)

\* The prefixes are bytes, and not one that begins or ends something else.
LEMMA PrefixFacts ==
  \A s \in Setting : /\ PrefixOf[s] \in Byte
                     /\ PrefixOf[s] \notin {"+RCV", "=", "CR", "LF", ","}
                     /\ s # "None"
PROOF
  <1> SUFFICES ASSUME NEW s \in Setting
               PROVE  /\ PrefixOf[s] \in Byte
                      /\ PrefixOf[s] \notin {"+RCV", "=", "CR", "LF", ","}
                      /\ s # "None"
    OBVIOUS
  <1>1. s \in {"Address", "NetworkId", "Band", "Parameters", "Cpin"}
    BY DEF Setting, PrefixOf
  <1>2. PrefixOf[s] \in {"+ADDRESS=", "+NETWORKID=", "+BAND=", "+PARAMETER=", "+CPIN="}
    BY <1>1 DEF PrefixOf
  <1>3. PrefixOf[s] \in Byte
    BY DEF Byte
  <1> QED BY <1>1, <1>2, <1>3

\* An answer's text is bytes without an end of line.
Unbroken(t) == t \in Seq(Byte) /\ \A i \in 1..Len(t) : t[i] \notin {"CR", "LF"}

\* The limits are numbers.
LEMMA Limits == U8_MAX \in Nat /\ U16_MAX \in Nat /\ U32_MAX \in Nat /\ I16_MAX \in Nat
PROOF BY DEF U8_MAX, U16_MAX, U32_MAX, I16_MAX

\* A number without a sign.
LEMMA NaturalText ==
  ASSUME NEW max \in Nat, NEW n \in 0..max
  PROVE  /\ Decimal(n) = Printed(n) /\ Plain(Printed(n)) /\ Printed(n) \in Seq(Byte)
         /\ ParseInt(Printed(n), 0, max) = Parsed(n)
PROOF
  <1>1. n \in Int /\ ~(n < 0) /\ 0 \in Int /\ 0 <= 0
    OBVIOUS
  <1>2. Plain(Printed(n)) /\ ParseInt(Printed(n), 0, max) = Parsed(n)
    BY <1>1, PrintedPlain, NumberReadsBack
  <1> QED BY <1>1, <1>2 DEF Printed, Plain

\* Four numbers, as EncodeValue writes them.
LEMMA ParametersText ==
  ASSUME NEW v \in [1..4 -> 0..U8_MAX]
  PROVE  EncodeValue("Parameters", v) =
           FourFields(Printed(v[1]), Printed(v[2]), Printed(v[3]), Printed(v[4]))
PROOF
  <1> DEFINE c == ","
             J(x, y) == (x \o <<c>>) \o y
             w == Printed(v[1])
             x == Printed(v[2])
             y == Printed(v[3])
             z == Printed(v[4])
  <1>1. c \in Byte
    BY DEF Byte
  <1>2. /\ v[1] \in 0..U8_MAX /\ v[2] \in 0..U8_MAX
        /\ v[3] \in 0..U8_MAX /\ v[4] \in 0..U8_MAX
    OBVIOUS
  <1>3. Decimal(v[1]) = w /\ Decimal(v[2]) = x /\ Decimal(v[3]) = y /\ Decimal(v[4]) = z
    BY <1>2, Limits, NaturalText
  <1>4. w \in Seq(Byte) /\ x \in Seq(Byte) /\ y \in Seq(Byte) /\ z \in Seq(Byte)
    BY <1>2, Limits, NaturalText
  <1>5. EncodeValue("Parameters", v) =
          (((((Decimal(v[1]) \o <<c>>) \o Decimal(v[2])) \o <<c>>) \o Decimal(v[3])) \o <<c>>)
            \o Decimal(v[4])
    BY DEF EncodeValue
  <1>6. FourFields(w, x, y, z) = Join(w, c, Join(x, c, Join(y, c, z)))
    BY DEF FourFields
  <1> HIDE DEF c, w, x, y, z
  <1>7. EncodeValue("Parameters", v) = J(J(J(w, x), y), z)
    BY <1>3, <1>5
  <1>8. \A a, b \in Seq(Byte) : Join(a, c, b) \in Seq(Byte) /\ J(a, b) = Join(a, c, b)
    BY <1>1, JoinFromLeft, Zenon
  <1>9. \A a, b, d \in Seq(Byte) : Join(Join(a, c, b), c, d) = Join(a, c, Join(b, c, d))
    BY <1>1, JoinFromLeft, Zenon
  <1> HIDE DEF J
  <1>10. J(J(J(w, x), y), z) = Join(Join(Join(w, c, x), c, y), c, z)
    BY <1>4, <1>8
  <1>11. Join(Join(Join(w, c, x), c, y), c, z) = Join(Join(w, c, x), c, Join(y, c, z))
    BY <1>4, <1>8, <1>9
  <1>12. Join(Join(w, c, x), c, Join(y, c, z)) = Join(w, c, Join(x, c, Join(y, c, z)))
    BY <1>4, <1>8, <1>9
  <1>13. EncodeValue("Parameters", v) = FourFields(w, x, y, z)
    BY <1>6, <1>7, <1>10, <1>11, <1>12
  <1> QED BY <1>13 DEF w, x, y, z

\* Four numbers parse. (decode.rs: the +PARAMETER answer.)
LEMMA ParametersParse ==
  ASSUME NEW v \in [1..4 -> 0..U8_MAX]
  PROVE  /\ Unbroken(EncodeValue("Parameters", v))
         /\ ParseParameters(EncodeValue("Parameters", v)) = Parsed(v)
PROOF
  <1> DEFINE w == Printed(v[1])
             x == Printed(v[2])
             y == Printed(v[3])
             z == Printed(v[4])
             b == FourFields(w, x, y, z)
             parts == [k \in DOMAIN Split(b) |-> ParseInt(Split(b)[k], 0, U8_MAX)]
  <1>1. /\ v[1] \in 0..U8_MAX /\ v[2] \in 0..U8_MAX
        /\ v[3] \in 0..U8_MAX /\ v[4] \in 0..U8_MAX
    OBVIOUS
  <1>2. EncodeValue("Parameters", v) = b
    BY ParametersText
  <1>3. Plain(w) /\ Plain(x) /\ Plain(y) /\ Plain(z)
    BY <1>1, Limits, NaturalText
  <1>4. /\ ParseInt(w, 0, U8_MAX) = Parsed(v[1]) /\ ParseInt(x, 0, U8_MAX) = Parsed(v[2])
        /\ ParseInt(y, 0, U8_MAX) = Parsed(v[3]) /\ ParseInt(z, 0, U8_MAX) = Parsed(v[4])
    BY <1>1, Limits, NaturalText
  <1> HIDE DEF w, x, y, z
  <1>5. /\ DOMAIN Split(b) = 1..4
        /\ Split(b)[1] = w /\ Split(b)[2] = x /\ Split(b)[3] = y /\ Split(b)[4] = z
    BY <1>3, SplitFour
  <1>6. ParseParameters(b) =
          IF Len(parts) = 4 /\ \A k \in 1..4 : parts[k].ok
            THEN Parsed([k \in 1..4 |-> parts[k].val]) ELSE ParseError
    BY DEF ParseParameters
  <1>7. FourAt(b, w, x, y, z)
    BY <1>3, FourFieldsAt
  <1> HIDE DEF b
  <1>8. parts = [k \in 1..4 |-> ParseInt(Split(b)[k], 0, U8_MAX)]
    BY <1>5
  <1> HIDE DEF parts
  <1>9. Len(parts) = 4
    BY <1>8
  <1>10. /\ parts[1] = Parsed(v[1]) /\ parts[2] = Parsed(v[2])
         /\ parts[3] = Parsed(v[3]) /\ parts[4] = Parsed(v[4])
    BY <1>4, <1>5, <1>8
  <1>11. \A k \in 1..4 : parts[k].ok /\ parts[k].val = v[k]
    <2>1. \A k \in 1..4 : k = 1 \/ k = 2 \/ k = 3 \/ k = 4
      OBVIOUS
    <2> QED BY <1>10, <2>1 DEF Parsed
  <1>12. [k \in 1..4 |-> parts[k].val] = v
    BY <1>11
  <1>13. ParseParameters(b) = Parsed(v)
    BY <1>6, <1>9, <1>11, <1>12
  <1>14. Unbroken(b)
    <2> DEFINE n1 == Len(w)
               n2 == Len(x)
               n3 == Len(y)
               n4 == Len(z)
               p1 == n1 + 1
               p2 == p1 + n2 + 1
               p3 == p2 + n3 + 1
               Bad == {"CR", "LF"}
    <2>1. n1 \in Nat /\ n2 \in Nat /\ n3 \in Nat /\ n4 \in Nat
      BY <1>3, LenProperties DEF Plain
    <2>2. /\ b \in Seq(Byte)
          /\ \A i \in 1..n1 : b[i] = w[i]
          /\ \A i \in 1..n2 : b[p1 + i] = x[i]
          /\ \A i \in 1..n3 : b[p2 + i] = y[i]
          /\ \A i \in 1..n4 : b[p3 + i] = z[i]
      BY <1>7 DEF FourAt
    <2>3. Len(b) = p3 + n4
      BY <1>7 DEF FourAt
    <2>4. b[p1] \notin Bad /\ b[p2] \notin Bad /\ b[p3] \notin Bad
      BY <1>7 DEF FourAt
    <2>5. /\ \A i \in 1..n1 : w[i] \notin Bad
          /\ \A i \in 1..n2 : x[i] \notin Bad
          /\ \A i \in 1..n3 : y[i] \notin Bad
          /\ \A i \in 1..n4 : z[i] \notin Bad
      BY <1>3 DEF Plain
    <2> HIDE DEF n1, n2, n3, n4, Bad
    <2>6. ASSUME NEW i \in 1..Len(b) PROVE b[i] \notin Bad
      <3>1. i \in 1..(p3 + n4)
        BY <2>3
      <3>2. CASE i \in {p1, p2, p3}
        BY <2>4, <3>2
      <3>3. CASE i <= n1
        <4>1. i \in 1..n1
          BY <2>1, <3>1, <3>3
        <4> QED BY <2>2, <2>5, <4>1
      <3>4. CASE p1 < i /\ i < p2
        <4>1. i - p1 \in 1..n2 /\ p1 + (i - p1) = i
          BY <2>1, <3>1, <3>4
        <4> HIDE DEF p1
        <4> QED BY <2>2, <2>5, <4>1
      <3>5. CASE p2 < i /\ i < p3
        <4>1. i - p2 \in 1..n3 /\ p2 + (i - p2) = i
          BY <2>1, <3>1, <3>5
        <4> HIDE DEF p2
        <4> QED BY <2>2, <2>5, <4>1
      <3>6. CASE p3 < i
        <4>1. i - p3 \in 1..n4 /\ p3 + (i - p3) = i
          BY <2>1, <3>1, <3>6
        <4> HIDE DEF p3
        <4> QED BY <2>2, <2>5, <4>1
      <3>7. \/ i \in {p1, p2, p3} \/ i <= n1 \/ (p1 < i /\ i < p2)
            \/ (p2 < i /\ i < p3) \/ p3 < i
        BY <2>1, <3>1
      <3> QED BY <3>2, <3>3, <3>4, <3>5, <3>6, <3>7
    <2> QED BY <2>2, <2>6 DEF Unbroken, Bad
  <1> QED BY <1>2, <1>13, <1>14

\* The answer to each query is text without an end of line, and parses to the value
\* that was set. (encode.rs: encode; decode.rs: parse_response.)
THEOREM SettingReadsBack ==
  ASSUME NEW s, IsSetting(s)
  PROVE  Unbroken(TextOf(s)) /\ ParseAnswer(s.setting, AnswerHead(s)) = Parsed(s.val)
PROOF
  <1> DEFINE t == TextOf(s)
             line == AnswerHead(s)
  <1>1. s.setting \in {"Address", "NetworkId", "Band", "Parameters", "Cpin"}
    BY DEF IsSetting, Setting, PrefixOf
  <1>2. ASSUME Unbroken(t) PROVE Tail(line) = t
    <2>1. t \in Seq(Byte)
      BY <1>2 DEF Unbroken
    <2>2. PrefixOf[s.setting] \in Byte
      BY PrefixFacts DEF IsSetting
    <2> QED BY <2>1, <2>2, TailOfPrefixed DEF AnswerHead
  <1>3. ASSUME NEW max \in Nat, s.val \in 0..max, s.setting \in {"Address", "NetworkId", "Band"}
        PROVE  Unbroken(t) /\ ParseInt(t, 0, max) = Parsed(s.val)
    <2> DEFINE n == s.val
    <2>1. t = EncodeValue(s.setting, n)
      BY <1>3 DEF TextOf
    <2>2. EncodeValue(s.setting, n) = Decimal(n)
      BY <1>3 DEF EncodeValue
    <2>3. n \in 0..max
      BY <1>3
    <2> HIDE DEF n
    <2>4. /\ Decimal(n) = Printed(n) /\ Plain(Printed(n))
          /\ ParseInt(Printed(n), 0, max) = Parsed(n)
      BY <2>3, NaturalText
    <2> QED BY <2>1, <2>2, <2>4 DEF Plain, Unbroken, n
  <1>4. CASE s.setting = "Address"
    <2>1. s.val \in 0..U16_MAX
      BY <1>4 DEF IsSetting, WellTyped
    <2>2. Unbroken(t) /\ ParseInt(t, 0, U16_MAX) = Parsed(s.val)
      BY <1>3, <1>4, <2>1, Limits
    <2>3. ParseAnswer(s.setting, line) = ParseInt(Tail(line), 0, U16_MAX)
      BY <1>4 DEF ParseAnswer
    <2> QED BY <1>2, <2>2, <2>3
  <1>5. CASE s.setting = "NetworkId"
    <2>1. s.val \in 0..U8_MAX
      BY <1>5 DEF IsSetting, WellTyped
    <2>2. Unbroken(t) /\ ParseInt(t, 0, U8_MAX) = Parsed(s.val)
      BY <1>3, <1>5, <2>1, Limits
    <2>3. ParseAnswer(s.setting, line) = ParseInt(Tail(line), 0, U8_MAX)
      BY <1>5 DEF ParseAnswer
    <2> QED BY <1>2, <2>2, <2>3
  <1>6. CASE s.setting = "Band"
    <2>1. s.val \in 0..U32_MAX
      BY <1>6 DEF IsSetting, WellTyped
    <2>2. Unbroken(t) /\ ParseInt(t, 0, U32_MAX) = Parsed(s.val)
      BY <1>3, <1>6, <2>1, Limits
    <2>3. ParseAnswer(s.setting, line) = ParseInt(Tail(line), 0, U32_MAX)
      BY <1>6 DEF ParseAnswer
    <2> QED BY <1>2, <2>2, <2>3
  <1>7. CASE s.setting = "Parameters"
    <2>1. s.val \in [1..4 -> 0..U8_MAX]
      BY <1>7 DEF IsSetting, WellTyped
    <2>2. t = EncodeValue("Parameters", s.val)
      BY <1>7 DEF TextOf
    <2>3. Unbroken(t) /\ ParseParameters(t) = Parsed(s.val)
      BY <2>1, <2>2, ParametersParse
    <2>4. ParseAnswer(s.setting, line) = ParseParameters(Tail(line))
      BY <1>7 DEF ParseAnswer
    <2> QED BY <1>2, <2>3, <2>4
  <1>8. CASE s.setting = "Cpin"
    <2>1. ParseAnswer(s.setting, line) = ParseCpin(Tail(line))
      BY <1>8 DEF ParseAnswer
    <2>2. Unbroken(t) /\ ParseCpin(t) = Parsed(s.val)
      <3>1. CASE s.val = <<>>
        <4>1. t = <<"NoPassword">>
          BY <1>8, <3>1 DEF TextOf, IsSetting
        <4>2. "NoPassword" \in Byte
          BY DEF Byte
        <4>3. Unbroken(<<"NoPassword">>)
          BY <4>2 DEF Unbroken
        <4>4. ParseCpin(<<"NoPassword">>) = Parsed(<<>>)
          BY DEF ParseCpin
        <4> QED BY <3>1, <4>1, <4>3, <4>4
      <3>2. CASE s.val # <<>>
        <4> DEFINE v == s.val
        <4>1. v \in [1..8 -> HexDigit] /\ ToSet(v) # {"0"}
          BY <1>8, <3>2 DEF IsSetting, WellTyped
        <4>2. t = v
          BY <1>8, <3>2 DEF TextOf, EncodeValue
        <4> HIDE DEF v
        <4>3. v \in Seq(HexDigit) /\ Len(v) = 8 /\ DOMAIN v = 1..8
          <5>1. v \in [1..8 -> HexDigit] /\ DOMAIN v = 1..8 /\ 8 \in Nat
            BY <4>1
          <5>2. v \in Seq(HexDigit)
            BY <5>1, SeqDef
          <5>3. Len(v) \in Nat /\ DOMAIN v = 1..Len(v)
            BY <5>2, LenProperties
          <5> QED BY <5>1, <5>2, <5>3
        <4>4. ToSet(v) \subseteq HexDigit
          BY <4>1 DEF ToSet
        <4>5. HexDigit \subseteq Byte
          BY DEF Byte
        <4>6. \A d \in HexDigit : d \notin {"CR", "LF"}
          BY DigitBytes DEF HexDigit
        <4>7. v # <<"NoPassword">>
          <5>1. Len(<<"NoPassword">>) = 1
            OBVIOUS
          <5> QED BY <4>3, <5>1
        <4>8. ParseCpin(v) = Parsed(v)
          BY <4>1, <4>3, <4>4, <4>7 DEF ParseCpin
        <4>9. v \in Seq(Byte)
          BY <4>3, <4>5, SeqMonotonic
        <4>10. \A i \in 1..Len(v) : v[i] \in HexDigit
          BY <4>3, ElementOfSeq
        <4>11. Unbroken(v)
          BY <4>6, <4>9, <4>10 DEF Unbroken
        <4> QED BY <4>2, <4>8, <4>11 DEF v
      <3> QED BY <3>1, <3>2
    <2> QED BY <1>2, <2>1, <2>2
  <1> QED BY <1>1, <1>4, <1>5, <1>6, <1>7, <1>8

-----------------------------------------------------------------------------
(* Lines                                                                   *)

\* A piece of a sequence.
Piece(u, s, m, n) ==
  /\ u \in Seq(Byte) /\ Len(u) = n - m + 1
  /\ \A i \in 1..(n - m + 1) : u[i] = s[m + i - 1]

LEMMA PieceFacts ==
  ASSUME NEW s \in Seq(Byte), NEW m \in 1..(Len(s) + 1), NEW n \in (m - 1)..Len(s)
  PROVE  Piece(SubSeq(s, m, n), s, m, n)
PROOF
  <1>1. Len(s) \in Nat /\ m \in Int /\ n \in Int /\ m - 1 <= n
    BY LenProperties
  <1>2. \A i \in m..n : i \in 1..Len(s)
    BY <1>1
  <1>3. \A i \in m..n : s[i] \in Byte
    BY <1>2, ElementOfSeq
  <1>4. /\ SubSeq(s, m, n) \in Seq(Byte)
        /\ Len(SubSeq(s, m, n)) = IF m <= n THEN n - m + 1 ELSE 0
        /\ \A i \in 1..(n - m + 1) : SubSeq(s, m, n)[i] = s[m + i - 1]
    BY <1>1, <1>3, SubSeqProperties
  <1> DEFINE k == Len(SubSeq(s, m, n))
  <1>5. k = n - m + 1
    <2>1. k = IF m <= n THEN n - m + 1 ELSE 0
      BY <1>4
    <2> HIDE DEF k
    <2> QED BY <1>1, <2>1
  <1> QED BY <1>4, <1>5 DEF Piece

\* Bytes without a CR.
Smooth(s) == s \in Seq(Byte) /\ \A i \in 1..Len(s) : s[i] # "CR"

LEMMA SmoothJoin ==
  ASSUME NEW x, Smooth(x), NEW y, Smooth(y)
  PROVE  Smooth(Join(x, ",", y))
PROOF
  <1> DEFINE c == ","
             b == Join(x, c, y)
             m == Len(x)
             n == Len(y)
  <1>1. c \in Byte /\ c # "CR"
    BY DEF Byte
  <1>2. x \in Seq(Byte) /\ y \in Seq(Byte) /\ m \in Nat /\ n \in Nat
    BY LenProperties DEF Smooth
  <1> HIDE DEF c
  <1>3. Joins(b, x, c, y)
    BY <1>1, <1>2, JoinFacts
  <1> HIDE DEF b
  <1>4. /\ b \in Seq(Byte) /\ Len(b) = m + 1 + n /\ b[m + 1] = c
        /\ \A i \in 1..m : b[i] = x[i]
        /\ \A i \in 1..n : b[m + 1 + i] = y[i]
    BY <1>3 DEF Joins
  <1>5. (\A i \in 1..m : x[i] # "CR") /\ (\A i \in 1..n : y[i] # "CR")
    BY DEF Smooth
  <1> HIDE DEF m, n
  <1>6. ASSUME NEW i \in 1..Len(b) PROVE b[i] # "CR"
    <2>1. i \in 1..m \/ i = m + 1 \/ (i - (m + 1) \in 1..n /\ i = m + 1 + (i - (m + 1)))
      BY <1>2, <1>4
    <2> QED BY <1>1, <1>4, <1>5, <2>1
  <1> QED BY <1>4, <1>6 DEF Smooth, b, c

LEMMA SmoothPrefixed ==
  ASSUME NEW c \in Byte, c # "CR", NEW t, Smooth(t)
  PROVE  Smooth(<<c>> \o t)
PROOF
  <1> DEFINE s == <<c>> \o t
  <1>1. t \in Seq(Byte) /\ Len(t) \in Nat /\ \A i \in 1..Len(t) : t[i] # "CR"
    BY LenProperties DEF Smooth
  <1>2. /\ s \in Seq(Byte) /\ Len(s) = Len(t) + 1 /\ s[1] = c
        /\ \A i \in 1..Len(t) : s[i + 1] = t[i]
    BY <1>1, TailOfPrefixed
  <1> HIDE DEF s
  <1>3. ASSUME NEW i \in 1..Len(s) PROVE s[i] # "CR"
    <2>1. i = 1 \/ (i - 1 \in 1..Len(t) /\ (i - 1) + 1 = i)
      BY <1>1, <1>2
    <2> QED BY <1>1, <1>2, <2>1
  <1> QED BY <1>2, <1>3 DEF Smooth, s

\* A line: its head, which parse_event or parse_response is handed, and CR LF.
Line(l, head) ==
  /\ Smooth(head) /\ l \in Seq(Byte) /\ Len(l) = Len(head) + 2
  /\ \A i \in 1..Len(head) : l[i] = head[i]
  /\ l[Len(head) + 1] = "CR" /\ l[Len(head) + 2] = "LF"

LEMMA LineFacts ==
  ASSUME NEW head \in Seq(Byte)
  PROVE  LET l == head \o CRLF
         IN  /\ l \in Seq(Byte) /\ Len(l) = Len(head) + 2
             /\ \A i \in 1..Len(head) : l[i] = head[i]
             /\ l[Len(head) + 1] = "CR" /\ l[Len(head) + 2] = "LF"
PROOF
  <1> DEFINE e == CRLF
             l == head \o e
             m == Len(head)
  <1>1. m \in Nat
    BY LenProperties
  <1>2. e \in Seq(Byte) /\ Len(e) = 2 /\ e[1] = "CR" /\ e[2] = "LF"
    <2>1. "CR" \in Byte /\ "LF" \in Byte
      BY DEF Byte
    <2> QED BY <2>1 DEF CRLF
  <1> HIDE DEF e
  <1>3. /\ l \in Seq(Byte) /\ Len(l) = m + Len(e)
        /\ \A i \in 1..(m + Len(e)) : l[i] = IF i <= m THEN head[i] ELSE e[i - m]
    BY <1>2, ConcatProperties
  <1> HIDE DEF l, m
  <1>4. \A i \in 1..m : l[i] = head[i]
    BY <1>1, <1>2, <1>3
  <1>5. l[m + 1] = e[1] /\ l[m + 2] = e[2]
    <2>1. /\ m + 1 \in 1..(m + 2) /\ m + 2 \in 1..(m + 2)
          /\ ~(m + 1 <= m) /\ ~(m + 2 <= m) /\ (m + 1) - m = 1 /\ (m + 2) - m = 2
      BY <1>1
    <2> QED BY <1>2, <1>3, <2>1
  <1> QED BY <1>2, <1>3, <1>4, <1>5 DEF l, m, e

\* The lines the module sends are lines.
LEMMA RcvLineFacts ==
  ASSUME NEW data \in Seq(Byte), NEW signal \in Signal
  PROVE  /\ RcvHead(data, signal) \in Seq(Byte) /\ RcvLine(data, signal) \in Seq(Byte)
         /\ RcvHead(data, signal)[1] = "+RCV" /\ Len(RcvHead(data, signal)) >= 1
         /\ Smooth(data) => Line(RcvLine(data, signal), RcvHead(data, signal))
PROOF
  <1> DEFINE c == "+RCV"
             q == "="
             h == RcvHead(data, signal)
             u == RcvText(data, signal)
             t == <<q>> \o u
  <1>1. c \in Byte /\ c # "CR" /\ q \in Byte /\ q # "CR"
    BY DEF Byte
  <1>2. t \in Seq(Byte)
    <2> HIDE DEF q, u
    <2>1. u \in Seq(Byte)
      BY RcvParts DEF u
    <2> QED BY <1>1, <2>1, TailOfPrefixed
  <1>3. h = <<c>> \o t
    BY DEF RcvHead
  <1> HIDE DEF h, t, c
  <1>4. h \in Seq(Byte) /\ Len(h) = Len(t) + 1 /\ h[1] = c
    BY <1>1, <1>2, <1>3, TailOfPrefixed
  <1>5. Len(t) \in Nat
    BY <1>2, LenProperties
  <1>6. RcvLine(data, signal) = h \o CRLF
    BY RcvLineIs DEF h
  <1>7. h \o CRLF \in Seq(Byte)
    BY <1>4, LineFacts
  <1>8. ASSUME Smooth(data) PROVE Line(RcvLine(data, signal), h)
    <2>1. \A s : Plain(s) => Smooth(s)
      BY DEF Plain, Smooth
    <2>2. /\ Smooth(Printed(signal.from)) /\ Smooth(Printed(Len(data)))
          /\ Smooth(Printed(signal.rssi)) /\ Smooth(Printed(signal.snr))
      BY <2>1, RcvParts
    <2>3. Smooth(SignalText(signal))
      BY <2>2, SmoothJoin DEF SignalText
    <2>4. Smooth(Join(data, ",", SignalText(signal)))
      BY <1>8, <2>3, SmoothJoin
    <2>5. Smooth(Join(Printed(Len(data)), ",", Join(data, ",", SignalText(signal))))
      BY <2>2, <2>4, SmoothJoin
    <2>6. Smooth(t)
      <3>1. Smooth(u)
        BY <2>2, <2>5, SmoothJoin DEF RcvText
      <3> HIDE DEF q, u
      <3> QED BY <1>1, <3>1, SmoothPrefixed DEF t
    <2>7. Smooth(h)
      BY <1>1, <1>3, <2>6, SmoothPrefixed
    <2> QED BY <1>4, <1>6, <2>7, LineFacts DEF Line
  <1>9. Len(h) >= 1
    <2> DEFINE n == Len(t)
    <2>1. n \in Nat /\ Len(h) = n + 1
      BY <1>4, <1>5
    <2> HIDE DEF n
    <2> QED BY <2>1
  <1> QED BY <1>4, <1>6, <1>7, <1>8, <1>9 DEF h, c

LEMMA AnswerLineFacts ==
  ASSUME NEW s, IsSetting(s)
  PROVE  /\ AnswerHead(s) \in Seq(Byte) /\ AnswerHead(s)[1] = PrefixOf[s.setting]
         /\ AnswerLine(s) \in Seq(Byte) /\ Len(AnswerHead(s)) >= 1
         /\ Line(AnswerLine(s), AnswerHead(s))
PROOF
  <1> DEFINE c == PrefixOf[s.setting]
             h == AnswerHead(s)
             t == TextOf(s)
  <1>1. c \in Byte /\ c # "CR"
    BY PrefixFacts DEF IsSetting
  <1>2. Unbroken(t)
    BY SettingReadsBack
  <1>3. t \in Seq(Byte) /\ Smooth(t)
    BY <1>2 DEF Unbroken, Smooth
  <1>4. h = <<c>> \o t /\ AnswerLine(s) = h \o CRLF
    BY DEF AnswerHead, AnswerLine
  <1> HIDE DEF h, t, c
  <1>5. h \in Seq(Byte) /\ Len(h) = Len(t) + 1 /\ h[1] = c
    BY <1>1, <1>3, <1>4, TailOfPrefixed
  <1>6. Smooth(h)
    BY <1>1, <1>3, <1>4, SmoothPrefixed
  <1>7. Line(AnswerLine(s), h) /\ AnswerLine(s) \in Seq(Byte)
    BY <1>4, <1>5, <1>6, LineFacts DEF Line
  <1>8. Len(h) >= 1
    <2> DEFINE n == Len(t)
    <2>1. n \in Nat /\ Len(h) = n + 1
      BY <1>3, <1>5, LenProperties
    <2> HIDE DEF n
    <2> QED BY <2>1
  <1> QED BY <1>5, <1>7, <1>8 DEF h, c

-----------------------------------------------------------------------------
(* A stream of lines                                                       *)

\* The stream is cut into the lines: line k ends at cut[k].
CutAt(cut, stream, lines) ==
  /\ cut \in [0..Len(lines) -> 0..Len(stream)]
  /\ cut[0] = 0 /\ cut[Len(lines)] = Len(stream)
  /\ \A j, k \in 0..Len(lines) : j <= k => cut[j] <= cut[k]
  /\ \A k \in 1..Len(lines) :
       /\ cut[k] = cut[k - 1] + Len(lines[k])
       /\ \A i \in 1..Len(lines[k]) : stream[cut[k - 1] + i] = lines[k][i]

Framed(stream, lines) ==
  /\ stream \in Seq(Byte) /\ lines \in Seq(Seq(Byte))
  /\ \E cut : CutAt(cut, stream, lines)

LEMMA FramedEmpty ==
  /\ Framed(<<>>, <<>>)
  /\ \A stream : Framed(stream, <<>>) => stream = <<>>
PROOF
  <1>1. /\ \A S : <<>> \in Seq(S) 
        /\ Len(<<>>) = 0
    BY EmptySeq
  <1>2. CutAt([k \in 0..0 |-> 0], <<>>, <<>>)
    BY <1>1 DEF CutAt
  <1>3. ASSUME NEW stream, Framed(stream, <<>>) PROVE stream = <<>>
    <2>1. stream \in Seq(Byte) /\ Len(stream) = 0
      BY <1>1, <1>3 DEF Framed, CutAt
    <2> QED BY <2>1, EmptySeq
  <1> QED BY <1>1, <1>2, <1>3 DEF Framed

\* A line is sent.
LEMMA FramedAppend ==
  ASSUME NEW stream, NEW lines, Framed(stream, lines), NEW l \in Seq(Byte)
  PROVE  Framed(stream \o l, Append(lines, l))
PROOF
  <1> DEFINE s == stream \o l
             ls == Append(lines, l)
             m == Len(stream)
             n == Len(lines)
             d == Len(l)
  <1>1. stream \in Seq(Byte) /\ lines \in Seq(Seq(Byte)) /\ m \in Nat /\ n \in Nat /\ d \in Nat
    BY LenProperties DEF Framed
  <1>2. PICK cut : CutAt(cut, stream, lines)
    BY DEF Framed
  <1>3. /\ s \in Seq(Byte) /\ Len(s) = m + d
        /\ \A i \in 1..(m + d) : s[i] = IF i <= m THEN stream[i] ELSE l[i - m]
    BY <1>1, ConcatProperties
  <1>4. /\ ls \in Seq(Seq(Byte)) /\ Len(ls) = n + 1 /\ ls[n + 1] = l
        /\ \A i \in 1..n : ls[i] = lines[i]
    BY <1>1, AppendProperties
  <1>5. /\ cut \in [0..n -> 0..m] /\ cut[0] = 0 /\ cut[n] = m
        /\ \A j, k \in 0..n : j <= k => cut[j] <= cut[k]
        /\ \A k \in 1..n : /\ cut[k] = cut[k - 1] + Len(lines[k])
                           /\ \A i \in 1..Len(lines[k]) : stream[cut[k - 1] + i] = lines[k][i]
    BY <1>2 DEF CutAt
  <1> HIDE DEF s, ls, m, n, d
  <1> DEFINE new == [k \in 0..(n + 1) |-> IF k = n + 1 THEN m + d ELSE cut[k]]
  <1>6. /\ new \in [0..(n + 1) -> 0..(m + d)] /\ new[n + 1] = m + d
        /\ \A k \in 0..n : new[k] = cut[k] /\ cut[k] \in 0..m
    <2>1. \A k \in 0..n : cut[k] \in 0..m
      BY <1>5
    <2>2. \A k \in 0..n : k \in 0..(n + 1) /\ k # n + 1
      BY <1>1
    <2>3. n + 1 \in 0..(n + 1) /\ m + d \in 0..(m + d) /\ \A x \in 0..m : x \in 0..(m + d)
      BY <1>1
    <2>4. \A k \in 0..(n + 1) : k = n + 1 \/ k \in 0..n
      BY <1>1
    <2> QED BY <2>1, <2>2, <2>3, <2>4
  <1> HIDE DEF new
  <1>7. new[0] = 0
    <2>1. 0 \in 0..n
      BY <1>1
    <2> QED BY <1>5, <1>6, <2>1
  <1>8. \A j, k \in 0..(n + 1) : j <= k => new[j] <= new[k]
    <2> SUFFICES ASSUME NEW j \in 0..(n + 1), NEW k \in 0..(n + 1), j <= k
                 PROVE  new[j] <= new[k]
      OBVIOUS
    <2>1. CASE k = n + 1
      <3>1. new[j] \in 0..(m + d)
        BY <1>6
      <3> QED BY <1>1, <1>6, <2>1, <3>1
    <2>2. CASE k # n + 1
      <3>1. j \in 0..n /\ k \in 0..n
        BY <1>1, <2>2
      <3> QED BY <1>5, <1>6, <3>1
    <2> QED BY <2>1, <2>2
  <1>9. ASSUME NEW k \in 1..(n + 1)
        PROVE  /\ new[k] = new[k - 1] + Len(ls[k])
               /\ \A i \in 1..Len(ls[k]) : s[new[k - 1] + i] = ls[k][i]
    <2>1. CASE k = n + 1
      <3>1. n \in 0..n /\ k - 1 = n
        BY <1>1, <2>1
      <3>2. new[k - 1] = m /\ new[k] = m + d /\ ls[k] = l
        BY <1>4, <1>5, <1>6, <2>1, <3>1
      <3>3. ASSUME NEW i \in 1..d PROVE s[m + i] = l[i]
        <4>1. m + i \in 1..(m + d) /\ ~(m + i <= m) /\ (m + i) - m = i
          BY <1>1
        <4> QED BY <1>3, <4>1
      <3> QED BY <3>2, <3>3 DEF d
    <2>2. CASE k # n + 1
      <3>1. k \in 1..n /\ k \in 0..n /\ k - 1 \in 0..n
        BY <1>1, <2>2
      <3> DEFINE e == Len(lines[k])
      <3>2. new[k - 1] = cut[k - 1] /\ new[k] = cut[k] /\ ls[k] = lines[k]
            /\ cut[k - 1] \in 0..m /\ cut[k] \in 0..m
        BY <1>4, <1>6, <3>1
      <3>3. e \in Nat
        BY <1>1, <3>1, ElementOfSeq, LenProperties DEF n
      <3>4. cut[k] = cut[k - 1] + e
            /\ \A i \in 1..e : stream[cut[k - 1] + i] = lines[k][i]
        BY <1>5, <3>1
      <3> HIDE DEF e
      <3>5. ASSUME NEW i \in 1..e PROVE s[cut[k - 1] + i] = lines[k][i]
        <4> DEFINE x == cut[k - 1] + i
        <4>1. x \in 1..(m + d) /\ x <= m
          <5>1. cut[k - 1] \in Nat /\ cut[k] <= m /\ cut[k] = cut[k - 1] + e
            BY <1>1, <3>2, <3>4
          <5> QED BY <1>1, <3>3, <5>1
        <4>2. stream[x] = lines[k][i]
          BY <3>4
        <4> HIDE DEF x
        <4>3. s[x] = stream[x]
          BY <1>3, <4>1
        <4> QED BY <4>2, <4>3 DEF x
      <3> QED BY <3>2, <3>4, <3>5 DEF e
    <2> QED BY <2>1, <2>2
  <1>10. CutAt(new, s, ls)
    BY <1>3, <1>4, <1>6, <1>7, <1>8, <1>9 DEF CutAt
  <1> QED BY <1>3, <1>4, <1>10 DEF Framed, s, ls

\* The first line of a stream, and what is behind it.
FirstLine(stream, lines) ==
  LET n == Len(lines[1])
  IN  /\ n <= Len(stream)
      /\ \A i \in 1..n : stream[i] = lines[1][i]
      /\ Framed(SubSeq(stream, n + 1, Len(stream)), Tail(lines))

LEMMA FramedTail ==
  ASSUME NEW stream, NEW lines, Framed(stream, lines), lines # <<>>
  PROVE  FirstLine(stream, lines)
PROOF
  <1> DEFINE m == Len(stream)
             n == Len(lines)
             d == Len(lines[1])
             s == SubSeq(stream, d + 1, m)
             ls == Tail(lines)
  <1>1. stream \in Seq(Byte) /\ lines \in Seq(Seq(Byte)) /\ m \in Nat /\ n \in Nat \ {0}
    BY LenProperties, EmptySeq DEF Framed
  <1>2. PICK cut : CutAt(cut, stream, lines)
    BY DEF Framed
  <1>3. /\ cut \in [0..n -> 0..m] /\ cut[0] = 0 /\ cut[n] = m
        /\ \A j, k \in 0..n : j <= k => cut[j] <= cut[k]
        /\ \A k \in 1..n : /\ cut[k] = cut[k - 1] + Len(lines[k])
                           /\ \A i \in 1..Len(lines[k]) : stream[cut[k - 1] + i] = lines[k][i]
    BY <1>2 DEF CutAt
  <1>4. ls \in Seq(Seq(Byte)) /\ Len(ls) = n - 1 /\ \A k \in 1..(n - 1) : ls[k] = lines[k + 1]
    <2>1. /\ ls \in Seq(Seq(Byte)) /\ Len(ls) = n - 1
          /\ \A k \in 1..Len(ls) : ls[k] = lines[k + 1]
      BY <1>1, HeadTailProperties
    <2> QED BY <2>1
  <1>5. lines[1] \in Seq(Byte) /\ d \in Nat
    <2>1. 1 \in 1..n
      BY <1>1
    <2> QED BY <1>1, <2>1, ElementOfSeq, LenProperties DEF n
  <1>6. cut[1] = d /\ (\A i \in 1..d : stream[i] = lines[1][i]) /\ cut[1] \in 0..m
    <2>1. 1 \in 1..n /\ 1 \in 0..n /\ 1 - 1 = 0
      BY <1>1
    <2>2. cut[1] = cut[0] + d /\ \A i \in 1..d : stream[cut[0] + i] = lines[1][i]
      BY <1>3, <2>1
    <2> HIDE DEF d
    <2>3. \A i \in 1..d : 0 + i = i
      BY <1>5
    <2> QED BY <1>3, <1>5, <2>1, <2>2, <2>3
  <1>7. s \in Seq(Byte) /\ Len(s) = m - d /\ \A i \in 1..(m - d) : s[i] = stream[d + i]
    <2>1. d + 1 \in 1..(m + 1) /\ m \in ((d + 1) - 1)..m /\ m - (d + 1) + 1 = m - d
      BY <1>1, <1>5, <1>6
    <2>2. Piece(s, stream, d + 1, m)
      BY <1>1, <2>1, PieceFacts
    <2> HIDE DEF s
    <2>3. /\ s \in Seq(Byte) /\ Len(s) = m - d
          /\ \A i \in 1..(m - d) : s[i] = stream[(d + 1) + i - 1]
      BY <2>1, <2>2 DEF Piece
    <2> HIDE DEF d, m
    <2>4. \A i \in 1..(m - d) : (d + 1) + i - 1 = d + i
      BY <1>1, <1>5
    <2> QED BY <2>3, <2>4
  <1> HIDE DEF m, n, d, s, ls
  <1> DEFINE new == [k \in 0..(n - 1) |-> cut[k + 1] - d]
  <1>8. ASSUME NEW k \in 0..(n - 1)
        PROVE  k + 1 \in 1..n /\ k + 1 \in 0..n /\ cut[k + 1] \in d..m /\ new[k] = cut[k + 1] - d
    <2>1. k + 1 \in 1..n /\ k + 1 \in 0..n /\ 1 \in 0..n /\ 1 <= k + 1
      BY <1>1
    <2>2. cut[k + 1] \in 0..m /\ cut[1] <= cut[k + 1]
      BY <1>3, <2>1
    <2> QED BY <1>1, <1>5, <1>6, <2>1, <2>2
  <1>9. new \in [0..(n - 1) -> 0..(m - d)]
    <2>1. \A k \in 0..(n - 1) : cut[k + 1] - d \in 0..(m - d)
      BY <1>1, <1>5, <1>8
    <2> QED BY <2>1
  <1> HIDE DEF new
  <1>10. new[0] = 0 /\ new[n - 1] = m - d
    <2>1. 0 \in 0..(n - 1) /\ n - 1 \in 0..(n - 1) /\ 0 + 1 = 1 /\ (n - 1) + 1 = n
      BY <1>1
    <2>2. new[0] = cut[1] - d /\ new[n - 1] = cut[n] - d
      BY <1>8, <2>1
    <2> QED BY <1>3, <1>5, <1>6, <2>2
  <1>11. \A j, k \in 0..(n - 1) : j <= k => new[j] <= new[k]
    <2> SUFFICES ASSUME NEW j \in 0..(n - 1), NEW k \in 0..(n - 1), j <= k
                 PROVE  new[j] <= new[k]
      OBVIOUS
    <2>1. j + 1 <= k + 1
      BY <1>1
    <2>2. cut[j + 1] <= cut[k + 1]
      BY <1>3, <1>8, <2>1
    <2>3. cut[j + 1] \in d..m /\ cut[k + 1] \in d..m
      BY <1>8
    <2>4. new[j] = cut[j + 1] - d /\ new[k] = cut[k + 1] - d
      BY <1>8
    <2> DEFINE x == cut[j + 1]
               y == cut[k + 1]
    <2> HIDE DEF x, y
    <2> QED BY <1>1, <1>5, <2>2, <2>3, <2>4 DEF x, y
  <1>12. ASSUME NEW k \in 1..(n - 1)
         PROVE  /\ new[k] = new[k - 1] + Len(ls[k])
                /\ \A i \in 1..Len(ls[k]) : s[new[k - 1] + i] = ls[k][i]
    <2>1. k \in 0..(n - 1) /\ k - 1 \in 0..(n - 1) /\ (k - 1) + 1 = k /\ k + 1 \in 1..n
          /\ (k + 1) - 1 = k
      BY <1>1
    <2> DEFINE e == Len(lines[k + 1])
               x == cut[k]
               y == cut[k + 1]
    <2>2. new[k] = y - d /\ new[k - 1] = x - d /\ x \in d..m /\ y \in d..m
      BY <1>8, <2>1
    <2>3. ls[k] = lines[k + 1]
      BY <1>4
    <2>4. e \in Nat
      BY <1>1, <2>1, ElementOfSeq, LenProperties DEF n
    <2>5. y = x + e /\ \A i \in 1..e : stream[x + i] = lines[k + 1][i]
      BY <1>3, <2>1
    <2> HIDE DEF e, x, y
    <2>6. y - d = (x - d) + e
      BY <1>1, <1>5, <2>2, <2>4, <2>5
    <2>7. ASSUME NEW i \in 1..e PROVE s[(x - d) + i] = lines[k + 1][i]
      <3>1. (x - d) + i \in 1..(m - d) /\ d + ((x - d) + i) = x + i
        BY <1>1, <1>5, <2>2, <2>4, <2>5
      <3>2. s[(x - d) + i] = stream[d + ((x - d) + i)]
        BY <1>7, <3>1
      <3> QED BY <2>5, <3>1, <3>2
    <2>8. Len(ls[k]) = e
      BY <2>3 DEF e
    <2> QED BY <2>2, <2>3, <2>6, <2>7, <2>8
  <1>13. CutAt(new, s, ls)
    BY <1>4, <1>7, <1>9, <1>10, <1>11, <1>12 DEF CutAt
  <1>14. Framed(s, ls)
    BY <1>4, <1>7, <1>13 DEF Framed
  <1>15. d <= m
    BY <1>1, <1>5, <1>6
  <1> QED BY <1>6, <1>14, <1>15 DEF FirstLine, s, ls, m, d

-----------------------------------------------------------------------------
(* The stream in rx and on the wire                                        *)

\* Dropping bytes that are in the first part.
LEMMA DropFromConcat ==
  ASSUME NEW s \in Seq(Byte), NEW t \in Seq(Byte), NEW d \in 0..Len(s)
  PROVE  /\ SubSeq(s, d + 1, Len(s)) \in Seq(Byte)
         /\ SubSeq(s \o t, d + 1, Len(s \o t)) = SubSeq(s, d + 1, Len(s)) \o t
PROOF
  <1> DEFINE m == Len(s)
             n == Len(t)
             c == s \o t
             u == SubSeq(s, d + 1, m)
             v == SubSeq(c, d + 1, m + n)
             w == u \o t
  <1>1. m \in Nat /\ n \in Nat
    BY LenProperties
  <1>2. /\ c \in Seq(Byte) /\ Len(c) = m + n
        /\ \A i \in 1..(m + n) : c[i] = IF i <= m THEN s[i] ELSE t[i - m]
    BY ConcatProperties
  <1>3. Piece(u, s, d + 1, m)
    <2>1. d + 1 \in 1..(m + 1) /\ m \in ((d + 1) - 1)..m
      BY <1>1
    <2> QED BY <2>1, PieceFacts
  <1>4. Piece(v, c, d + 1, m + n)
    <2>1. d + 1 \in 1..(Len(c) + 1) /\ m + n \in ((d + 1) - 1)..Len(c)
      BY <1>1, <1>2
    <2> HIDE DEF c
    <2> QED BY <1>2, <2>1, PieceFacts
  <1> HIDE DEF c, u, v
  <1>5. /\ u \in Seq(Byte) /\ Len(u) = m - (d + 1) + 1
        /\ \A i \in 1..(m - (d + 1) + 1) : u[i] = s[(d + 1) + i - 1]
    BY <1>3 DEF Piece
  <1>6. /\ v \in Seq(Byte) /\ Len(v) = m + n - (d + 1) + 1
        /\ \A i \in 1..(m + n - (d + 1) + 1) : v[i] = c[(d + 1) + i - 1]
    BY <1>4 DEF Piece
  <1>7. /\ w \in Seq(Byte) /\ Len(w) = Len(u) + n
        /\ \A i \in 1..(Len(u) + n) : w[i] = IF i <= Len(u) THEN u[i] ELSE t[i - Len(u)]
    BY <1>5, ConcatProperties
  <1> HIDE DEF w
  <1> DEFINE k == Len(u)
  <1>8. k = m - d /\ k \in Nat
    <2>1. d \in 0..m
      OBVIOUS
    <2> HIDE DEF m
    <2> QED BY <1>1, <1>5, <2>1
  <1> HIDE DEF k
  <1>9. d \in 0..m
    OBVIOUS
  <1>10. Len(v) = Len(w)
    BY <1>1, <1>6, <1>7, <1>8, <1>9 DEF k
  <1>11. ASSUME NEW i \in 1..Len(w) PROVE v[i] = w[i]
    <2>1. i \in 1..(k + n) /\ i \in 1..(m + n - (d + 1) + 1) /\ (d + 1) + i - 1 = d + i
      BY <1>1, <1>6, <1>7, <1>9, <1>10 DEF k
    <2>2. d + i \in 1..(m + n)
      BY <1>1, <1>8, <1>9, <2>1
    <2>3. v[i] = c[d + i] /\ c[d + i] = (IF d + i <= m THEN s[d + i] ELSE t[(d + i) - m])
      BY <1>2, <1>6, <2>1, <2>2
    <2>4. w[i] = (IF i <= k THEN u[i] ELSE t[i - k])
      BY <1>7, <2>1 DEF k
    <2>5. CASE i <= k
      <3>1. i \in 1..(m - (d + 1) + 1) /\ d + i <= m
        BY <1>1, <1>8, <1>9, <2>1, <2>5
      <3>2. u[i] = s[d + i]
        BY <1>5, <2>1, <3>1
      <3> QED BY <2>3, <2>4, <2>5, <3>1, <3>2
    <2>6. CASE ~(i <= k)
      <3>1. ~(d + i <= m) /\ (d + i) - m = i - k
        BY <1>1, <1>8, <1>9, <2>1, <2>6
      <3> QED BY <2>3, <2>4, <2>6, <3>1
    <2> QED BY <2>5, <2>6
  <1>12. v = w
    BY <1>6, <1>7, <1>10, <1>11, SeqEqual
  <1> QED BY <1>2, <1>5, <1>12 DEF c, u, v, w

\* A read moves bytes and loses none.
LEMMA MoveBytes ==
  ASSUME NEW s \in Seq(Byte), NEW w \in Seq(Byte), NEW n \in 0..Len(w)
  PROVE  /\ s \o SubSeq(w, 1, n) \in Seq(Byte) /\ SubSeq(w, n + 1, Len(w)) \in Seq(Byte)
         /\ Len(s \o SubSeq(w, 1, n)) = Len(s) + n
         /\ (s \o SubSeq(w, 1, n)) \o SubSeq(w, n + 1, Len(w)) = s \o w
PROOF
  <1> DEFINE m == Len(w)
             u == SubSeq(w, 1, n)
             v == SubSeq(w, n + 1, m)
  <1>1. m \in Nat /\ n \in 0..m
    BY LenProperties
  <1>2. Piece(u, w, 1, n) /\ Piece(v, w, n + 1, m)
    <2>1. 1 \in 1..(m + 1) /\ n \in (1 - 1)..m /\ n + 1 \in 1..(m + 1)
          /\ m \in ((n + 1) - 1)..m
      BY <1>1
    <2> QED BY <2>1, PieceFacts
  <1>3. u \in Seq(Byte) /\ v \in Seq(Byte) /\ Len(u) = n - 1 + 1
    BY <1>2 DEF Piece
  <1>4. u \o v = w
    <2>1. 1 \in 1..(m + 1) /\ n \in (1 - 1)..m /\ m \in n..m
      BY <1>1
    <2>2. u \o v = SubSeq(w, 1, m)
      BY <2>1, ConcatAdjacentSubSeq
    <2> QED BY <2>2, SubSeqFull
  <1>5. (s \o u) \o v = s \o (u \o v) /\ s \o u \in Seq(Byte) /\ Len(s \o u) = Len(s) + Len(u)
    <2> HIDE DEF u, v
    <2>1. (s \o u) \o v = s \o (u \o v)
      BY <1>3, ConcatAssociative
    <2>2. s \o u \in Seq(Byte) /\ Len(s \o u) = Len(s) + Len(u)
      BY <1>3, ConcatProperties
    <2> QED BY <2>1, <2>2
  <1>6. Len(u) = n
    <2> HIDE DEF m, u
    <2> QED BY <1>1, <1>3
  <1> QED BY <1>3, <1>4, <1>5, <1>6

\* poll finds the end of the first line, when all of it is in rx, and nothing else.
FirstInRx(lines, head) ==
  /\ \A r \in DOMAIN rx :
       LineEnd(r) => /\ r = Len(head) + 1 /\ LineUpTo(r) = head
                     /\ SubSeq(rx, r + 2, Len(rx)) \in Seq(Byte)
                     /\ Framed(SubSeq(rx, r + 2, Len(rx)) \o wire, Tail(lines))
  /\ Len(rx) >= Len(head) + 2 =>
       Len(head) + 1 \in DOMAIN rx /\ LineEnd(Len(head) + 1) /\ LineUpTo(Len(head) + 1) = head

LEMMA FirstInRxFacts ==
  ASSUME rx \in Seq(Byte), wire \in Seq(Byte), NEW lines, Framed(rx \o wire, lines),
         lines # <<>>, NEW head, Line(lines[1], head)
  PROVE  FirstInRx(lines, head)
PROOF
  <1> DEFINE s == rx \o wire
             m == Len(rx)
             h == Len(head)
             l == lines[1]
  <1>1. m \in Nat /\ Len(wire) \in Nat /\ DOMAIN rx = 1..m
    BY LenProperties
  <1>2. /\ head \in Seq(Byte) /\ Len(l) = h + 2 /\ h \in Nat
        /\ \A i \in 1..h : l[i] = head[i] /\ head[i] # "CR"
        /\ l[h + 1] = "CR" /\ l[h + 2] = "LF"
    BY LenProperties DEF Line, Smooth
  <1>3. /\ s \in Seq(Byte) /\ Len(s) = m + Len(wire)
        /\ \A i \in 1..(m + Len(wire)) : s[i] = IF i <= m THEN rx[i] ELSE wire[i - m]
    BY ConcatProperties
  <1>4. FirstLine(s, lines)
    BY FramedTail
  <1>5. /\ \A i \in 1..(h + 2) : s[i] = l[i]
        /\ Framed(SubSeq(s, (h + 2) + 1, Len(s)), Tail(lines))
    BY <1>2, <1>4 DEF FirstLine
  <1> HIDE DEF s, l, h, m
  <1>6. \A i \in 1..(h + 2) : i <= m => rx[i] = l[i]
    <2>1. \A i \in 1..(h + 2) : i <= m => i \in 1..(m + Len(wire))
      BY <1>1, <1>2
    <2> QED BY <1>3, <1>5, <2>1
  <1>7. ASSUME h + 1 <= m PROVE LineUpTo(h + 1) = head
    <2> DEFINE u == SubSeq(rx, 1, h)
    <2>1. 1 \in 1..(m + 1) /\ h \in (1 - 1)..m /\ h - 1 + 1 = h /\ (h + 1) - 1 = h
      BY <1>1, <1>2, <1>7
    <2>2. Piece(u, rx, 1, h)
      BY <2>1, PieceFacts DEF m
    <2> HIDE DEF u
    <2>3. u \in Seq(Byte) /\ Len(u) = h /\ \A i \in 1..h : u[i] = rx[1 + i - 1]
      BY <2>1, <2>2 DEF Piece
    <2>4. ASSUME NEW i \in 1..h PROVE u[i] = head[i]
      <3>1. 1 + i - 1 = i /\ i \in 1..(h + 2) /\ i <= m
        BY <1>1, <1>2, <1>7
      <3> QED BY <1>2, <1>6, <2>3, <3>1
    <2>5. u = head
      BY <1>2, <2>3, <2>4, SeqEqual DEF h
    <2> QED BY <2>1, <2>5 DEF LineUpTo, u
  <1>8. ASSUME NEW r \in DOMAIN rx, LineEnd(r)
        PROVE  /\ r = h + 1 /\ LineUpTo(r) = head
               /\ SubSeq(rx, r + 2, m) \in Seq(Byte)
               /\ Framed(SubSeq(rx, r + 2, m) \o wire, Tail(lines))
    <2>1. r \in 1..m /\ r + 1 <= m /\ rx[r] = "CR" /\ \A i \in 1..(r - 1) : rx[i] # "CR"
      BY <1>1, <1>8 DEF LineEnd, m
    <2>2. ~(r <= h)
      <3> SUFFICES ASSUME r <= h PROVE FALSE
        OBVIOUS
      <3>1. r \in 1..h /\ r \in 1..(h + 2) /\ r <= m
        BY <1>1, <1>2, <2>1
      <3> QED BY <1>2, <1>6, <2>1, <3>1
    <2>3. ~(r > h + 1)
      <3> SUFFICES ASSUME r > h + 1 PROVE FALSE
        OBVIOUS
      <3>1. h + 1 \in 1..(r - 1) /\ h + 1 \in 1..(h + 2) /\ h + 1 <= m
        BY <1>1, <1>2, <2>1
      <3> QED BY <1>2, <1>6, <2>1, <3>1
    <2>4. r = h + 1
      BY <1>1, <1>2, <2>1, <2>2, <2>3
    <2>5. h + 2 \in 0..m /\ (h + 2) + 1 = r + 2 /\ h + 1 <= m
      BY <1>1, <1>2, <2>1, <2>4
    <2>6. /\ SubSeq(rx, (h + 2) + 1, m) \in Seq(Byte)
          /\ SubSeq(s, (h + 2) + 1, Len(s)) = SubSeq(rx, (h + 2) + 1, m) \o wire
      BY <2>5, DropFromConcat DEF s, m
    <2> QED BY <1>5, <1>7, <2>4, <2>5, <2>6
  <1>9. ASSUME m >= h + 2 PROVE h + 1 \in DOMAIN rx /\ LineEnd(h + 1) /\ LineUpTo(h + 1) = head
    <2>1. h + 1 \in 1..m /\ h + 1 <= m /\ h + 2 <= m /\ h + 1 \in 1..(h + 2) /\ h + 2 \in 1..(h + 2)
          /\ (h + 1) + 1 = h + 2 /\ (h + 1) - 1 = h
      BY <1>1, <1>2, <1>9
    <2>2. rx[h + 1] = "CR" /\ rx[h + 2] = "LF"
      BY <1>2, <1>6, <2>1
    <2>3. ASSUME NEW i \in 1..h PROVE rx[i] # "CR"
      <3>1. i \in 1..(h + 2) /\ i <= m
        BY <1>1, <1>2, <2>1
      <3> QED BY <1>2, <1>6, <3>1
    <2>4. LineEnd(h + 1)
      BY <2>1, <2>2, <2>3 DEF LineEnd, m
    <2> QED BY <1>1, <1>7, <2>1, <2>4
  <1> QED BY <1>8, <1>9 DEF FirstInRx, h, m

-----------------------------------------------------------------------------
(* Types                                                                   *)

\* A comma, and what is before and behind it.
LEMMA CommaPieces ==
  ASSUME NEW b \in Seq(Byte)
  PROVE  /\ Comma(b) \in 0..Len(b)
         /\ BeforeComma(b) \in Seq(Byte) /\ AfterComma(b) \in Seq(Byte)
         /\ HasComma(b) => Piece(AfterComma(b), b, Comma(b) + 1, Len(b))
PROOF
  <1> DEFINE m == Len(b)
             k == Comma(b)
  <1>1. m \in Nat
    BY LenProperties
  <1>2. k \in 0..m
    <2>1. CASE \A i \in 1..m : b[i] # ","
      <3>1. k = 0
        BY <2>1, CommaFacts
      <3> QED BY <1>1, <3>1
    <2>2. CASE ~\A i \in 1..m : b[i] # ","
      <3> DEFINE comma == ","
                 I == {i \in 1..m : b[i] = comma}
      <3>0. ~\A i \in 1..m : b[i] # comma
        BY <2>2
      <3> HIDE DEF comma
      <3>1. I \subseteq Nat /\ I # {}
        <4>1. 1..m \subseteq Nat
          BY <1>1
        <4>2. I \subseteq 1..m
          OBVIOUS
        <4>3. I # {}
          BY <3>0
        <4> QED BY <4>1, <4>2, <4>3
      <3> HIDE DEF I
      <3>2. PICK i \in I : \A j \in I : i <= j
        BY <3>1, LeastNat
      <3>3. i \in 1..m /\ b[i] = comma
        BY DEF I
      <3>4. ASSUME NEW j \in 1..(i - 1) PROVE b[j] # comma
        <4>1. i \in 1..m
          BY <3>3
        <4>2. j \in 1..m /\ ~(i <= j)
          BY <1>1, <4>1
        <4> QED BY <3>2, <4>2 DEF I
      <3>5. k = i
        BY <3>3, <3>4, CommaFacts DEF comma
      <3>6. i \in 0..m
        <4>1. i \in 1..m
          BY <3>3
        <4> QED BY <1>1, <4>1
      <3> QED BY <3>5, <3>6
    <2> QED BY <2>1, <2>2
  <1> HIDE DEF k
  <1>3. SubSeq(b, 1, k - 1) \in Seq(Byte)
    <2>1. CASE k = 0
      <3>1. SubSeq(b, 1, k - 1) = <<>>
        BY <2>1, SubSeqEmpty
      <3> QED BY <3>1, EmptySeq
    <2>2. CASE k # 0
      <3>1. 1 \in 1..(m + 1) /\ k - 1 \in (1 - 1)..m
        BY <1>1, <1>2, <2>2
      <3>2. Piece(SubSeq(b, 1, k - 1), b, 1, k - 1)
        BY <3>1, PieceFacts
      <3> QED BY <3>2 DEF Piece
    <2> QED BY <2>1, <2>2
  <1>4. Piece(SubSeq(b, k + 1, m), b, k + 1, m)
    <2>1. k + 1 \in 1..(m + 1) /\ m \in ((k + 1) - 1)..m
      BY <1>1, <1>2
    <2> QED BY <2>1, PieceFacts
  <1>5. SubSeq(b, k + 1, m) \in Seq(Byte)
    BY <1>4 DEF Piece
  <1> QED BY <1>2, <1>3, <1>4, <1>5 DEF BeforeComma, AfterComma, k

\* A +RCV line that parses is an event, whatever the line.
LEMMA ParseRcvType ==
  ASSUME NEW line \in Seq(Byte), line # <<>>
  PROVE  ParseRcv(line).ok \in BOOLEAN /\ (ParseRcv(line).ok => ParseRcv(line).val \in Event)
PROOF
  <1> DEFINE fields == Tail(Tail(line))
             f == RcvFields(fields)
             rssi == ParseInt(BeforeComma(f.signal), -I16_MAX - 1, I16_MAX)
             snr == ParseInt(AfterComma(f.signal), -I16_MAX - 1, I16_MAX)
             good == /\ Len(line) >= 2 /\ line[2] = "="
                     /\ HasComma(fields) /\ f.from.ok
                     /\ HasComma(AfterComma(fields)) /\ f.len.ok
                     /\ DataEnds(f.rest, f.len.val)
                     /\ HasComma(f.signal) /\ rssi.ok /\ snr.ok
             event == [from |-> f.from.val, data |-> SubSeq(f.rest, 1, f.len.val),
                       rssi |-> rssi.val, snr |-> snr.val]
  <1>1. ParseRcv(line) = IF good THEN Parsed(event) ELSE ParseError
    BY ParseRcvIs
  <1>2. ASSUME good PROVE event \in Event
    <2>1. fields \in Seq(Byte)
      <3> DEFINE w == Tail(line)
      <3>1. Len(line) >= 2
        BY <1>2
      <3>2. w \in Seq(Byte) /\ Len(w) = Len(line) - 1
        BY HeadTailProperties
      <3>3. Len(line) \in Nat
        BY LenProperties
      <3> HIDE DEF w
      <3>4. Len(w) # 0
        BY <3>1, <3>2, <3>3
      <3>5. w # <<>>
        BY <3>4, EmptySeq
      <3> QED BY <3>2, <3>5, HeadTailProperties DEF w
    <2> DEFINE t == fields
               u == AfterComma(t)
               rest == AfterComma(u)
               len == ParseInt(BeforeComma(u), 0, U32_MAX)
    <2>2. /\ BeforeComma(t) \in Seq(Byte) /\ u \in Seq(Byte)
          /\ BeforeComma(u) \in Seq(Byte) /\ rest \in Seq(Byte)
      <3>1. BeforeComma(t) \in Seq(Byte) /\ u \in Seq(Byte)
        BY <2>1, CommaPieces
      <3> HIDE DEF u
      <3> QED BY <3>1, CommaPieces
    <2>3. f.from = ParseInt(BeforeComma(t), 0, U16_MAX) /\ f.len = len /\ f.rest = rest
          /\ f.signal = SubSeq(rest, len.val + 2, Len(rest))
      BY DEF RcvFields
    <2> HIDE DEF t, u, rest, len, f
    <2>4. 0 \in Int /\ 0 <= 0 /\ -I16_MAX - 1 \in Int /\ -I16_MAX - 1 <= 0
      BY Limits
    <2>5. len.ok /\ len.val \in 0..U32_MAX
      <3>1. len.ok
        BY <1>2, <2>3
      <3>2. len.ok => len.val \in 0..U32_MAX
        BY <2>2, <2>4, Limits, ParseIntType DEF len
      <3> QED BY <3>1, <3>2
    <2> DEFINE n == len.val
    <2>6. n \in Nat
      BY <2>5, Limits
    <2> HIDE DEF n
    <2>7. Len(rest) \in Nat /\ Len(rest) >= n + 1
      BY <1>2, <2>2, <2>3, LenProperties DEF DataEnds, n
    <2>8. SubSeq(rest, 1, n) \in Seq(Byte) /\ SubSeq(rest, n + 2, Len(rest)) \in Seq(Byte)
      <3>1. /\ 1 \in 1..(Len(rest) + 1) /\ n \in (1 - 1)..Len(rest)
            /\ n + 2 \in 1..(Len(rest) + 1) /\ Len(rest) \in ((n + 2) - 1)..Len(rest)
        BY <2>6, <2>7
      <3>2. Piece(SubSeq(rest, 1, n), rest, 1, n)
            /\ Piece(SubSeq(rest, n + 2, Len(rest)), rest, n + 2, Len(rest))
        BY <2>2, <3>1, PieceFacts
      <3> QED BY <3>2 DEF Piece
    <2>9. f.signal \in Seq(Byte) /\ SubSeq(f.rest, 1, f.len.val) \in Seq(Byte)
      BY <2>3, <2>8 DEF n
    <2>10. BeforeComma(f.signal) \in Seq(Byte) /\ AfterComma(f.signal) \in Seq(Byte)
      BY <2>9, CommaPieces
    <2>11. f.from.val \in 0..U16_MAX
      <3>1. f.from.ok
        BY <1>2
      <3>2. f.from.ok => f.from.val \in 0..U16_MAX
        BY <2>2, <2>3, <2>4, Limits, ParseIntType
      <3> QED BY <3>1, <3>2
    <2> DEFINE low == -I16_MAX - 1
    <2>12. low \in Int /\ low <= 0
      BY <2>4
    <2> HIDE DEF low
    <2>13. rssi.ok => rssi.val \in low..I16_MAX
      BY <2>10, <2>12, Limits, ParseIntType DEF low
    <2>14. snr.ok => snr.val \in low..I16_MAX
      BY <2>10, <2>12, Limits, ParseIntType DEF low
    <2>15. rssi.val \in I16 /\ snr.val \in I16
      BY <1>2, <2>13, <2>14 DEF I16, low
    <2> QED BY <2>9, <2>11, <2>15 DEF Event
  <1> HIDE DEF good, event
  <1>3. CASE good
    BY <1>1, <1>2, <1>3 DEF Parsed
  <1>4. CASE ~good
    BY <1>1, <1>4 DEF ParseError
  <1> QED BY <1>3, <1>4

\* Every answer parses or does not.
LEMMA ParseAnswerType ==
  ASSUME NEW setting \in Setting, NEW line
  PROVE  ParseAnswer(setting, line).ok \in BOOLEAN
PROOF
  <1>1. setting \in {"Address", "NetworkId", "Band", "Parameters", "Cpin"}
    BY DEF Setting, PrefixOf
  <1>2. \A v : Parsed(v).ok \in BOOLEAN
    BY DEF Parsed
  <1>3. ParseError.ok \in BOOLEAN
    BY DEF ParseError
  <1>4. ASSUME NEW b, NEW low, NEW high PROVE ParseInt(b, low, high).ok \in BOOLEAN
    <2> DEFINE digits == Unsigned(b, low)
               value  == Value(digits, LimitOf(b, low, high))
               bad    == digits = <<>> \/ ~(ToSet(digits) \subseteq Digit) \/ value = -1
               v      == IF Signed(b, low) THEN -value ELSE value
    <2>1. ParseInt(b, low, high) = IF bad THEN ParseError ELSE Parsed(v)
      BY ParseIntIs
    <2> HIDE DEF bad, v
    <2> QED BY <1>2, <1>3, <2>1
  <1>5. \A b : ParseParameters(b).ok \in BOOLEAN
    BY <1>2, <1>3, Zenon DEF ParseParameters
  <1>6. ASSUME NEW b PROVE ParseCpin(b).ok \in BOOLEAN
    BY <1>2, <1>3 DEF ParseCpin
  <1> DEFINE b == Tail(line)
             r == ParseAnswer(setting, line)
  <1>7. \/ r = ParseInt(b, 0, U16_MAX) \/ r = ParseInt(b, 0, U8_MAX)
        \/ r = ParseInt(b, 0, U32_MAX) \/ r = ParseParameters(b) \/ r = ParseCpin(b)
    BY <1>1 DEF ParseAnswer
  <1> HIDE DEF b, r
  <1>8. r.ok \in BOOLEAN
    BY <1>4, <1>5, <1>6, <1>7
  <1> QED BY <1>8 DEF r

\* A line the peers or the module put on the wire is bytes.
LEMMA WireBytes ==
  /\ \A data \in Payloads, signal \in Signals :
       /\ data \in Seq(Byte) /\ signal \in Signal /\ Len(data) <= U32_MAX
       /\ RcvLine(data, signal) \in Seq(Byte)
  /\ \A s \in Settings : IsSetting(s) /\ AnswerLine(s) \in Seq(Byte) /\ s.setting \in Setting
PROOF
  <1>1. ASSUME NEW data \in Payloads, NEW signal \in Signals
        PROVE  /\ data \in Seq(Byte) /\ signal \in Signal /\ Len(data) <= U32_MAX
               /\ RcvLine(data, signal) \in Seq(Byte)
    <2>1. data \in Seq(Byte) /\ signal \in Signal /\ Len(data) <= U32_MAX
      BY LinkAssumption
    <2>2. RcvLine(data, signal) \in Seq(Byte)
      BY <2>1, RcvLineFacts
    <2> QED BY <2>1, <2>2
  <1>2. ASSUME NEW s \in Settings
        PROVE  IsSetting(s) /\ AnswerLine(s) \in Seq(Byte) /\ s.setting \in Setting
    <2>1. IsSetting(s)
      BY LinkAssumption
    <2> QED BY <2>1, AnswerLineFacts DEF IsSetting
  <1> QED BY <1>1, <1>2

\* What is left of rx behind a line.
LEMMA DrainType ==
  ASSUME rx \in Seq(Byte), NEW r \in DOMAIN rx, LineEnd(r)
  PROVE  /\ SubSeq(rx, r + 2, Len(rx)) \in Seq(Byte)
         /\ Len(SubSeq(rx, r + 2, Len(rx))) <= Len(rx)
         /\ LineUpTo(r) \in Seq(Byte)
PROOF
  <1> DEFINE m == Len(rx)
  <1>1. m \in Nat /\ r \in 1..m /\ r + 1 <= m
    BY LenProperties DEF LineEnd
  <1>2. /\ r + 2 \in 1..(m + 1) /\ m \in ((r + 2) - 1)..m
        /\ 1 \in 1..(m + 1) /\ r - 1 \in (1 - 1)..m
    BY <1>1
  <1>3. Piece(SubSeq(rx, r + 2, m), rx, r + 2, m) /\ Piece(LineUpTo(r), rx, 1, r - 1)
    BY <1>2, PieceFacts DEF LineUpTo
  <1>4. /\ SubSeq(rx, r + 2, m) \in Seq(Byte) /\ LineUpTo(r) \in Seq(Byte)
        /\ Len(SubSeq(rx, r + 2, m)) = m - (r + 2) + 1
    BY <1>3 DEF Piece
  <1> DEFINE k == Len(SubSeq(rx, r + 2, m))
  <1>5. k = m - (r + 2) + 1
    BY <1>4
  <1> HIDE DEF k, m
  <1>6. k <= m
    BY <1>1, <1>5
  <1> QED BY <1>4, <1>6 DEF k, m

\* A read: what fits goes to rx.
LEMMA ReadType ==
  ASSUME rx \in Seq(Byte), wire \in Seq(Byte), Len(rx) <= RX_BUF, NEW n \in Nat, n <= Len(wire)
  PROVE  LET fits == Min({n, RX_BUF - Len(rx)})
         IN  /\ fits \in 0..n /\ (Len(rx) + n <= RX_BUF => fits = n)
             /\ rx \o SubSeq(wire, 1, fits) \in Seq(Byte)
             /\ Len(rx \o SubSeq(wire, 1, fits)) <= RX_BUF
             /\ SubSeq(wire, n + 1, Len(wire)) \in Seq(Byte)
PROOF
  <1> DEFINE m == Len(rx)
             w == Len(wire)
             room == RX_BUF - m
             fits == Min({n, room})
  <1>1. m \in Nat /\ w \in Nat /\ RX_BUF \in Nat /\ m <= RX_BUF /\ n <= w
    BY LenProperties, LinkAssumption
  <1>2. room \in Nat
    BY <1>1
  <1>3. fits = IF n <= room THEN n ELSE room
    <2> DEFINE a == IF n <= room THEN n ELSE room
    <2>1. a \in {n, room} /\ \A y \in {n, room} : a <= y
      BY <1>2
    <2>2. \A x \in {n, room} : (\A y \in {n, room} : x <= y) => x = a
      BY <1>2
    <2> HIDE DEF a, room
    <2>3. fits = a
      BY <2>1, <2>2 DEF Min
    <2> QED BY <2>3 DEF a
  <1> HIDE DEF fits
  <1>4. fits \in 0..n /\ fits <= room /\ fits \in 0..w /\ (m + n <= RX_BUF => fits = n)
    BY <1>1, <1>2, <1>3
  <1>5. rx \o SubSeq(wire, 1, fits) \in Seq(Byte)
        /\ Len(rx \o SubSeq(wire, 1, fits)) = m + fits
    BY <1>4, MoveBytes
  <1>6. SubSeq(wire, n + 1, w) \in Seq(Byte)
    <2>1. n \in 0..w
      BY <1>1
    <2> QED BY <2>1, MoveBytes
  <1> DEFINE k == Len(rx \o SubSeq(wire, 1, fits))
  <1>7. k = m + fits
    BY <1>5
  <1> HIDE DEF k
  <1>8. k <= RX_BUF
    BY <1>1, <1>4, <1>7
  <1> QED BY <1>4, <1>5, <1>6, <1>8 DEF k, fits

\* Every step preserves the types.
LEMMA LinkTypeStep ==
  ASSUME LinkTypeOK, [LinkNext]_linkVars
  PROVE  LinkTypeOK'
PROOF
  <1> USE DEF LinkTypeOK
  <1>0. MaxLines \in Nat /\ MaxNoise \in Nat /\ asks \in 0..MaxLines /\ noise \in 0..MaxNoise
    BY LinkAssumption
  <1>1. CASE UNCHANGED linkVars
    BY <1>1 DEF linkVars
  <1>2. ASSUME NEW data \in Payloads, NEW signal \in Signals, PeerSends(data, signal)
        PROVE  LinkTypeOK'
    <2>1. wire \o RcvLine(data, signal) \in Seq(Byte)
      BY WireBytes, ConcatProperties
    <2>2. [from |-> signal.from, data |-> data, rssi |-> signal.rssi, snr |-> signal.snr] \in Event
      BY WireBytes DEF Signal, Event
    <2>3. sent' \in Seq(Event)
      BY <1>2, <2>2, AppendProperties DEF PeerSends
    <2> QED BY <1>2, <2>1, <2>3 DEF PeerSends
  <1>3. ASSUME NEW i \in DOMAIN wire, WireLosesByte(i) PROVE LinkTypeOK'
    <2> DEFINE m == Len(wire)
    <2>1. m \in Nat /\ i \in 1..m
      BY LenProperties
    <2>2. /\ 1 \in 1..(m + 1) /\ i - 1 \in (1 - 1)..m
          /\ i + 1 \in 1..(m + 1) /\ m \in ((i + 1) - 1)..m
      BY <2>1
    <2>3. Piece(SubSeq(wire, 1, i - 1), wire, 1, i - 1)
          /\ Piece(SubSeq(wire, i + 1, m), wire, i + 1, m)
      BY <2>2, PieceFacts
    <2>4. SubSeq(wire, 1, i - 1) \in Seq(Byte) /\ SubSeq(wire, i + 1, m) \in Seq(Byte)
      BY <2>3 DEF Piece
    <2>5. wire' \in Seq(Byte)
      BY <1>3, <2>4, ConcatProperties DEF WireLosesByte, RemoveAt
    <2>6. noise < MaxNoise /\ noise' = noise + 1
      BY <1>3 DEF WireLosesByte
    <2>7. noise' \in 0..MaxNoise
      BY <1>0, <2>6
    <2> QED BY <1>3, <2>5, <2>7 DEF WireLosesByte
  <1>4. ASSUME NEW s \in Settings, HostSetsAndAsks(s) PROVE LinkTypeOK'
    <2>1. wire \o AnswerLine(s) \in Seq(Byte) /\ s.setting \in Setting
      BY WireBytes, ConcatProperties
    <2>2. Len(sent) + asks < MaxLines /\ asks' = asks + 1 /\ Len(sent) \in Nat
      BY <1>4, LenProperties DEF HostSetsAndAsks
    <2> DEFINE k == Len(sent)
    <2>3. k + asks < MaxLines /\ k \in Nat
      BY <2>2
    <2> HIDE DEF k
    <2>4. asks' \in 0..MaxLines
      BY <1>0, <2>2, <2>3
    <2>5. NoReply.ok \in BOOLEAN
      BY DEF NoReply
    <2> QED BY <1>4, <2>1, <2>4, <2>5 DEF HostSetsAndAsks
  <1>5. ASSUME NEW r \in DOMAIN rx, LineEnd(r), Drain(r)
        PROVE  rx' \in Seq(Byte) /\ Len(rx') <= RX_BUF /\ LineUpTo(r) \in Seq(Byte)
    <2> DEFINE k == Len(SubSeq(rx, r + 2, Len(rx)))
    <2>1. k <= Len(rx) /\ k \in Nat /\ Len(rx) \in Nat /\ RX_BUF \in Nat /\ Len(rx) <= RX_BUF
      BY <1>5, DrainType, LenProperties, LinkAssumption
    <2> HIDE DEF k
    <2>2. k <= RX_BUF
      BY <2>1
    <2> QED BY <1>5, <2>2, DrainType DEF Drain, k
  <1>6. ASSUME NEW r \in DOMAIN rx, HostPollsEvent(r) PROVE LinkTypeOK'
    <2> DEFINE event == ParseRcv(LineUpTo(r))
    <2>1. rx' \in Seq(Byte) /\ Len(rx') <= RX_BUF /\ LineUpTo(r) \in Seq(Byte)
      BY <1>5, <1>6 DEF HostPollsEvent
    <2>2. LineUpTo(r) # <<>>
      BY <1>6 DEF HostPollsEvent, StartsWith
    <2>3. event.ok \in BOOLEAN /\ (event.ok => event.val \in Event)
      BY <2>1, <2>2, ParseRcvType
    <2>4. got' = (IF event.ok THEN Append(got, event.val) ELSE got) /\ dropped' = ~event.ok
      BY <1>6 DEF HostPollsEvent
    <2> HIDE DEF event
    <2>5. got' \in Seq(Event)
      BY <2>3, <2>4, AppendProperties
    <2> QED BY <1>6, <2>1, <2>3, <2>4, <2>5 DEF HostPollsEvent
  <1>7. ASSUME NEW r \in DOMAIN rx, HostPollsAnswer(r) PROVE LinkTypeOK'
    <2>1. rx' \in Seq(Byte) /\ Len(rx') <= RX_BUF
      BY <1>5, <1>7 DEF HostPollsAnswer
    <2>2. asked \in Setting /\ reply' = ParseAnswer(asked, LineUpTo(r)) /\ dropped' = ~reply'.ok
      BY <1>7 DEF HostPollsAnswer
    <2>3. reply'.ok \in BOOLEAN
      BY <2>2, ParseAnswerType
    <2> QED BY <1>7, <2>1, <2>2, <2>3 DEF HostPollsAnswer
  <1>8. ASSUME NEW n \in ReadSizes, HostReads(n) PROVE LinkTypeOK'
    <2>1. n \in Nat /\ n <= Len(wire)
      BY <1>8, LinkAssumption DEF HostReads
    <2> DEFINE fits == Min({n, RX_BUF - Len(rx)})
    <2>2. /\ rx \o SubSeq(wire, 1, fits) \in Seq(Byte)
          /\ Len(rx \o SubSeq(wire, 1, fits)) <= RX_BUF
          /\ SubSeq(wire, n + 1, Len(wire)) \in Seq(Byte)
      BY <2>1, ReadType
    <2>3. rx' = rx \o SubSeq(wire, 1, fits) /\ wire' = SubSeq(wire, n + 1, Len(wire))
      BY <1>8 DEF HostReads
    <2> HIDE DEF fits
    <2> QED BY <1>8, <2>2, <2>3 DEF HostReads
  <1> QED BY <1>1, <1>2, <1>3, <1>4, <1>6, <1>7, <1>8 DEF LinkNext, HostPolls

LEMMA LinkTypeInit == LinkInit => LinkTypeOK
PROOF
  <1>1. <<>> \in Seq(Byte) /\ <<>> \in Seq(Event) /\ Len(<<>>) = 0
    BY EmptySeq
  <1>2. 0 <= RX_BUF /\ 0 \in 0..MaxLines /\ 0 \in 0..MaxNoise
    BY LinkAssumption
  <1> SUFFICES ASSUME LinkInit PROVE LinkTypeOK
    OBVIOUS
  <1>3. wire \in Seq(Byte) /\ rx \in Seq(Byte) /\ sent \in Seq(Event) /\ got \in Seq(Event)
    BY <1>1 DEF LinkInit
  <1>4. Len(rx) <= RX_BUF
    BY <1>1, <1>2 DEF LinkInit
  <1>5. reply.ok \in BOOLEAN
    BY DEF LinkInit, NoReply
  <1> QED BY <1>2, <1>3, <1>4, <1>5 DEF LinkInit, LinkTypeOK

\* Whatever is sent and lost, rx keeps to its capacity and what parses has the types
\* its fields have: no line makes a number that does not fit. (push_rx,
\* next_line_end, parse_event, parse_response.)
THEOREM LinkTypeCorrect == LinkSpec => []LinkTypeOK
PROOF
  <1>1. LinkInit => LinkTypeOK
    BY LinkTypeInit
  <1>2. LinkTypeOK /\ [LinkNext]_linkVars => LinkTypeOK'
    BY LinkTypeStep
  <1> QED BY <1>1, <1>2, PTL DEF LinkSpec

-----------------------------------------------------------------------------
(* Without loss: what is in flight                                         *)

\* A transmission, the line the module makes of it and what is behind its prefix.
SignalOf(e) == [from |-> e.from, rssi |-> e.rssi, snr |-> e.snr]
LineOf(e)   == RcvLine(e.data, SignalOf(e))
HeadOf(e)   == RcvHead(e.data, SignalOf(e))

Transmitted(e) ==
  /\ e = [from |-> e.from, data |-> e.data, rssi |-> e.rssi, snr |-> e.snr]
  /\ e.data \in Payloads /\ SignalOf(e) \in Signals

\* The transmission behind which the k-th line comes, when line a is an answer.
Rank(a, k) == IF a # 0 /\ a < k THEN k - 1 ELSE k

\* The bytes in rx and on the wire are the lines of the transmissions poll has not
\* returned, in order, and among them the answer to the query, if there is one.
InFlight(a, lines) ==
  /\ Framed(rx \o wire, lines)
  /\ a \in 0..Len(lines) /\ (a = 0 <=> asked = "None")
  /\ Len(sent) = Len(got) + Len(lines) - (IF a = 0 THEN 0 ELSE 1)
  /\ \A k \in 1..Len(lines) : k # a => lines[k] = LineOf(sent[Len(got) + Rank(a, k)])
  /\ a # 0 => lines[a] = AnswerLine(wanted) /\ asked = wanted.setting

Told ==
  /\ ~dropped
  /\ \A i \in 1..Len(sent) : Transmitted(sent[i])
  /\ Len(got) <= Len(sent) /\ \A i \in 1..Len(got) : got[i] = sent[i]
  /\ asks > 0 \/ asked # "None" => wanted \in Settings
  /\ asks > 0 /\ asked = "None" => reply = Parsed(wanted.val)

\* No bytes lost: all is told or in flight.
Lossless == Told /\ \E a, lines : InFlight(a, lines)

LinkInv == LinkTypeOK /\ (noise = 0 => Lossless)

\* The line of a transmission.
LEMMA TransmittedLine ==
  ASSUME \A data \in Payloads : EndsNoLine(data), NEW e, Transmitted(e)
  PROVE  /\ Line(LineOf(e), HeadOf(e)) /\ HeadOf(e)[1] = "+RCV" /\ HeadOf(e) # <<>>
         /\ LineOf(e) \in Seq(Byte) /\ ParseRcv(HeadOf(e)) = Parsed(e)
         /\ RoomToRead => \A n \in ReadSizes : Len(LineOf(e)) + n <= RX_BUF + 1
PROOF
  <1> DEFINE data == e.data
             signal == SignalOf(e)
  <1>1. data \in Payloads /\ signal \in Signals
    BY DEF Transmitted
  <1>2. data \in Seq(Byte) /\ signal \in Signal /\ Len(data) <= U32_MAX
    BY <1>1, WireBytes
  <1>3. Smooth(data)
    <2>1. DOMAIN data = 1..Len(data)
      BY <1>2, LenProperties
    <2> QED BY <1>1, <1>2, <2>1 DEF Smooth, EndsNoLine
  <1>4. e = [from |-> signal.from, data |-> data, rssi |-> signal.rssi, snr |-> signal.snr]
    BY DEF Transmitted, SignalOf
  <1>5. LineOf(e) = RcvLine(data, signal) /\ HeadOf(e) = RcvHead(data, signal)
    BY DEF LineOf, HeadOf
  <1> HIDE DEF data, signal
  <1>6. /\ HeadOf(e)[1] = "+RCV" /\ Len(HeadOf(e)) >= 1 /\ LineOf(e) \in Seq(Byte)
        /\ Line(LineOf(e), HeadOf(e))
    BY <1>2, <1>3, <1>5, RcvLineFacts
  <1>7. HeadOf(e) # <<>>
    <2> DEFINE k == Len(HeadOf(e))
    <2>1. k >= 1 /\ Len(<<>>) = 0
      BY <1>6, EmptySeq
    <2>2. k # 0
      <3> HIDE DEF k
      <3> QED BY <2>1
    <2> QED BY <2>1, <2>2
  <1>8. ParseRcv(HeadOf(e)) = Parsed(e)
    BY <1>2, <1>4, <1>5, RcvReadsBack
  <1>9. ASSUME RoomToRead, NEW n \in ReadSizes PROVE Len(LineOf(e)) + n <= RX_BUF + 1
    BY <1>1, <1>5, <1>9 DEF RoomToRead
  <1> QED BY <1>6, <1>7, <1>8, <1>9

\* The line of an answer.
LEMMA SettingLine ==
  ASSUME NEW s \in Settings
  PROVE  /\ Line(AnswerLine(s), AnswerHead(s)) /\ AnswerHead(s) # <<>>
         /\ AnswerHead(s)[1] = PrefixOf[s.setting] /\ PrefixOf[s.setting] # "+RCV"
         /\ ParseAnswer(s.setting, AnswerHead(s)) = Parsed(s.val)
         /\ AnswerLine(s) \in Seq(Byte) /\ s.setting # "None"
         /\ RoomToRead => \A n \in ReadSizes : Len(AnswerLine(s)) + n <= RX_BUF + 1
PROOF
  <1>1. IsSetting(s)
    BY WireBytes
  <1>2. /\ Line(AnswerLine(s), AnswerHead(s)) /\ AnswerHead(s)[1] = PrefixOf[s.setting]
        /\ Len(AnswerHead(s)) >= 1 /\ AnswerLine(s) \in Seq(Byte)
    BY <1>1, AnswerLineFacts
  <1>3. PrefixOf[s.setting] # "+RCV" /\ s.setting # "None"
    BY <1>1, PrefixFacts DEF IsSetting
  <1>4. ParseAnswer(s.setting, AnswerHead(s)) = Parsed(s.val)
    BY <1>1, SettingReadsBack
  <1>5. AnswerHead(s) # <<>>
    <2> DEFINE k == Len(AnswerHead(s))
    <2>1. k >= 1 /\ Len(<<>>) = 0
      BY <1>2, EmptySeq
    <2>2. k # 0
      <3> HIDE DEF k
      <3> QED BY <2>1
    <2> QED BY <2>1, <2>2
  <1>6. ASSUME RoomToRead, NEW n \in ReadSizes PROVE Len(AnswerLine(s)) + n <= RX_BUF + 1
    BY <1>6 DEF RoomToRead
  <1> QED BY <1>2, <1>3, <1>4, <1>5, <1>6

\* The first line in flight is that of the next transmission, or the answer.
NextLine(a, lines, head) ==
  /\ Line(lines[1], head) /\ FirstInRx(lines, head) /\ head # <<>>
  /\ a # 1 => /\ Len(got) + 1 <= Len(sent) /\ head[1] = "+RCV"
              /\ ParseRcv(head) = Parsed(sent[Len(got) + 1])
  /\ a = 1 => /\ asked # "None" /\ head[1] = PrefixOf[asked] /\ PrefixOf[asked] # "+RCV"
              /\ ParseAnswer(asked, head) = Parsed(wanted.val)
  /\ RoomToRead => \A n \in ReadSizes : Len(lines[1]) + n <= RX_BUF + 1

LEMMA NextLineFacts ==
  ASSUME \A data \in Payloads : EndsNoLine(data), LinkTypeOK, Told,
         NEW a, NEW lines, InFlight(a, lines), lines # <<>>
  PROVE  \E head : NextLine(a, lines, head)
PROOF
  <1> DEFINE n == Len(lines)
             g == Len(got)
             s == Len(sent)
  <1>1. /\ n \in Nat \ {0} /\ g \in Nat /\ s \in Nat /\ a \in 0..n /\ 1 \in 1..n
        /\ s = g + n - (IF a = 0 THEN 0 ELSE 1)
    <2>1. n \in Nat \ {0}
      BY EmptySeq DEF InFlight, Framed
    <2>2. g \in Nat /\ s \in Nat
      BY LenProperties DEF LinkTypeOK
    <2>3. a \in 0..n /\ s = g + n - (IF a = 0 THEN 0 ELSE 1)
      BY DEF InFlight
    <2>4. 1 \in 1..n
      BY <2>1
    <2> QED BY <2>1, <2>2, <2>3, <2>4
  <1>2. rx \in Seq(Byte) /\ wire \in Seq(Byte) /\ Framed(rx \o wire, lines)
    BY DEF LinkTypeOK, InFlight
  <1>3. CASE a # 1
    <2> DEFINE e == sent[g + 1]
               head == HeadOf(e)
    <2> HIDE DEF n, g, s
    <2>1. Rank(a, 1) = 1
      BY <1>1 DEF Rank
    <2>2. g + 1 \in 1..s
      BY <1>1, <1>3
    <2>3. Transmitted(e)
      BY <2>2 DEF Told, s
    <2>4. lines[1] = LineOf(e)
      BY <1>1, <1>3, <2>1 DEF InFlight, n, g
    <2>5. /\ Line(lines[1], head) /\ head[1] = "+RCV" /\ head # <<>>
          /\ ParseRcv(head) = Parsed(e)
          /\ RoomToRead => \A k \in ReadSizes : Len(lines[1]) + k <= RX_BUF + 1
      BY <2>3, <2>4, TransmittedLine
    <2> HIDE DEF e, head
    <2>6. FirstInRx(lines, head)
      BY <1>2, <2>5, FirstInRxFacts
    <2>7. g + 1 <= s
      BY <1>1, <2>2
    <2>8. NextLine(a, lines, head)
      BY <1>3, <2>5, <2>6, <2>7 DEF NextLine, e, g, s
    <2> QED BY <2>8
  <1>4. CASE a = 1
    <2> DEFINE head == AnswerHead(wanted)
    <2>1. asked # "None" /\ lines[1] = AnswerLine(wanted) /\ asked = wanted.setting
      BY <1>4 DEF InFlight
    <2>2. wanted \in Settings
      BY <2>1 DEF Told
    <2>3. /\ Line(lines[1], head) /\ head # <<>> /\ head[1] = PrefixOf[asked]
          /\ PrefixOf[asked] # "+RCV" /\ ParseAnswer(asked, head) = Parsed(wanted.val)
          /\ RoomToRead => \A k \in ReadSizes : Len(lines[1]) + k <= RX_BUF + 1
      BY <2>1, <2>2, SettingLine
    <2> HIDE DEF head
    <2>4. FirstInRx(lines, head)
      BY <1>2, <2>3, FirstInRxFacts
    <2>5. NextLine(a, lines, head)
      BY <1>4, <2>1, <2>3, <2>4 DEF NextLine
    <2> QED BY <2>5
  <1> QED BY <1>3, <1>4

\* poll has nothing to do: not all of the first line is in rx.
LEMMA NotReady ==
  ASSUME \A data \in Payloads : EndsNoLine(data), LinkTypeOK, Told,
         NEW a, NEW lines, InFlight(a, lines), lines # <<>>, ~LineReady
  PROVE  /\ Len(rx) < Len(lines[1])
         /\ RoomToRead => \A n \in ReadSizes : Len(rx) + n <= RX_BUF
PROOF
  <1>1. PICK head : NextLine(a, lines, head)
    BY NextLineFacts
  <1> DEFINE m == Len(rx)
             h == Len(head)
             l == Len(lines[1])
  <1>2. m \in Nat /\ h \in Nat /\ l = h + 2
    <2>1. head \in Seq(Byte) /\ l = h + 2
      BY <1>1 DEF NextLine, Line, Smooth
    <2> QED BY <2>1, LenProperties DEF LinkTypeOK
  <1>3. Claimed(head)
    BY <1>1 DEF NextLine, Claimed, StartsWith
  <1>4. ASSUME m >= h + 2 PROVE FALSE
    <2>1. h + 1 \in DOMAIN rx /\ LineEnd(h + 1) /\ LineUpTo(h + 1) = head
      BY <1>1, <1>4 DEF NextLine, FirstInRx
    <2> QED BY <1>3, <2>1 DEF LineReady
  <1>5. ASSUME RoomToRead, NEW n \in ReadSizes PROVE n \in Nat /\ l + n <= RX_BUF + 1
    BY <1>1, <1>5, LinkAssumption DEF NextLine
  <1>6. RX_BUF \in Nat
    BY LinkAssumption
  <1> HIDE DEF m, h, l
  <1>7. m < l
    BY <1>2, <1>4
  <1>8. ASSUME RoomToRead, NEW n \in ReadSizes PROVE m + n <= RX_BUF
    <2>1. n \in Nat /\ l + n <= RX_BUF + 1
      BY <1>5, <1>8
    <2> QED BY <1>2, <1>6, <1>7, <2>1
  <1> QED BY <1>7, <1>8 DEF m, l

\* A peer sends a payload.
LEMMA SendStep ==
  ASSUME LinkTypeOK, Lossless, NEW data \in Payloads, NEW signal \in Signals,
         PeerSends(data, signal)
  PROVE  Lossless'
PROOF
  <1> DEFINE e == [from |-> signal.from, data |-> data,
                   rssi |-> signal.rssi, snr |-> signal.snr]
             l == RcvLine(data, signal)
             g == Len(got)
             s == Len(sent)
  <1>1. /\ sent' = Append(sent, e) /\ wire' = wire \o l
        /\ UNCHANGED <<rx, dropped, asked, reply, wanted, asks, got>>
    BY DEF PeerSends
  <1>2. /\ data \in Seq(Byte) /\ signal \in Signal /\ l \in Seq(Byte)
    BY WireBytes
  <1>3. e \in Event
    BY <1>2 DEF Signal, Event
  <1>4. signal = [from |-> signal.from, rssi |-> signal.rssi, snr |-> signal.snr]
    BY <1>2 DEF Signal
  <1>5. SignalOf(e) = signal /\ e.data = data
    BY <1>4 DEF SignalOf
  <1>6. Transmitted(e) /\ LineOf(e) = l
    BY <1>5 DEF Transmitted, LineOf
  <1>7. sent \in Seq(Event) /\ s \in Nat /\ g \in Nat
    BY LenProperties DEF LinkTypeOK
  <1> HIDE DEF e, l, s
  <1>8. Len(sent') = s + 1 /\ sent'[s + 1] = e /\ \A i \in 1..s : sent'[i] = sent[i]
    BY <1>1, <1>3, <1>7, AppendProperties DEF s
  <1>9. Told'
    <2>1. \A i \in 1..Len(sent') : Transmitted(sent'[i])
      <3> SUFFICES ASSUME NEW i \in 1..Len(sent') PROVE Transmitted(sent'[i])
        OBVIOUS
      <3>1. i = s + 1 \/ i \in 1..s
        BY <1>7, <1>8
      <3>2. \A j \in 1..s : Transmitted(sent[j])
        BY DEF Lossless, Told, s
      <3> QED BY <1>6, <1>8, <3>1, <3>2
    <2>2. g <= s /\ \A i \in 1..g : got[i] = sent[i]
      BY DEF Lossless, Told, s
    <2> HIDE DEF g
    <2>3. g <= s + 1 /\ \A i \in 1..g : i \in 1..s
      BY <1>7, <2>2
    <2>4. got' = got /\ Len(got') = g
      BY <1>1 DEF g
    <2>5. Len(got') <= Len(sent') /\ \A i \in 1..Len(got') : got'[i] = sent'[i]
      BY <1>8, <2>2, <2>3, <2>4
    <2> QED BY <1>1, <2>1, <2>5 DEF Lossless, Told
  <1>10. PICK a, lines : InFlight(a, lines)
    BY DEF Lossless
  <1> DEFINE ls == Append(lines, l)
             n == Len(lines)
  <1>11. /\ Framed(rx \o wire, lines) /\ a \in 0..n /\ (a = 0 <=> asked = "None")
         /\ s = g + n - (IF a = 0 THEN 0 ELSE 1)
         /\ \A k \in 1..n : k # a => lines[k] = LineOf(sent[g + Rank(a, k)])
         /\ a # 0 => lines[a] = AnswerLine(wanted) /\ asked = wanted.setting
    BY <1>10 DEF InFlight, s
  <1>12. lines \in Seq(Seq(Byte)) /\ n \in Nat
    BY <1>11, LenProperties DEF Framed
  <1>13. ls \in Seq(Seq(Byte)) /\ Len(ls) = n + 1 /\ ls[n + 1] = l
         /\ \A k \in 1..n : ls[k] = lines[k]
    BY <1>2, <1>12, AppendProperties
  <1>14. Framed(rx' \o wire', ls)
    <2>1. Framed((rx \o wire) \o l, ls)
      BY <1>2, <1>11, FramedAppend
    <2>2. (rx \o wire) \o l = rx \o (wire \o l)
      <3>1. rx \in Seq(Byte) /\ wire \in Seq(Byte) /\ l \in Seq(Byte)
        BY <1>2 DEF LinkTypeOK
      <3> QED BY <3>1, ConcatAssociative
    <2> QED BY <1>1, <2>1, <2>2
  <1> HIDE DEF ls, n, g
  <1>15. a \in 0..Len(ls) /\ s + 1 = g + Len(ls) - (IF a = 0 THEN 0 ELSE 1)
    BY <1>7, <1>11, <1>12, <1>13
  <1>16. ASSUME NEW k \in 1..Len(ls), k # a PROVE ls[k] = LineOf(sent'[g + Rank(a, k)])
    <2>1. CASE k = n + 1
      <3>1. g + Rank(a, k) = s + 1
        BY <1>7, <1>11, <1>12, <2>1 DEF Rank
      <3> QED BY <1>6, <1>8, <1>13, <2>1, <3>1
    <2>2. CASE k # n + 1
      <3>1. k \in 1..n
        BY <1>12, <1>13, <2>2
      <3>2. g + Rank(a, k) \in 1..s
        BY <1>7, <1>11, <1>12, <1>16, <3>1 DEF Rank
      <3>3. lines[k] = LineOf(sent[g + Rank(a, k)])
        BY <1>11, <1>16, <3>1
      <3> QED BY <1>8, <1>13, <3>1, <3>2, <3>3
    <2> QED BY <2>1, <2>2
  <1>17. a # 0 => ls[a] = AnswerLine(wanted) /\ asked = wanted.setting
    <2>1. a # 0 => a \in 1..n
      BY <1>11, <1>12
    <2> QED BY <1>11, <1>13, <2>1
  <1>18. InFlight(a, ls)'
    BY <1>1, <1>8, <1>11, <1>14, <1>15, <1>16, <1>17 DEF InFlight, g
  <1> QED BY <1>9, <1>18 DEF Lossless

\* The host sets a value and asks for it.
LEMMA AskStep ==
  ASSUME LinkTypeOK, Lossless, NEW s \in Settings, HostSetsAndAsks(s)
  PROVE  Lossless'
PROOF
  <1> DEFINE l == AnswerLine(s)
             g == Len(got)
             m == Len(sent)
  <1>1. /\ asked = "None" /\ asked' = s.setting /\ wanted' = s /\ wire' = wire \o l
        /\ UNCHANGED <<rx, dropped, sent, got>>
    BY DEF HostSetsAndAsks
  <1>2. l \in Seq(Byte) /\ s.setting # "None"
    BY SettingLine
  <1> HIDE DEF l
  <1>3. g \in Nat /\ m \in Nat
    BY LenProperties DEF LinkTypeOK
  <1>4. Told'
    BY <1>1, <1>2 DEF Lossless, Told
  <1>5. PICK b, lines : InFlight(b, lines)
    BY DEF Lossless
  <1> DEFINE ls == Append(lines, l)
             n == Len(lines)
             a == n + 1
  <1>6. /\ Framed(rx \o wire, lines) /\ b = 0
        /\ m = g + n - (IF b = 0 THEN 0 ELSE 1)
        /\ \A k \in 1..n : k # b => lines[k] = LineOf(sent[g + Rank(b, k)])
    BY <1>1, <1>5 DEF InFlight
  <1>7. lines \in Seq(Seq(Byte)) /\ n \in Nat
    BY <1>6, LenProperties DEF Framed
  <1>8. ls \in Seq(Seq(Byte)) /\ Len(ls) = n + 1 /\ ls[n + 1] = l
        /\ \A k \in 1..n : ls[k] = lines[k]
    BY <1>2, <1>7, AppendProperties
  <1>9. Framed(rx' \o wire', ls)
    <2>1. Framed((rx \o wire) \o l, ls)
      BY <1>2, <1>6, FramedAppend
    <2>2. (rx \o wire) \o l = rx \o (wire \o l)
      <3>1. rx \in Seq(Byte) /\ wire \in Seq(Byte) /\ l \in Seq(Byte)
        BY <1>2 DEF LinkTypeOK
      <3> QED BY <3>1, ConcatAssociative
    <2> QED BY <1>1, <2>1, <2>2
  <1> HIDE DEF ls, n, g, m
  <1>10. a \in 0..Len(ls) /\ a # 0 /\ m = g + Len(ls) - 1
    BY <1>3, <1>6, <1>7, <1>8
  <1>11. ASSUME NEW k \in 1..Len(ls), k # a PROVE ls[k] = LineOf(sent[g + Rank(a, k)])
    <2>1. k \in 1..n
      BY <1>7, <1>8, <1>11
    <2>2. Rank(b, k) = k /\ Rank(a, k) = k /\ k # b
      BY <1>6, <1>7, <2>1 DEF Rank
    <2> QED BY <1>6, <1>8, <2>1, <2>2
  <1>12. InFlight(a, ls)'
    BY <1>1, <1>2, <1>8, <1>9, <1>10, <1>11 DEF InFlight, g, m, l
  <1> QED BY <1>4, <1>12 DEF Lossless

\* What is in flight behind the first line.
LEMMA Behind ==
  ASSUME LinkTypeOK, Told, NEW a, NEW lines, InFlight(a, lines), lines # <<>>
  PROVE  LET n == Len(lines)
             g == Len(got)
             ls == Tail(lines)
         IN  /\ Len(ls) = n - 1
             /\ a \notin {0, 1} => a - 1 \in 1..(n - 1) /\ ls[a - 1] = AnswerLine(wanted)
             /\ a # 1 => \A k \in 1..(n - 1) : k + 1 # a =>
                  ls[k] = LineOf(sent[g + 1 + Rank(IF a = 0 THEN 0 ELSE a - 1, k)])
             /\ a = 1 => \A k \in 1..(n - 1) : ls[k] = LineOf(sent[g + k])
PROOF
  <1> DEFINE n == Len(lines)
             g == Len(got)
             ls == Tail(lines)
  <1>1. /\ Framed(rx \o wire, lines) /\ a \in 0..n
        /\ \A k \in 1..n : k # a => lines[k] = LineOf(sent[g + Rank(a, k)])
        /\ a # 0 => lines[a] = AnswerLine(wanted)
    BY DEF InFlight
  <1>2. lines \in Seq(Seq(Byte)) /\ n \in Nat \ {0} /\ g \in Nat
    BY <1>1, EmptySeq, LenProperties DEF Framed, LinkTypeOK
  <1>3. Len(ls) = n - 1 /\ \A k \in 1..(n - 1) : ls[k] = lines[k + 1]
    <2>1. Len(ls) = n - 1 /\ \A k \in 1..Len(ls) : ls[k] = lines[k + 1]
      BY <1>2, HeadTailProperties
    <2> QED BY <2>1
  <1> HIDE DEF ls, n, g
  <1>4. ASSUME a \notin {0, 1} PROVE a - 1 \in 1..(n - 1) /\ ls[a - 1] = AnswerLine(wanted)
    <2>1. a - 1 \in 1..(n - 1) /\ (a - 1) + 1 = a /\ a # 0
      BY <1>1, <1>2, <1>4
    <2> QED BY <1>1, <1>3, <2>1
  <1>5. ASSUME a # 1, NEW k \in 1..(n - 1), k + 1 # a
        PROVE  ls[k] = LineOf(sent[g + 1 + Rank(IF a = 0 THEN 0 ELSE a - 1, k)])
    <2>1. k + 1 \in 1..n
      BY <1>2
    <2>2. g + Rank(a, k + 1) = g + 1 + Rank(IF a = 0 THEN 0 ELSE a - 1, k)
      BY <1>1, <1>2, <1>5 DEF Rank
    <2> QED BY <1>1, <1>3, <1>5, <2>1, <2>2
  <1>6. ASSUME a = 1, NEW k \in 1..(n - 1) PROVE ls[k] = LineOf(sent[g + k])
    <2>1. k + 1 \in 1..n /\ k + 1 # a /\ Rank(a, k + 1) = k
      BY <1>2, <1>6 DEF Rank
    <2> QED BY <1>1, <1>3, <2>1
  <1> QED BY <1>3, <1>4, <1>5, <1>6 DEF ls, n, g

\* poll returns the next event.
LEMMA EventStep ==
  ASSUME \A data \in Payloads : EndsNoLine(data), LinkTypeOK, LinkTypeOK', Lossless,
         NEW r \in DOMAIN rx, HostPollsEvent(r)
  PROVE  Lossless'
PROOF
  <1> DEFINE g == Len(got)
             s == Len(sent)
             e == sent[g + 1]
  <1>1. PICK a, lines : InFlight(a, lines)
    BY DEF Lossless
  <1>2. /\ LineEnd(r) /\ StartsWith(LineUpTo(r), "+RCV") /\ rx' = SubSeq(rx, r + 2, Len(rx))
        /\ got' = (IF ParseRcv(LineUpTo(r)).ok THEN Append(got, ParseRcv(LineUpTo(r)).val)
                   ELSE got)
        /\ dropped' = ~ParseRcv(LineUpTo(r)).ok
        /\ UNCHANGED <<wire, asked, reply, wanted, asks, sent>>
    BY DEF HostPollsEvent, Drain
  <1>3. lines # <<>>
    <2> SUFFICES ASSUME lines = <<>> PROVE FALSE
      OBVIOUS
    <2>1. rx \o wire = <<>> /\ rx \in Seq(Byte) /\ wire \in Seq(Byte)
      BY <1>1, FramedEmpty DEF InFlight, LinkTypeOK
    <2>2. rx = <<>>
      BY <2>1, ConcatEqualIffEmpty
    <2>3. DOMAIN rx = {}
      BY <2>1, <2>2, LenProperties, EmptySeq
    <2> QED BY <2>3
  <1>4. PICK head : NextLine(a, lines, head)
    BY <1>1, <1>3, NextLineFacts DEF Lossless
  <1>5. /\ LineUpTo(r) = head /\ Framed(rx' \o wire', Tail(lines))
    BY <1>2, <1>4 DEF NextLine, FirstInRx
  <1>6. a # 1
    BY <1>2, <1>4, <1>5 DEF NextLine, StartsWith
  <1>7. g + 1 <= s /\ ParseRcv(head) = Parsed(e)
    BY <1>4, <1>6 DEF NextLine
  <1>8. got' = Append(got, e) /\ dropped' = FALSE
    <2> DEFINE event == ParseRcv(LineUpTo(r))
    <2>1. event = Parsed(e)
      BY <1>5, <1>7
    <2>2. event.ok = TRUE /\ event.val = e
      <3> HIDE DEF event
      <3> QED BY <2>1 DEF Parsed
    <2>3. got' = (IF event.ok THEN Append(got, event.val) ELSE got) /\ dropped' = ~event.ok
      BY <1>2
    <2> HIDE DEF event, e
    <2> QED BY <2>2, <2>3, Zenon
  <1>9. got \in Seq(Event) /\ sent \in Seq(Event) /\ g \in Nat /\ s \in Nat
    BY LenProperties DEF LinkTypeOK
  <1>10. g + 1 \in 1..s /\ e \in Event
    <2> HIDE DEF g
    <2>1. g + 1 \in 1..s
      <3> HIDE DEF s
      <3> QED BY <1>7, <1>9
    <2> QED BY <1>9, <2>1, ElementOfSeq
  <1> HIDE DEF e, s, g
  <1>11. Len(got') = g + 1 /\ got'[g + 1] = e /\ \A i \in 1..g : got'[i] = got[i]
    BY <1>8, <1>9, <1>10, AppendProperties DEF g
  <1>12. Told'
    <2>1. Len(got') <= Len(sent')
      BY <1>2, <1>7, <1>11 DEF s
    <2>2. ASSUME NEW i \in 1..Len(got') PROVE got'[i] = sent'[i]
      <3>1. i = g + 1 \/ i \in 1..g
        BY <1>9, <1>11
      <3>2. \A j \in 1..g : got[j] = sent[j]
        BY DEF Lossless, Told, g
      <3> QED BY <1>2, <1>11, <3>1, <3>2 DEF e
    <2> QED BY <1>2, <1>8, <2>1, <2>2 DEF Lossless, Told
  <1> DEFINE ls == Tail(lines)
             n == Len(lines)
             b == IF a = 0 THEN 0 ELSE a - 1
  <1>13. /\ a \in 0..n /\ (a = 0 <=> asked = "None")
         /\ s = g + n - (IF a = 0 THEN 0 ELSE 1)
         /\ a # 0 => asked = wanted.setting
    BY <1>1 DEF InFlight, s, g
  <1>14. n \in Nat \ {0}
    BY <1>1, <1>3, EmptySeq DEF InFlight, Framed
  <1>15. /\ Len(ls) = n - 1
         /\ a # 0 => a - 1 \in 1..(n - 1) /\ ls[a - 1] = AnswerLine(wanted)
         /\ \A k \in 1..(n - 1) : k + 1 # a => ls[k] = LineOf(sent[g + 1 + Rank(b, k)])
    BY <1>1, <1>3, <1>6, Behind DEF Lossless, g
  <1> HIDE DEF ls, n
  <1>16. /\ b \in 0..Len(ls) /\ (b = 0 <=> a = 0)
         /\ s = (g + 1) + Len(ls) - (IF b = 0 THEN 0 ELSE 1)
    BY <1>6, <1>9, <1>13, <1>14, <1>15
  <1>17. ASSUME NEW k \in 1..Len(ls), k # b PROVE ls[k] = LineOf(sent[(g + 1) + Rank(b, k)])
    <2>1. k \in 1..(n - 1) /\ k + 1 # a
      BY <1>13, <1>14, <1>15, <1>17
    <2> QED BY <1>15, <2>1
  <1>18. b # 0 => ls[b] = AnswerLine(wanted) /\ asked = wanted.setting
    BY <1>13, <1>15, <1>16
  <1> HIDE DEF b
  <1>19. InFlight(b, ls)'
    BY <1>2, <1>5, <1>11, <1>13, <1>16, <1>17, <1>18 DEF InFlight, s, ls
  <1> QED BY <1>12, <1>19 DEF Lossless

\* poll returns the answer.
LEMMA AnswerStep ==
  ASSUME \A data \in Payloads : EndsNoLine(data), LinkTypeOK, LinkTypeOK', Lossless,
         NEW r \in DOMAIN rx, HostPollsAnswer(r)
  PROVE  Lossless'
PROOF
  <1> DEFINE g == Len(got)
             s == Len(sent)
  <1>1. PICK a, lines : InFlight(a, lines)
    BY DEF Lossless
  <1>2. /\ LineEnd(r) /\ StartsWith(LineUpTo(r), PrefixOf[asked]) /\ asked # "None"
        /\ rx' = SubSeq(rx, r + 2, Len(rx))
        /\ reply' = ParseAnswer(asked, LineUpTo(r)) /\ dropped' = ~reply'.ok
        /\ asked' = "None" /\ UNCHANGED <<wire, wanted, asks, sent, got>>
    BY DEF HostPollsAnswer, Drain
  <1>3. lines # <<>>
    <2> SUFFICES ASSUME lines = <<>> PROVE FALSE
      OBVIOUS
    <2>1. rx \o wire = <<>> /\ rx \in Seq(Byte) /\ wire \in Seq(Byte)
      BY <1>1, FramedEmpty DEF InFlight, LinkTypeOK
    <2>2. rx = <<>>
      BY <2>1, ConcatEqualIffEmpty
    <2>3. DOMAIN rx = {}
      BY <2>1, <2>2, LenProperties, EmptySeq
    <2> QED BY <2>3
  <1>4. PICK head : NextLine(a, lines, head)
    BY <1>1, <1>3, NextLineFacts DEF Lossless
  <1>5. /\ LineUpTo(r) = head /\ Framed(rx' \o wire', Tail(lines))
    BY <1>2, <1>4 DEF NextLine, FirstInRx
  <1>6. wanted \in Settings /\ (a # 0 => asked = wanted.setting) /\ a # 0
    BY <1>1, <1>2 DEF Lossless, Told, InFlight
  <1>7. a = 1
    <2>1. PrefixOf[asked] # "+RCV"
      BY <1>6, SettingLine
    <2> QED BY <1>2, <1>4, <1>5, <2>1 DEF NextLine, StartsWith
  <1>8. reply' = Parsed(wanted.val) /\ dropped' = FALSE
    <2>1. reply' = Parsed(wanted.val)
      BY <1>2, <1>4, <1>5, <1>7 DEF NextLine
    <2>2. reply'.ok = TRUE
      BY <2>1 DEF Parsed
    <2> QED BY <1>2, <2>1, <2>2, Zenon
  <1>9. Told'
    BY <1>2, <1>6, <1>8 DEF Lossless, Told
  <1> DEFINE ls == Tail(lines)
             n == Len(lines)
  <1>10. g \in Nat /\ s \in Nat /\ n \in Nat \ {0} /\ s = g + n - 1
    <2>1. n \in Nat \ {0}
      BY <1>1, <1>3, EmptySeq DEF InFlight, Framed
    <2>2. g \in Nat /\ s \in Nat
      BY LenProperties DEF LinkTypeOK
    <2>3. s = g + n - (IF a = 0 THEN 0 ELSE 1)
      BY <1>1 DEF InFlight
    <2> QED BY <1>7, <2>1, <2>2, <2>3
  <1>11. Len(ls) = n - 1 /\ \A k \in 1..(n - 1) : ls[k] = LineOf(sent[g + k])
    BY <1>1, <1>3, <1>7, Behind DEF Lossless
  <1> HIDE DEF ls, n, s, g
  <1>12. s = g + Len(ls) - (IF 0 = 0 THEN 0 ELSE 1) /\ 0 \in 0..Len(ls)
    BY <1>10, <1>11
  <1>13. ASSUME NEW k \in 1..Len(ls) PROVE ls[k] = LineOf(sent[g + Rank(0, k)])
    BY <1>11 DEF Rank
  <1>14. InFlight(0, ls)'
    BY <1>2, <1>5, <1>12, <1>13 DEF InFlight, s, g, ls
  <1> QED BY <1>9, <1>14 DEF Lossless

\* The host reads.
LEMMA ReadStep ==
  ASSUME \A data \in Payloads : EndsNoLine(data), RoomToRead, LinkTypeOK, Lossless,
         NEW n \in ReadSizes, HostReads(n)
  PROVE  Lossless'
PROOF
  <1> DEFINE fits == Min({n, RX_BUF - Len(rx)})
  <1>1. PICK a, lines : InFlight(a, lines)
    BY DEF Lossless
  <1>2. /\ ~LineReady /\ n <= Len(wire) /\ dropped' = FALSE
        /\ rx' = rx \o SubSeq(wire, 1, fits) /\ wire' = SubSeq(wire, n + 1, Len(wire))
        /\ UNCHANGED <<asked, reply, wanted, asks, sent, got>>
    BY DEF HostReads, Lossless, Told
  <1>3. n \in Nat \ {0} /\ rx \in Seq(Byte) /\ wire \in Seq(Byte)
        /\ Len(rx) \in Nat /\ Len(wire) \in Nat /\ Len(rx) <= RX_BUF
    BY LinkAssumption, LenProperties DEF LinkTypeOK
  <1>4. lines # <<>>
    <2> SUFFICES ASSUME lines = <<>> PROVE FALSE
      OBVIOUS
    <2>1. rx \o wire = <<>>
      BY <1>1, FramedEmpty DEF InFlight
    <2>2. wire = <<>>
      BY <1>3, <2>1, ConcatEqualIffEmpty
    <2>3. Len(wire) = 0
      BY <2>2, EmptySeq
    <2> QED BY <1>2, <1>3, <2>3
  <1>5. Len(rx) + n <= RX_BUF
    BY <1>1, <1>2, <1>4, NotReady DEF Lossless
  <1>6. fits = n
    BY <1>2, <1>3, <1>5, ReadType
  <1> HIDE DEF fits
  <1>7. rx' \o wire' = rx \o wire
    <2>1. n \in 0..Len(wire)
      BY <1>2, <1>3
    <2> QED BY <1>2, <1>3, <1>6, <2>1, MoveBytes
  <1>8. InFlight(a, lines)'
    BY <1>1, <1>2, <1>7 DEF InFlight
  <1>9. Told'
    BY <1>2 DEF Lossless, Told
  <1> QED BY <1>8, <1>9 DEF Lossless

LEMMA LinkInvInit == LinkInit => LinkInv
PROOF
  <1> SUFFICES ASSUME LinkInit PROVE LinkInv
    OBVIOUS
  <1>1. LinkTypeOK
    BY LinkTypeInit
  <1>2. Len(<<>>) = 0 /\ wire = <<>> /\ rx = <<>> /\ sent = <<>> /\ got = <<>>
    BY EmptySeq DEF LinkInit
  <1>3. \A i : i \notin 1..0
    OBVIOUS
  <1>4. asks = 0 /\ asked = "None" /\ dropped = FALSE
    BY DEF LinkInit
  <1>5. Told
    BY <1>2, <1>3, <1>4 DEF Told
  <1>6. rx \o wire = <<>>
    <2>1. <<>> \in Seq(Byte)
      BY EmptySeq
    <2> QED BY <1>2, <2>1, ConcatEmptySeq
  <1>7. InFlight(0, <<>>)
    BY <1>2, <1>3, <1>4, <1>6, FramedEmpty DEF InFlight
  <1> QED BY <1>1, <1>5, <1>7 DEF LinkInv, Lossless

LEMMA LinkInvStep ==
  ASSUME \A data \in Payloads : EndsNoLine(data), RoomToRead, LinkInv, [LinkNext]_linkVars
  PROVE  LinkInv'
PROOF
  <1>1. LinkTypeOK /\ LinkTypeOK'
    BY LinkTypeStep DEF LinkInv
  <1> SUFFICES ASSUME noise' = 0 PROVE Lossless'
    BY <1>1 DEF LinkInv
  <1>2. noise \in Nat
    BY <1>1, LinkAssumption DEF LinkTypeOK
  <1>3. CASE UNCHANGED linkVars
    <2>1. UNCHANGED <<wire, rx, dropped, asked, reply, wanted, asks, sent, got, noise>>
      BY <1>3 DEF linkVars
    <2>2. Lossless
      BY <2>1 DEF LinkInv
    <2>3. PICK a, lines : InFlight(a, lines)
      BY <2>2 DEF Lossless
    <2>4. InFlight(a, lines)'
      BY <2>1, <2>3 DEF InFlight
    <2>5. Told'
      BY <2>1, <2>2 DEF Lossless, Told
    <2> QED BY <2>4, <2>5 DEF Lossless
  <1>4. ASSUME NEW i \in DOMAIN wire, WireLosesByte(i) PROVE FALSE
    <2>1. noise' = noise + 1
      BY <1>4 DEF WireLosesByte
    <2> QED BY <1>2, <2>1
  <1>5. CASE LinkNext
    <2>1. ASSUME noise' = noise PROVE Lossless
      BY <2>1 DEF LinkInv
    <2>2. ASSUME NEW data \in Payloads, NEW signal \in Signals, PeerSends(data, signal)
          PROVE  Lossless'
      <3>1. Lossless
        BY <2>1, <2>2 DEF PeerSends
      <3> QED BY <1>1, <2>2, <3>1, SendStep
    <2>3. ASSUME NEW s \in Settings, HostSetsAndAsks(s) PROVE Lossless'
      <3>1. Lossless
        BY <2>1, <2>3 DEF HostSetsAndAsks
      <3> QED BY <1>1, <2>3, <3>1, AskStep
    <2>4. ASSUME NEW r \in DOMAIN rx, HostPollsEvent(r) PROVE Lossless'
      <3>1. Lossless
        BY <2>1, <2>4 DEF HostPollsEvent
      <3> QED BY <1>1, <2>4, <3>1, EventStep
    <2>5. ASSUME NEW r \in DOMAIN rx, HostPollsAnswer(r) PROVE Lossless'
      <3>1. Lossless
        BY <2>1, <2>5 DEF HostPollsAnswer
      <3> QED BY <1>1, <2>5, <3>1, AnswerStep
    <2>6. ASSUME NEW n \in ReadSizes, HostReads(n) PROVE Lossless'
      <3>1. Lossless
        BY <2>1, <2>6 DEF HostReads
      <3> QED BY <1>1, <2>6, <3>1, ReadStep
    <2> QED BY <1>4, <1>5, <2>2, <2>3, <2>4, <2>5, <2>6 DEF LinkNext, HostPolls
  <1> QED BY <1>3, <1>5

\* With no line left, all was returned.
LEMMA QuietIsDone ==
  ASSUME \A data \in Payloads : EndsNoLine(data), LinkInv, Quiet, noise = 0
  PROVE  got = sent /\ (asks > 0 => reply.ok /\ reply.val = wanted.val)
PROOF
  <1>1. LinkTypeOK /\ Lossless /\ wire = <<>> /\ ~LineReady
    BY DEF LinkInv, Quiet
  <1>2. PICK a, lines : InFlight(a, lines)
    BY <1>1 DEF Lossless
  <1>3. lines = <<>>
    <2> SUFFICES ASSUME lines # <<>> PROVE FALSE
      OBVIOUS
    <2>1. Len(rx) < Len(lines[1])
      BY <1>1, <1>2, NotReady DEF Lossless
    <2>2. FirstLine(rx \o wire, lines)
      BY <1>2, FramedTail DEF InFlight
    <2>3. rx \o wire = rx /\ rx \in Seq(Byte)
      BY <1>1, ConcatEmptySeq DEF LinkTypeOK
    <2>4. Len(lines[1]) <= Len(rx)
      BY <2>2, <2>3 DEF FirstLine
    <2>5. Len(rx) \in Nat /\ Len(lines[1]) \in Nat
      <3>1. lines \in Seq(Seq(Byte)) /\ Len(lines) \in Nat \ {0}
        BY <1>2, EmptySeq DEF InFlight, Framed
      <3>2. 1 \in 1..Len(lines)
        BY <3>1
      <3>3. lines[1] \in Seq(Byte)
        BY <3>1, <3>2, ElementOfSeq
      <3> QED BY <2>3, <3>3, LenProperties
    <2> QED BY <2>1, <2>4, <2>5
  <1>4. a = 0 /\ asked = "None" /\ Len(sent) = Len(got)
    <2>1. Len(lines) = 0
      BY <1>3, EmptySeq
    <2> DEFINE g == Len(got)
               s == Len(sent)
    <2>2. a \in 0..0 /\ (a = 0 <=> asked = "None") /\ s = g + 0 - (IF a = 0 THEN 0 ELSE 1)
      BY <1>2, <2>1 DEF InFlight
    <2>3. g \in Nat
      BY <1>1, LenProperties DEF LinkTypeOK
    <2> HIDE DEF g, s
    <2>4. a = 0 /\ s = g
      BY <2>2, <2>3
    <2> QED BY <2>2, <2>4 DEF g, s
  <1>5. got = sent
    <2>1. got \in Seq(Event) /\ sent \in Seq(Event) /\ \A i \in 1..Len(got) : got[i] = sent[i]
      BY <1>1 DEF LinkTypeOK, Lossless, Told
    <2> QED BY <1>4, <2>1, SeqEqual
  <1>6. ASSUME asks > 0 PROVE reply.ok /\ reply.val = wanted.val
    <2>1. reply = Parsed(wanted.val)
      BY <1>1, <1>4, <1>6 DEF Lossless, Told
    <2> QED BY <2>1 DEF Parsed
  <1> QED BY <1>5, <1>6

\* Without loss each line sent is returned, or its bytes are in flight in the order
\* sent. (push_rx, next_line_end, drain_rx_line.)
THEOREM LinkInvariant ==
  ASSUME \A data \in Payloads : EndsNoLine(data), RoomToRead
  PROVE  LinkSpec => []LinkInv
PROOF
  <1>1. LinkInit => LinkInv
    BY LinkInvInit
  <1>2. LinkInv /\ [LinkNext]_linkVars => LinkInv'
    BY LinkInvStep
  <1> QED BY <1>1, <1>2, PTL DEF LinkSpec

\* Where no payload holds a CR and a read fits behind an unfinished line, a wire that
\* loses nothing brings every transmission once, in order, whatever the reads cut and
\* whatever else the payloads hold. (push_rx, next_line_end, drain_rx_line, parse_event.)
THEOREM EveryPayloadArrivesCorrect ==
  ASSUME \A data \in Payloads : EndsNoLine(data), RoomToRead
  PROVE  LinkSpec => []EveryPayloadArrives
PROOF
  <1>1. LinkInv => EveryPayloadArrives
    BY QuietIsDone DEF EveryPayloadArrives
  <1> QED BY <1>1, LinkInvariant, PTL

\* Under the same conditions a setting that was set is read back as the same value, for
\* every value of its type. (encode, parse_response.)
THEOREM SettingsReadBackCorrect ==
  ASSUME \A data \in Payloads : EndsNoLine(data), RoomToRead
  PROVE  LinkSpec => []SettingsReadBack
PROOF
  <1>1. LinkInv => SettingsReadBack
    BY QuietIsDone DEF SettingsReadBack
  <1> QED BY <1>1, LinkInvariant, PTL

-----------------------------------------------------------------------------
(* Numbers in text that was damaged                                        *)

\* Text that parses as an integer holds no comma, and no LF.
LEMMA NoCommaInInt ==
  ASSUME NEW b \in Seq(Byte), NEW low, NEW high, ParseInt(b, low, high).ok
  PROVE  \A i \in 1..Len(b) : b[i] \notin {",", "LF"}
PROOF
  <1> DEFINE digits == Unsigned(b, low)
             value == Value(digits, LimitOf(b, low, high))
  <1>1. ToSet(digits) \subseteq Digit
    <2>1. ParseInt(b, low, high) =
            IF digits = <<>> \/ ~(ToSet(digits) \subseteq Digit) \/ value = -1
              THEN ParseError ELSE Parsed(IF Signed(b, low) THEN -value ELSE value)
      BY ParseIntIs
    <2> HIDE DEF digits, value
    <2>2. CASE ~(ToSet(digits) \subseteq Digit)
      <3>1. ParseInt(b, low, high) = ParseError
        BY <2>1, <2>2
      <3> QED BY <3>1 DEF ParseError
    <2> QED BY <2>2
  <1>2. CASE digits = b
    <2>1. b \in Seq(Digit)
      BY <1>1, <1>2, DigitText
    <2>2. \A i \in 1..Len(b) : b[i] \in Digit
      BY <2>1, ElementOfSeq
    <2> QED BY <2>2, DigitBytes
  <1>3. CASE digits # b
    <2>1. b # <<>> /\ b[1] \in {"+", "-"} /\ digits = Tail(b)
      BY <1>3 DEF Unsigned, Signed
    <2> HIDE DEF digits
    <2>2. Tail(b) \in Seq(Byte) /\ Len(Tail(b)) = Len(b) - 1 /\ Len(b) \in Nat
          /\ \A i \in 1..Len(Tail(b)) : Tail(b)[i] = b[i + 1]
      BY <2>1, HeadTailProperties, LenProperties
    <2>3. \A i \in 1..Len(Tail(b)) : Tail(b)[i] \in Digit
      <3>1. Tail(b) \in Seq(Digit)
        BY <1>1, <2>1, <2>2, DigitText
      <3> QED BY <3>1, ElementOfSeq
    <2>4. ASSUME NEW i \in 1..Len(b)
          PROVE  b[i] \notin {",", "LF"}
      <3>1. CASE i = 1
        BY <2>1, <3>1
      <3>2. CASE i # 1
        <4>1. i - 1 \in 1..Len(Tail(b)) /\ (i - 1) + 1 = i
          BY <2>2, <3>2
        <4>2. b[i] \in Digit
          BY <2>2, <2>3, <4>1
        <4> QED BY <4>2, DigitBytes
      <3> QED BY <3>1, <3>2
    <2> QED BY <2>4
  <1> QED BY <1>2, <1>3

\* Text that starts with a digit and parses is a number's digits.
LEMMA DigitsParse ==
  ASSUME NEW b \in Seq(Byte), b # <<>>, b[1] \in Digit, NEW high \in Nat,
         ParseInt(b, 0, high).ok
  PROVE  /\ b \in Seq(Digit) /\ ParseInt(b, 0, high).val = Value(b, high)
         /\ Value(b, high) # -1
PROOF
  <1>1. ~Signed(b, 0)
    BY DEF Signed
  <1>2. Unsigned(b, 0) = b
    BY <1>1, DigitBytes DEF Unsigned
  <1>3. LimitOf(b, 0, high) = high
    BY <1>1 DEF LimitOf
  <1> DEFINE value == Value(b, high)
  <1>4. ParseInt(b, 0, high) =
          IF b = <<>> \/ ~(ToSet(b) \subseteq Digit) \/ value = -1
            THEN ParseError ELSE Parsed(value)
    <2>1. ParseInt(b, 0, high) =
            IF \/ Unsigned(b, 0) = <<>> \/ ~(ToSet(Unsigned(b, 0)) \subseteq Digit)
               \/ Value(Unsigned(b, 0), LimitOf(b, 0, high)) = -1
              THEN ParseError
              ELSE Parsed(IF Signed(b, 0) THEN -Value(Unsigned(b, 0), LimitOf(b, 0, high))
                                          ELSE Value(Unsigned(b, 0), LimitOf(b, 0, high)))
      BY ParseIntIs
    <2> QED BY <1>1, <1>2, <1>3, <2>1
  <1> HIDE DEF value
  <1>5. ~(b = <<>> \/ ~(ToSet(b) \subseteq Digit) \/ value = -1)
    <2>1. ParseError.ok = FALSE
      BY DEF ParseError
    <2> QED BY <1>4, <2>1
  <1>6. ParseInt(b, 0, high).val = value
    BY <1>4, <1>5 DEF Parsed
  <1>7. b \in Seq(Digit)
    BY <1>5, DigitText
  <1> QED BY <1>5, <1>6, <1>7 DEF value

\* The numbers on the way are in the range of the last.
LEMMA ReadsRange ==
  ASSUME NEW s \in Seq(Digit), NEW limit \in Nat, NEW u, Reads(u, s, limit)
  PROVE  \A i \in 0..Len(s) : u[i] \in -1..limit
PROOF
  <1>1. Len(s) \in Nat
    BY LenProperties
  <1> DEFINE T == {i \in 0..Len(s) : u[i] \notin -1..limit}
  <1>2. SUFFICES ASSUME T # {} PROVE FALSE
    BY <1>1
  <1>3. T \in SUBSET Nat
    BY <1>1
  <1> HIDE DEF T
  <1>4. PICK x \in T : \A y \in T : x <= y
    BY <1>2, <1>3, LeastNat
  <1>5. x \in 0..Len(s) /\ u[x] \notin -1..limit
    BY DEF T
  <1>6. x # 0
    BY <1>5 DEF Reads
  <1>7. x \in 1..Len(s) /\ x - 1 \in 0..Len(s) /\ x - 1 \notin T
    BY <1>1, <1>4, <1>5, <1>6
  <1>8. u[x - 1] \in -1..limit
    BY <1>7 DEF T
  <1>9. s[x] \in Digit
    BY <1>7, ElementOfSeq
  <1>10. DigitValue[s[x]] \in 0..9
    BY <1>9, DigitValues
  <1>11. \A v \in -1..limit, d \in 0..9 : Extend(v, d, limit) \in -1..limit
    BY DEF Extend
  <1>12. u[x] = Extend(u[x - 1], DigitValue[s[x]], limit)
    BY <1>7 DEF Reads
  <1> QED BY <1>5, <1>8, <1>10, <1>11, <1>12

\* A number does not get smaller with the digits that follow.
LEMMA ReadsGrow ==
  ASSUME NEW s \in Seq(Digit), NEW limit \in Nat, NEW u, Reads(u, s, limit),
         u[Len(s)] # -1, NEW k \in 0..Len(s)
  PROVE  u[k] \in 0..limit /\ u[k] <= u[Len(s)]
PROOF
  <1> DEFINE n == Len(s)
             T == {i \in Nat : i <= n /\ ~(u[n - i] \in 0..limit /\ u[n - i] <= u[n])}
  <1>1. n \in Nat /\ \A i \in 0..n : u[i] \in -1..limit
    BY LenProperties, ReadsRange
  <1>2. ASSUME NEW i \in 1..n, u[i] \in 0..limit
        PROVE  /\ u[i - 1] \in 0..limit
               /\ u[i] = 10 * u[i - 1] + DigitValue[s[i]] /\ u[i - 1] <= u[i]
    <2>1. s[i] \in Digit
      BY ElementOfSeq
    <2>2. DigitValue[s[i]] \in 0..9
      BY <2>1, DigitValues
    <2>3. u[i - 1] \in -1..limit
      BY <1>1
    <2>4. u[i] = Extend(u[i - 1], DigitValue[s[i]], limit)
      BY DEF Reads
    <2>5. \A v \in -1..limit, d \in 0..9 :
            Extend(v, d, limit) # -1 =>
              v \in 0..limit /\ Extend(v, d, limit) = 10 * v + d /\ v <= 10 * v + d
      BY DEF Extend
    <2>6. Extend(u[i - 1], DigitValue[s[i]], limit) # -1
      BY <1>2, <2>4
    <2> QED BY <2>2, <2>3, <2>4, <2>5, <2>6
  <1>3. \A i \in 0..n : u[i] \in 0..limit /\ u[i] <= u[n]
    <2>1. SUFFICES ASSUME T # {} PROVE FALSE
      <3>1. ASSUME NEW i \in 0..n, T = {}
            PROVE  u[i] \in 0..limit /\ u[i] <= u[n]
        <4>1. n - i \in Nat /\ n - i <= n /\ n - (n - i) = i
          BY <1>1
        <4> QED BY <3>1, <4>1
      <3> QED BY <3>1
    <2>2. T \in SUBSET Nat
      OBVIOUS
    <2> HIDE DEF T
    <2>3. PICK x \in T : \A y \in T : x <= y
      BY <2>1, <2>2, LeastNat
    <2>4. x \in Nat /\ x <= n /\ ~(u[n - x] \in 0..limit /\ u[n - x] <= u[n])
      BY DEF T
    <2>5. x # 0
      <3>1. u[n] \in 0..limit
        BY <1>1
      <3>2. n - 0 = n
        BY <1>1
      <3> QED BY <2>4, <3>1, <3>2
    <2>6. x - 1 \in Nat /\ x - 1 <= n /\ x - 1 \notin T
      BY <1>1, <2>3, <2>4, <2>5
    <2> DEFINE i == n - (x - 1)
    <2>7. i \in 1..n /\ i - 1 = n - x
      BY <1>1, <2>4, <2>6
    <2>8. u[i] \in 0..limit /\ u[i] <= u[n]
      BY <2>6 DEF T
    <2> HIDE DEF i
    <2>9. u[i - 1] \in 0..limit /\ u[i - 1] <= u[i]
      BY <1>2, <2>7, <2>8
    <2>10. u[n] \in Int
      BY <1>1
    <2> QED BY <2>4, <2>7, <2>8, <2>9, <2>10
  <1> QED BY <1>3

\* Text that starts with the digits of n and parses is n or more.
LEMMA PrefixParse ==
  ASSUME NEW high \in Nat, NEW n \in 0..high, NEW b \in Seq(Byte),
         Len(Printed(n)) <= Len(b), \A i \in 1..Len(Printed(n)) : b[i] = Printed(n)[i],
         ParseInt(b, 0, high).ok
  PROVE  ParseInt(b, 0, high).val \in Nat /\ n <= ParseInt(b, 0, high).val
PROOF
  <1> DEFINE p == Printed(n)
             k == Len(p)
             v == Value(b, high)
  <1>1. p = Decimal(n) /\ p \in Seq(Byte)
    BY NaturalText
  <1>2. p \in Seq(Digit) /\ p # <<>> /\ Value(p, high) = n
    <2>1. n \in Nat
      OBVIOUS
    <2>2. Decimal(n) \in Seq(Digit) /\ Decimal(n) # <<>>
      BY <2>1, DecimalFacts
    <2>3. Value(Decimal(n), high) = n
      BY DecimalReadsBack
    <2> QED BY <1>1, <2>2, <2>3
  <1>3. k <= Len(b) /\ \A i \in 1..k : b[i] = p[i]
    OBVIOUS
  <1> HIDE DEF p
  <1>4. k \in Nat \ {0} /\ Len(b) \in Nat
    BY <1>2, EmptySeq, LenProperties
  <1>5. b # <<>> /\ b[1] \in Digit
    <2>1. 1 \in 1..k
      BY <1>4
    <2>2. p[1] \in Digit
      BY <1>2, <2>1, ElementOfSeq
    <2>3. Len(b) # 0
      BY <1>3, <1>4
    <2> QED BY <1>3, <2>1, <2>2, <2>3, EmptySeq
  <1>6. b \in Seq(Digit) /\ ParseInt(b, 0, high).val = v /\ v # -1
    BY <1>5, DigitsParse
  <1>7. PICK u : Reads(u, b, high) /\ v = u[Len(b)]
    BY <1>6, ValueSteps
  <1>8. PICK w : Reads(w, p, high) /\ n = w[k]
    BY <1>2, ValueSteps
  <1> HIDE DEF v, k
  <1>9. k <= Len(p)
    BY <1>4 DEF k
  <1>10. \A i \in 0..k : u[i] = w[i]
    <2>1. \A i \in 1..k : b[i] = p[i]
      BY <1>3
    <2> QED BY <1>2, <1>3, <1>4, <1>6, <1>7, <1>8, <1>9, <2>1, ReadsAgree
  <1>11. k \in 0..Len(b) /\ k \in 0..k /\ u[Len(b)] # -1
    BY <1>3, <1>4, <1>6, <1>7
  <1>12. u[k] \in 0..high /\ u[k] <= u[Len(b)]
    BY <1>6, <1>7, <1>11, ReadsGrow
  <1>13. u[k] = n
    BY <1>8, <1>10, <1>11
  <1>14. v \in Nat
    <2>1. v \in -1..high
      BY <1>6, ValueFacts DEF v
    <2> QED BY <1>6, <2>1
  <1>15. n <= v
    BY <1>7, <1>12, <1>13
  <1> QED BY <1>6, <1>14, <1>15

-----------------------------------------------------------------------------
(* What a line that parses looks like                                      *)

IsComma(b, i) == b[i] = ","

\* A piece of a piece.
LEMMA PieceOfPiece ==
  ASSUME NEW s, NEW u, NEW v, NEW m \in Int, NEW n \in Int, NEW a \in Int, NEW b \in Int,
         Piece(u, s, m, n), Piece(v, u, a, b), 1 <= a, b <= n - m + 1
  PROVE  Piece(v, s, m + a - 1, m + b - 1)
PROOF
  <1> DEFINE k == b - a + 1
  <1>1. v \in Seq(Byte) /\ Len(v) = k /\ \A i \in 1..k : v[i] = u[a + i - 1]
    BY DEF Piece
  <1>2. \A i \in 1..(n - m + 1) : u[i] = s[m + i - 1]
    BY DEF Piece
  <1>3. (m + b - 1) - (m + a - 1) + 1 = k
    OBVIOUS
  <1>4. ASSUME NEW i \in 1..k
        PROVE  v[i] = s[(m + a - 1) + i - 1]
    <2>1. a + i - 1 \in 1..(n - m + 1) /\ m + (a + i - 1) - 1 = (m + a - 1) + i - 1
      OBVIOUS
    <2> QED BY <1>1, <1>2, <2>1
  <1> HIDE DEF k
  <1> QED BY <1>1, <1>3, <1>4 DEF Piece

\* The text in front of the first comma of b, at k, and that behind it.
FirstComma(b, k) ==
  /\ k \in 1..Len(b) /\ IsComma(b, k) /\ \A i \in 1..(k - 1) : ~IsComma(b, i)
  /\ Piece(BeforeComma(b), b, 1, k - 1) /\ Piece(AfterComma(b), b, k + 1, Len(b))

LEMMA FirstCommaFacts ==
  ASSUME NEW b \in Seq(Byte), HasComma(b)
  PROVE  FirstComma(b, Comma(b))
PROOF
  <1> DEFINE m == Len(b)
             I == {i \in 1..m : IsComma(b, i)}
             k == Comma(b)
  <1>1. m \in Nat /\ k # 0
    BY LenProperties DEF HasComma
  <1>2. I \subseteq Nat /\ I # {}
    <2>1. ~\A i \in 1..m : b[i] # ","
      BY <1>1, CommaFacts
    <2>2. \E i \in 1..m : IsComma(b, i)
      BY <2>1 DEF IsComma
    <2>3. 1..m \subseteq Nat
      BY <1>1
    <2> QED BY <2>2, <2>3
  <1> HIDE DEF I
  <1>3. PICK i \in I : \A j \in I : i <= j
    BY <1>2, LeastNat
  <1>4. i \in 1..m /\ IsComma(b, i)
    BY DEF I
  <1>5. ASSUME NEW j \in 1..(i - 1) PROVE ~IsComma(b, j)
    <2>1. i \in 1..m
      BY <1>4
    <2>2. j \in 1..m /\ ~(i <= j)
      BY <1>1, <2>1
    <2> QED BY <1>3, <2>2 DEF I
  <1>6. k = i
    <2>1. b[i] = "," /\ \A j \in 1..(i - 1) : b[j] # ","
      BY <1>4, <1>5 DEF IsComma
    <2> QED BY <1>4, <2>1, CommaFacts
  <1>7. Piece(AfterComma(b), b, k + 1, m)
    BY CommaPieces
  <1>8. Piece(BeforeComma(b), b, 1, k - 1)
    <2>1. k \in 1..m
      BY <1>4, <1>6
    <2> HIDE DEF k
    <2>2. 1 \in 1..(m + 1) /\ k - 1 \in (1 - 1)..m
      BY <1>1, <2>1
    <2>3. Piece(SubSeq(b, 1, k - 1), b, 1, k - 1)
      BY <2>2, PieceFacts
    <2> QED BY <2>3 DEF BeforeComma, k
  <1> QED BY <1>4, <1>5, <1>6, <1>7, <1>8 DEF FirstComma

\* The text behind a prefix, of a line that parses to the event e: its first two commas
\* are at c1 and c2, with the address and the length before them; one comma ends the
\* data, and one more, at c4, parts what is behind that.
Reading(t, e, address, length, rs, sn, c1, c2, c4) ==
  LET from == ParseInt(address, 0, U16_MAX)
      len  == ParseInt(length, 0, U32_MAX)
      rssi == ParseInt(rs, -I16_MAX - 1, I16_MAX)
      snr  == ParseInt(sn, -I16_MAX - 1, I16_MAX)
      c3   == c2 + len.val + 1
  IN  /\ c1 \in 1..Len(t) /\ c2 \in (c1 + 1)..Len(t)
      /\ IsComma(t, c1) /\ IsComma(t, c2)
      /\ \A i \in 1..(c2 - 1) : IsComma(t, i) => i = c1
      /\ Piece(address, t, 1, c1 - 1) /\ Piece(length, t, c1 + 1, c2 - 1)
      /\ from.ok /\ e.from = from.val /\ len.ok /\ len.val \in Nat
      /\ c3 <= Len(t) /\ IsComma(t, c3)
      /\ c4 \in (c3 + 1)..Len(t) /\ IsComma(t, c4)
      /\ \A i \in (c3 + 1)..Len(t) : IsComma(t, i) => i = c4
      /\ Piece(e.data, t, c2 + 1, c2 + len.val)
      /\ Piece(rs, t, c3 + 1, c4 - 1) /\ Piece(sn, t, c4 + 1, Len(t))
      /\ rssi.ok /\ e.rssi = rssi.val /\ snr.ok /\ e.snr = snr.val
      /\ e = [from |-> e.from, data |-> e.data, rssi |-> e.rssi, snr |-> e.snr]

LEMMA ReadingFacts ==
  ASSUME NEW line, Tail(Tail(line)) \in Seq(Byte), ParseRcv(line).ok
  PROVE  /\ line[2] = "="
         /\ \E address, length, rs, sn, c1, c2, c4 :
              Reading(Tail(Tail(line)), ParseRcv(line).val, address, length, rs, sn, c1, c2, c4)
PROOF
  <1> DEFINE t == Tail(Tail(line))
             f == RcvFields(t)
             rssi == ParseInt(BeforeComma(f.signal), -I16_MAX - 1, I16_MAX)
             snr == ParseInt(AfterComma(f.signal), -I16_MAX - 1, I16_MAX)
             good == /\ Len(line) >= 2 /\ line[2] = "="
                     /\ HasComma(t) /\ f.from.ok /\ HasComma(AfterComma(t)) /\ f.len.ok
                     /\ DataEnds(f.rest, f.len.val)
                     /\ HasComma(f.signal) /\ rssi.ok /\ snr.ok
             event == [from |-> f.from.val, data |-> SubSeq(f.rest, 1, f.len.val),
                       rssi |-> rssi.val, snr |-> snr.val]
             e == ParseRcv(line).val
  <1>1. ParseRcv(line) = IF good THEN Parsed(event) ELSE ParseError
    BY ParseRcvIs
  <1>2. /\ good /\ e.from = f.from.val /\ e.data = SubSeq(f.rest, 1, f.len.val)
        /\ e.rssi = rssi.val /\ e.snr = snr.val
        /\ e = [from |-> e.from, data |-> e.data, rssi |-> e.rssi, snr |-> e.snr]
    <2>1. good
      <3> HIDE DEF good, event
      <3> QED BY <1>1 DEF ParseError
    <2>2. ParseRcv(line) = Parsed(event)
      BY <1>1, <2>1
    <2>3. e = event
      <3> HIDE DEF event
      <3>1. Parsed(event).val = event
        BY DEF Parsed
      <3> QED BY <2>2, <3>1
    <2> HIDE DEF good, e, f, rssi, snr
    <2>4. /\ e.from = f.from.val /\ e.data = SubSeq(f.rest, 1, f.len.val)
          /\ e.rssi = rssi.val /\ e.snr = snr.val
          /\ e = [from |-> e.from, data |-> e.data, rssi |-> e.rssi, snr |-> e.snr]
      BY <2>3
    <2> QED BY <2>1, <2>4
  <1> DEFINE u == AfterComma(t)
             rest == AfterComma(u)
             address == BeforeComma(t)
             length == BeforeComma(u)
             n == ParseInt(length, 0, U32_MAX).val
             sig == SubSeq(rest, n + 2, Len(rest))
             rs == BeforeComma(sig)
             sn == AfterComma(sig)
             k2 == Comma(u)
             k4 == Comma(sig)
             c1 == Comma(t)
             c2 == c1 + k2
             c4 == c2 + n + 1 + k4
             m == Len(t)
  <1>3. /\ f.from = ParseInt(address, 0, U16_MAX) /\ f.len = ParseInt(length, 0, U32_MAX)
        /\ f.rest = rest /\ f.signal = sig
    BY DEF RcvFields
  <1>4. /\ HasComma(t) /\ HasComma(u) /\ HasComma(sig)
        /\ ParseInt(address, 0, U16_MAX).ok /\ e.from = ParseInt(address, 0, U16_MAX).val
        /\ ParseInt(length, 0, U32_MAX).ok
        /\ DataEnds(rest, n) /\ e.data = SubSeq(rest, 1, n)
        /\ ParseInt(rs, -I16_MAX - 1, I16_MAX).ok
        /\ e.rssi = ParseInt(rs, -I16_MAX - 1, I16_MAX).val
        /\ ParseInt(sn, -I16_MAX - 1, I16_MAX).ok
        /\ e.snr = ParseInt(sn, -I16_MAX - 1, I16_MAX).val
        /\ e = [from |-> e.from, data |-> e.data, rssi |-> e.rssi, snr |-> e.snr]
        /\ line[2] = "="
    BY <1>2, <1>3
  <1> HIDE DEF f, rssi, snr, good, event, e, t
  <1>5. t \in Seq(Byte)
    BY DEF t
  <1>6. FirstComma(t, c1)
    BY <1>4, <1>5, FirstCommaFacts
  <1>7. u \in Seq(Byte)
    BY <1>6 DEF FirstComma, Piece
  <1> HIDE DEF u
  <1>8. FirstComma(u, k2)
    BY <1>4, <1>7, FirstCommaFacts
  <1>9. rest \in Seq(Byte) /\ length \in Seq(Byte)
    BY <1>8 DEF FirstComma, Piece
  <1> HIDE DEF rest, length
  <1>10. n \in Nat
    <2>1. 0 \in Int /\ 0 <= 0
      OBVIOUS
    <2>2. ParseInt(length, 0, U32_MAX).ok => n \in 0..U32_MAX
      BY <1>9, <2>1, Limits, ParseIntType
    <2> QED BY <1>4, <2>2, Limits
  <1> HIDE DEF n
  <1> DEFINE comma == ","
             x == Len(rest)
  <1>11. n + 1 <= x /\ rest[n + 1] = comma /\ x \in Nat
    BY <1>4, <1>9, LenProperties DEF DataEnds
  <1> HIDE DEF comma, x
  <1>12. Piece(SubSeq(rest, 1, n), rest, 1, n) /\ Piece(sig, rest, n + 2, x)
    <2>1. /\ 1 \in 1..(x + 1) /\ n \in (1 - 1)..x
          /\ n + 2 \in 1..(x + 1) /\ x \in ((n + 2) - 1)..x
      BY <1>10, <1>11
    <2> QED BY <1>9, <2>1, PieceFacts DEF x
  <1>13. sig \in Seq(Byte)
    BY <1>12 DEF Piece
  <1> HIDE DEF sig
  <1>14. FirstComma(sig, k4)
    BY <1>4, <1>13, FirstCommaFacts
  <1>30. Piece(rs, sig, 1, k4 - 1) /\ Piece(sn, sig, k4 + 1, Len(sig))
    BY <1>14 DEF FirstComma
  <1> HIDE DEF rs, sn
  <1> HIDE DEF k2, k4, c1
  <1> DEFINE y == Len(u)
             z == Len(sig)
  <1>15. m \in Nat /\ c1 \in 1..m /\ k2 \in 1..y /\ k4 \in 1..z
    BY <1>5, <1>6, <1>8, <1>14, LenProperties DEF FirstComma
  <1>16. /\ Piece(address, t, 1, c1 - 1) /\ Piece(u, t, c1 + 1, m) /\ y = m - c1
    <2>1. Piece(address, t, 1, c1 - 1) /\ Piece(u, t, c1 + 1, m)
      BY <1>6 DEF FirstComma, u
    <2>2. y = m - (c1 + 1) + 1
      BY <2>1 DEF Piece
    <2> HIDE DEF y, m
    <2> QED BY <1>15, <2>1, <2>2
  <1>17. Piece(length, u, 1, k2 - 1) /\ Piece(rest, u, k2 + 1, y) /\ x = y - k2
    <2>1. Piece(length, u, 1, k2 - 1) /\ Piece(rest, u, k2 + 1, y)
      BY <1>8 DEF FirstComma, rest, length
    <2>2. x = y - (k2 + 1) + 1
      BY <2>1 DEF Piece, x
    <2> HIDE DEF y
    <2> QED BY <1>15, <1>16, <2>1, <2>2
  <1>18. Piece(sig, rest, n + 2, x) /\ z = x - n - 1
    <2>1. z = x - (n + 2) + 1
      BY <1>12 DEF Piece
    <2> HIDE DEF z
    <2> QED BY <1>10, <1>11, <1>12, <2>1
  <1> HIDE DEF m, y, z, address
  <1>19. Piece(length, t, c1 + 1, c2 - 1)
    <2>1. c1 + 1 \in Int /\ m \in Int /\ 1 \in Int /\ k2 - 1 \in Int /\ 1 <= 1
          /\ k2 - 1 <= m - (c1 + 1) + 1
          /\ (c1 + 1) + 1 - 1 = c1 + 1 /\ (c1 + 1) + (k2 - 1) - 1 = c2 - 1
      BY <1>15, <1>16
    <2>2. Piece(length, t, (c1 + 1) + 1 - 1, (c1 + 1) + (k2 - 1) - 1)
      BY <1>16, <1>17, <2>1, PieceOfPiece
    <2> QED BY <2>1, <2>2
  <1>20. Piece(rest, t, c2 + 1, m)
    <2>1. c1 + 1 \in Int /\ m \in Int /\ k2 + 1 \in Int /\ y \in Int /\ 1 <= k2 + 1
          /\ y <= m - (c1 + 1) + 1
          /\ (c1 + 1) + (k2 + 1) - 1 = c2 + 1 /\ (c1 + 1) + y - 1 = m
      BY <1>15, <1>16
    <2>2. Piece(rest, t, (c1 + 1) + (k2 + 1) - 1, (c1 + 1) + y - 1)
      BY <1>16, <1>17, <2>1, PieceOfPiece
    <2> QED BY <2>1, <2>2
  <1>21. x = m - c2 /\ c2 \in Nat
    BY <1>15, <1>16, <1>17
  <1>22. Piece(e.data, t, c2 + 1, c2 + n)
    <2>1. c2 + 1 \in Int /\ m \in Int /\ 1 \in Int /\ n \in Int /\ 1 <= 1
          /\ n <= m - (c2 + 1) + 1
          /\ (c2 + 1) + 1 - 1 = c2 + 1 /\ (c2 + 1) + n - 1 = c2 + n
      BY <1>10, <1>11, <1>15, <1>21
    <2>2. Piece(e.data, rest, 1, n)
      BY <1>4, <1>12
    <2> HIDE DEF c2
    <2>3. Piece(e.data, t, (c2 + 1) + 1 - 1, (c2 + 1) + n - 1)
      BY <1>20, <2>1, <2>2, PieceOfPiece
    <2> QED BY <2>1, <2>3
  <1>23. Piece(sig, t, c2 + n + 2, m)
    <2>1. c2 + 1 \in Int /\ m \in Int /\ n + 2 \in Int /\ x \in Int /\ 1 <= n + 2
          /\ x <= m - (c2 + 1) + 1
          /\ (c2 + 1) + (n + 2) - 1 = c2 + n + 2 /\ (c2 + 1) + x - 1 = m
      BY <1>10, <1>11, <1>15, <1>21
    <2> HIDE DEF c2
    <2>2. Piece(sig, t, (c2 + 1) + (n + 2) - 1, (c2 + 1) + x - 1)
      BY <1>18, <1>20, <2>1, PieceOfPiece
    <2> QED BY <2>1, <2>2
  <1> HIDE DEF c2
  <1>31. Piece(rs, t, (c2 + n + 1) + 1, c4 - 1) /\ Piece(sn, t, c4 + 1, m)
    <2> DEFINE a == c2 + n + 2
    <2>1. a \in Int /\ m \in Int /\ k4 \in 1..z /\ z = m - a + 1 /\ z \in Int /\ 1 \in Int
      BY <1>10, <1>11, <1>15, <1>18, <1>21
    <2>2. /\ k4 - 1 \in Int /\ k4 + 1 \in Int /\ 1 <= 1 /\ k4 - 1 <= m - a + 1
          /\ 1 <= k4 + 1 /\ z <= m - a + 1
      <3> HIDE DEF a
      <3> QED BY <2>1
    <2>3. /\ a + 1 - 1 = (c2 + n + 1) + 1 /\ a + (k4 - 1) - 1 = c4 - 1
          /\ a + (k4 + 1) - 1 = c4 + 1 /\ a + z - 1 = m
      BY <1>10, <1>15, <1>21, <2>1
    <2>4. Piece(sig, t, a, m) /\ Piece(rs, sig, 1, k4 - 1) /\ Piece(sn, sig, k4 + 1, z)
      BY <1>23, <1>30 DEF z
    <2> HIDE DEF a, z, c4
    <2>5. Piece(rs, t, a + 1 - 1, a + (k4 - 1) - 1)
      BY <2>1, <2>2, <2>4, PieceOfPiece
    <2>6. Piece(sn, t, a + (k4 + 1) - 1, a + z - 1)
      BY <2>1, <2>2, <2>4, PieceOfPiece
    <2> QED BY <2>3, <2>5, <2>6
  <1>24. /\ \A i \in 1..y : u[i] = t[c1 + i]
         /\ \A i \in 1..x : rest[i] = t[c2 + i]
         /\ \A i \in 1..z : sig[i] = t[c2 + n + 1 + i]
    <2>1. ASSUME NEW i \in 1..y PROVE u[i] = t[c1 + i]
      <3>1. i \in 1..(m - (c1 + 1) + 1) /\ (c1 + 1) + i - 1 = c1 + i
        BY <1>15, <1>16
      <3> QED BY <1>16, <3>1 DEF Piece
    <2>2. ASSUME NEW i \in 1..x PROVE rest[i] = t[c2 + i]
      <3>1. i \in 1..(m - (c2 + 1) + 1) /\ (c2 + 1) + i - 1 = c2 + i
        BY <1>11, <1>15, <1>21
      <3> QED BY <1>20, <3>1 DEF Piece
    <2>3. ASSUME NEW i \in 1..z PROVE sig[i] = t[c2 + n + 1 + i]
      <3>1. i \in 1..(m - (c2 + n + 2) + 1) /\ (c2 + n + 2) + i - 1 = c2 + n + 1 + i
        BY <1>10, <1>11, <1>15, <1>18, <1>21
      <3> QED BY <1>23, <3>1 DEF Piece
    <2> QED BY <2>1, <2>2, <2>3
  <1>25. IsComma(t, c1) /\ IsComma(t, c2) /\ \A i \in 1..(c2 - 1) : IsComma(t, i) => i = c1
    <2>1. IsComma(t, c1) /\ \A i \in 1..(c1 - 1) : ~IsComma(t, i)
      BY <1>6 DEF FirstComma
    <2>2. IsComma(u, k2) /\ \A i \in 1..(k2 - 1) : ~IsComma(u, i)
      BY <1>8 DEF FirstComma
    <2>3. \A i \in 1..y : IsComma(u, i) <=> IsComma(t, c1 + i)
      BY <1>24 DEF IsComma
    <2>4. c2 = c1 + k2
      BY DEF c2
    <2>5. IsComma(t, c2)
      BY <1>15, <2>2, <2>3, <2>4
    <2>6. ASSUME NEW i \in 1..(c2 - 1), IsComma(t, i), i # c1
          PROVE  FALSE
      <3>1. i \notin 1..(c1 - 1)
        BY <2>1, <2>6
      <3>2. c1 \in Int /\ k2 \in Int /\ y \in Int /\ 1 <= c1 /\ k2 <= y /\ c2 \in Int
        BY <1>15, <1>16, <1>21
      <3>3. i - c1 \in 1..(k2 - 1) /\ i - c1 \in 1..y /\ c1 + (i - c1) = i
        BY <2>4, <2>6, <3>1, <3>2
      <3> QED BY <2>2, <2>3, <2>6, <3>3
    <2> QED BY <2>1, <2>5, <2>6
  <1>26. /\ c2 + n + 1 <= m /\ IsComma(t, c2 + n + 1)
         /\ c4 \in (c2 + n + 1 + 1)..m /\ IsComma(t, c4)
    <2>1. c2 + n + 1 <= m
      BY <1>10, <1>11, <1>15, <1>21
    <2>2. IsComma(t, c2 + n + 1)
      <3>1. n + 1 \in 1..x /\ c2 + (n + 1) = c2 + n + 1
        BY <1>10, <1>11, <1>21
      <3>2. t[c2 + (n + 1)] = comma
        BY <1>11, <1>24, <3>1
      <3> QED BY <3>1, <3>2 DEF IsComma, comma
    <2>3. c4 \in (c2 + n + 1 + 1)..m
      BY <1>10, <1>11, <1>15, <1>18, <1>21
    <2>4. IsComma(t, c4)
      <3>1. IsComma(sig, k4) /\ k4 \in 1..z
        BY <1>14, <1>15 DEF FirstComma
      <3> QED BY <1>24, <3>1 DEF IsComma
    <2> QED BY <2>1, <2>2, <2>3, <2>4
  <1>27. ASSUME NEW i \in (c2 + n + 1 + 1)..m, IsComma(t, i), i # c4
         PROVE  FALSE
    <2> DEFINE j == i - (c2 + n + 1)
               s == sn
    <2>1. j \in 1..z /\ c2 + n + 1 + j = i /\ j # k4 /\ j \in Int
      BY <1>10, <1>11, <1>15, <1>18, <1>21, <1>27
    <2> HIDE DEF j
    <2>2. IsComma(sig, j)
      BY <1>24, <1>27, <2>1 DEF IsComma
    <2>3. (\A h \in 1..(k4 - 1) : ~IsComma(sig, h)) /\ Piece(s, sig, k4 + 1, z)
      BY <1>14, <1>30 DEF FirstComma, z
    <2>4. ~(j \in 1..(k4 - 1))
      BY <2>2, <2>3
    <2>5. j - k4 \in 1..(z - (k4 + 1) + 1) /\ (k4 + 1) + (j - k4) - 1 = j
      <3>1. z \in Int /\ k4 \in Int /\ 1 <= k4
        BY <1>10, <1>11, <1>15, <1>18, <1>21
      <3> QED BY <2>1, <2>4, <3>1
    <2>6. s \in Seq(Byte) /\ Len(s) = z - (k4 + 1) + 1 /\ s[j - k4] = sig[j]
      BY <2>3, <2>5 DEF Piece
    <2>7. \A h \in 1..Len(s) : s[h] # ","
      BY <1>4, <2>6, NoCommaInInt
    <2> HIDE DEF s
    <2> QED BY <2>2, <2>5, <2>6, <2>7 DEF IsComma
  <1>28. c2 \in (c1 + 1)..m
    BY <1>15, <1>16, <1>21 DEF c2
  <1>29. Reading(t, e, address, length, rs, sn, c1, c2, c4)
    <2> HIDE DEF c4
    <2> QED BY <1>4, <1>10, <1>15, <1>16, <1>19, <1>22, <1>25, <1>26, <1>27, <1>28, <1>31
         DEF Reading, n, m, address
  <1> QED BY <1>4, <1>29 DEF t, e

\* s is the part of t behind its first k bytes.
Sits(s, t, k) ==
  /\ s \in Seq(Byte) /\ k \in Nat /\ k + Len(s) <= Len(t)
  /\ \A i \in 1..Len(s) : t[k + i] = s[i]

\* s, c and u are the part of t between k and the end.
SitsJoined(s, c, u, t, k, end) ==
  /\ Sits(s, t, k) /\ t[k + Len(s) + 1] = c /\ Sits(u, t, k + Len(s) + 1)
  /\ end = (k + Len(s) + 1) + Len(u)

LEMMA SitsJoin ==
  ASSUME NEW t \in Seq(Byte), NEW k \in Nat, NEW s \in Seq(Byte), NEW c \in Byte,
         NEW u \in Seq(Byte), Sits(Join(s, c, u), t, k)
  PROVE  SitsJoined(s, c, u, t, k, k + Len(Join(s, c, u)))
PROOF
  <1> DEFINE b == Join(s, c, u)
             m == Len(s)
             n == Len(u)
             x == Len(b)
             y == Len(t)
  <1>2. Joins(b, s, c, u)
    BY JoinFacts
  <1>3. Sits(b, t, k)
    OBVIOUS
  <1> HIDE DEF b
  <1>4. m \in Nat /\ n \in Nat /\ y \in Nat
    BY LenProperties
  <1>5. /\ x = m + 1 + n /\ b[m + 1] = c
        /\ \A i \in 1..m : b[i] = s[i]
        /\ \A i \in 1..n : b[m + 1 + i] = u[i]
    BY <1>2 DEF Joins
  <1>6. k \in Nat /\ k + x <= y /\ \A i \in 1..x : t[k + i] = b[i]
    BY <1>3 DEF Sits
  <1> HIDE DEF m, n, x, y
  <1>0. x = m + 1 + n /\ k \in Nat /\ k + x <= y
    BY <1>5, <1>6
  <1>7. k + m <= y /\ \A i \in 1..m : t[k + i] = s[i]
    <2>1. k + m <= y /\ \A i \in 1..m : i \in 1..x
      BY <1>0, <1>4
    <2> QED BY <1>5, <1>6, <2>1
  <1>8. t[k + m + 1] = c
    <2>1. m + 1 \in 1..x /\ k + (m + 1) = k + m + 1
      BY <1>0, <1>4
    <2> QED BY <1>5, <1>6, <2>1
  <1>9. k + m + 1 \in Nat /\ (k + m + 1) + n <= y /\ k + x = (k + m + 1) + n
    BY <1>0, <1>4
  <1>10. ASSUME NEW i \in 1..n PROVE t[(k + m + 1) + i] = u[i]
    <2>1. m + 1 + i \in 1..x /\ k + (m + 1 + i) = (k + m + 1) + i
      BY <1>0, <1>4
    <2> QED BY <1>5, <1>6, <2>1
  <1> QED BY <1>6, <1>7, <1>8, <1>9, <1>10 DEF Sits, SitsJoined, m, n, x, y, b

\* The fields of a transmission in its text t, and the commas between them.
Places(t, data, signal, f1, f2, f3, f4) ==
  /\ t \in Seq(Byte)
  /\ f1 = Len(Printed(signal.from)) + 1 /\ f2 = f1 + Len(Printed(Len(data))) + 1
  /\ f3 = f2 + Len(data) + 1 /\ f4 = f3 + Len(Printed(signal.rssi)) + 1
  /\ Len(t) = f4 + Len(Printed(signal.snr))
  /\ f1 \in Nat /\ f1 > 1 /\ f2 \in Nat /\ f2 > f1 + 1 /\ f3 \in Nat
  /\ f4 \in Nat /\ f4 > f3 + 1 /\ Len(t) > f4
  /\ IsComma(t, f1) /\ IsComma(t, f2) /\ IsComma(t, f3) /\ IsComma(t, f4)
  /\ \A i \in 1..Len(t) : IsComma(t, i) => i \in {f1, f2, f4} \cup ((f2 + 1)..f3)
  /\ Sits(Printed(signal.from), t, 0) /\ Sits(Printed(Len(data)), t, f1) /\ Sits(data, t, f2)
  /\ Sits(Printed(signal.rssi), t, f3) /\ Sits(Printed(signal.snr), t, f4)

LEMMA PlacesFacts ==
  ASSUME NEW data \in Seq(Byte), NEW signal \in Signal
  PROVE  \E f1, f2, f3, f4 : Places(RcvText(data, signal), data, signal, f1, f2, f3, f4)
PROOF
  <1> DEFINE F == Printed(signal.from)
             L == Printed(Len(data))
             R == Printed(signal.rssi)
             S == Printed(signal.snr)
             t4 == SignalText(signal)
             t3 == Join(data, ",", t4)
             t2 == Join(L, ",", t3)
             t == RcvText(data, signal)
             f1 == Len(F) + 1
             f2 == f1 + Len(L) + 1
             f3 == f2 + Len(data) + 1
             f4 == f3 + Len(R) + 1
  <1>1. /\ Plain(F) /\ Plain(L) /\ Plain(R) /\ Plain(S)
        /\ t4 \in Seq(Byte) /\ t3 \in Seq(Byte) /\ t2 \in Seq(Byte) /\ t \in Seq(Byte)
    BY RcvParts
  <1>2. signal.from \in Int /\ Len(data) \in Int /\ signal.rssi \in Int /\ signal.snr \in Int
        /\ Len(data) \in Nat
    <2>1. /\ signal.from \in 0..U16_MAX /\ Len(data) \in Nat
          /\ signal.rssi \in I16 /\ signal.snr \in I16
      BY RcvParts
    <2>2. I16 \subseteq Int
      BY Limits DEF I16
    <2>3. \A x \in 0..U16_MAX : x \in Int
      BY Limits
    <2>4. signal.from \in Int
      BY <2>1, <2>3
    <2>5. signal.rssi \in Int /\ signal.snr \in Int
      BY <2>1, <2>2
    <2>6. Len(data) \in Int
      BY <2>1
    <2> QED BY <2>1, <2>4, <2>5, <2>6
  <1>3. t = Join(F, ",", t2) /\ t4 = Join(R, ",", S)
    BY DEF RcvText, SignalText
  <1> HIDE DEF t, t2, t3, t4
  <1>4. Len(F) > 0 /\ Len(L) > 0 /\ Len(R) > 0 /\ Len(S) > 0
    BY <1>2, PrintedPlain
  <1> HIDE DEF F, L, R, S
  <1>5. /\ F \in Seq(Byte) /\ L \in Seq(Byte) /\ R \in Seq(Byte) /\ S \in Seq(Byte)
        /\ Len(F) \in Nat /\ Len(L) \in Nat /\ Len(R) \in Nat /\ Len(S) \in Nat
        /\ Len(t) \in Nat
    BY <1>1, LenProperties DEF Plain
  <1>6. /\ f1 \in Nat /\ f1 > 1 /\ f2 \in Nat /\ f2 > f1 + 1 /\ f3 \in Nat /\ f3 > f2
        /\ f4 \in Nat /\ f4 > f3 + 1 /\ 0 + Len(F) + 1 = f1
    BY <1>2, <1>4, <1>5
  <1>7. Sits(t, t, 0)
    <2>1. \A i \in 1..Len(t) : 0 + i = i
      BY <1>5
    <2> QED BY <1>1, <1>5, <2>1 DEF Sits
  <1> DEFINE c == ","
  <1>0. c \in Byte /\ t = Join(F, c, t2) /\ t2 = Join(L, c, t3)
        /\ t3 = Join(data, c, t4) /\ t4 = Join(R, c, S)
    BY <1>3 DEF Byte, t2, t3
  <1> HIDE DEF c
  <1>8. SitsJoined(F, c, t2, t, 0, 0 + Len(t))
    BY <1>0, <1>1, <1>5, <1>7, SitsJoin
  <1>9. Sits(F, t, 0) /\ IsComma(t, f1) /\ Sits(t2, t, f1) /\ Len(t) = f1 + Len(t2)
    <2>1. 0 + Len(t) = Len(t)
      BY <1>5
    <2> QED BY <1>6, <1>8, <2>1 DEF SitsJoined, IsComma, c
  <1>10. /\ Sits(L, t, f1) /\ IsComma(t, f2) /\ Sits(t3, t, f2)
         /\ f1 + Len(t2) = f2 + Len(t3)
    <2> HIDE DEF f1
    <2>1. SitsJoined(L, c, t3, t, f1, f1 + Len(t2))
      BY <1>0, <1>1, <1>5, <1>6, <1>9, SitsJoin
    <2> QED BY <2>1 DEF SitsJoined, IsComma, c
  <1>11. /\ Sits(data, t, f2) /\ IsComma(t, f3) /\ Sits(t4, t, f3)
         /\ f2 + Len(t3) = f3 + Len(t4)
    <2> HIDE DEF f2
    <2>1. SitsJoined(data, c, t4, t, f2, f2 + Len(t3))
      BY <1>0, <1>1, <1>6, <1>10, SitsJoin
    <2> QED BY <2>1 DEF SitsJoined, IsComma, c
  <1>12. /\ Sits(R, t, f3) /\ IsComma(t, f4) /\ Sits(S, t, f4)
         /\ f3 + Len(t4) = f4 + Len(S)
    <2> HIDE DEF f3
    <2>1. SitsJoined(R, c, S, t, f3, f3 + Len(t4))
      BY <1>0, <1>1, <1>5, <1>6, <1>11, SitsJoin
    <2> QED BY <2>1 DEF SitsJoined, IsComma, c
  <1> HIDE DEF f1, f2, f3, f4
  <1>13. Len(t) = f4 + Len(S) /\ Len(t) > f4
    <2>1. Len(t) = f4 + Len(S)
      BY <1>9, <1>10, <1>11, <1>12
    <2> QED BY <1>4, <1>5, <1>6, <2>1
  <1>14. ASSUME NEW s, Plain(s), NEW k, Sits(s, t, k), NEW i \in (k + 1)..(k + Len(s))
         PROVE  ~IsComma(t, i)
    <2>1. k \in Nat /\ Len(s) \in Nat
      BY <1>14, LenProperties DEF Sits
    <2>2. i - k \in 1..Len(s) /\ k + (i - k) = i
      BY <2>1
    <2>3. t[i] = s[i - k]
      BY <1>14, <2>2 DEF Sits
    <2>4. s[i - k] # ","
      BY <1>14, <2>2 DEF Plain
    <2> QED BY <2>3, <2>4 DEF IsComma
  <1>15. ASSUME NEW i \in 1..Len(t), IsComma(t, i), i \notin {f1, f2, f4} \cup ((f2 + 1)..f3)
         PROVE  FALSE
    <2>1. ~(i \in (0 + 1)..(0 + Len(F))) /\ ~(i \in (f1 + 1)..(f1 + Len(L)))
      BY <1>1, <1>9, <1>10, <1>14, <1>15
    <2>2. ~(i \in (f3 + 1)..(f3 + Len(R))) /\ ~(i \in (f4 + 1)..(f4 + Len(S)))
      BY <1>1, <1>12, <1>14, <1>15
    <2>3. f1 = Len(F) + 1 /\ f2 = f1 + Len(L) + 1 /\ f4 = f3 + Len(R) + 1
      BY DEF f1, f2, f4
    <2>4. i \in Int /\ i # f1 /\ i # f2 /\ i # f4 /\ i \notin (f2 + 1)..f3 /\ 1 <= i
          /\ i <= f4 + Len(S)
      BY <1>13, <1>15
    <2>5. i > f1
      BY <1>5, <2>1, <2>3, <2>4
    <2>6. i > f2
      BY <1>5, <1>6, <2>1, <2>3, <2>4, <2>5
    <2>7. i > f3
      BY <1>6, <2>4, <2>6
    <2>8. i > f4
      <3> DEFINE r == Len(R)
      <3>1. r \in Nat /\ f3 \in Nat /\ i \notin (f3 + 1)..(f3 + r) /\ f4 = f3 + r + 1
        BY <1>5, <1>6, <2>2, <2>3
      <3> HIDE DEF r
      <3> QED BY <2>4, <2>7, <3>1
    <2> QED BY <1>5, <1>6, <2>2, <2>4, <2>8
  <1>16. Places(t, data, signal, f1, f2, f3, f4)
    BY <1>1, <1>6, <1>9, <1>10, <1>11, <1>12, <1>13, <1>15
       DEF Places, f1, f2, f3, f4, F, L, R, S
  <1> QED BY <1>16 DEF t

-----------------------------------------------------------------------------
(* A +RCV line that lost a byte                                            *)

\* h is s without its j-th byte.
Without(h, s, j) ==
  /\ h \in Seq(Byte) /\ s \in Seq(Byte) /\ j \in 1..Len(s) /\ Len(h) = Len(s) - 1
  /\ \A i \in 1..(j - 1) : h[i] = s[i]
  /\ \A i \in j..Len(h) : h[i] = s[i + 1]

\* Behind the k-th byte h has the bytes of s.
Bears(h, k, s) == \A i \in 1..Len(s) : h[k + i] = s[i]

\* A piece as long as s, with the bytes of s, is s.
LEMMA PieceIs ==
  ASSUME NEW l, NEW h, NEW k \in Nat, NEW s \in Seq(Byte), NEW a, NEW b,
         Piece(l, h, a, b), a = k + 1, b = k + Len(s), Bears(h, k, s)
  PROVE  l = s
PROOF
  <1> DEFINE n == Len(s)
  <1>1. n \in Nat
    BY LenProperties
  <1>2. l \in Seq(Byte) /\ Len(l) = (k + n) - (k + 1) + 1
        /\ \A i \in 1..((k + n) - (k + 1) + 1) : l[i] = h[(k + 1) + i - 1]
    BY DEF Piece
  <1> HIDE DEF n
  <1>3. (k + n) - (k + 1) + 1 = n
    BY <1>1
  <1>4. ASSUME NEW i \in 1..n PROVE l[i] = s[i]
    <2>1. (k + 1) + i - 1 = k + i
      BY <1>1
    <2> QED BY <1>2, <1>3, <2>1 DEF Bears, n
  <1>5. Len(l) = n
    BY <1>2, <1>3
  <1> QED BY <1>2, <1>4, <1>5, SeqEqual DEF n

\* The first two commas of a text are found by their places.
LEMMA FirstTwo ==
  ASSUME NEW h, NEW c1 \in Int, NEW c2 \in Int, NEW g1 \in Int, NEW g2 \in Int,
         1 <= c1, c1 < c2, IsComma(h, c1), IsComma(h, c2),
         \A i \in 1..(c2 - 1) : IsComma(h, i) => i = c1,
         1 <= g1, g1 < g2, IsComma(h, g1), IsComma(h, g2),
         \A i \in 1..(g2 - 1) : IsComma(h, i) => i = g1
  PROVE  c1 = g1 /\ c2 = g2
PROOF
  <1>1. ~(c2 < g2)
    <2>1. SUFFICES ASSUME c2 < g2 PROVE FALSE
      OBVIOUS
    <2>2. c1 \in 1..(g2 - 1) /\ c2 \in 1..(g2 - 1)
      BY <2>1
    <2>3. c1 = g1 /\ c2 = g1
      BY <2>2
    <2> QED BY <2>3
  <1>2. ~(g2 < c2)
    <2>1. SUFFICES ASSUME g2 < c2 PROVE FALSE
      OBVIOUS
    <2>2. g1 \in 1..(c2 - 1) /\ g2 \in 1..(c2 - 1)
      BY <2>1
    <2>3. g1 = c1 /\ g2 = c1
      BY <2>2
    <2> QED BY <2>3
  <1>3. c2 = g2
    BY <1>1, <1>2
  <1>4. c1 \in 1..(g2 - 1)
    BY <1>3
  <1> QED BY <1>3, <1>4

\* Where address and length have their commas, the length is read as it was sent, and
\* where the data follows it is the data.
ReadsLength(h, e, length, c1, c2, g1, g2, data) ==
  /\ c1 = g1 /\ c2 = g2 /\ ParseInt(length, 0, U32_MAX).val = Len(data)
  /\ (\A i \in 1..Len(data) : h[g2 + i] = data[i]) => e.data = data

LEMMA LengthIsRead ==
  ASSUME NEW data \in Seq(Byte), Len(data) <= U32_MAX, NEW h, NEW e, NEW address, NEW length,
         NEW rs, NEW sn, NEW c1, NEW c2, NEW c4, Reading(h, e, address, length, rs, sn, c1, c2, c4),
         NEW g1 \in Nat, NEW g2 \in Nat, 1 <= g1, g2 = g1 + Len(Printed(Len(data))) + 1,
         IsComma(h, g1), IsComma(h, g2), \A i \in 1..(g2 - 1) : IsComma(h, i) => i = g1,
         \A i \in 1..Len(Printed(Len(data))) : h[g1 + i] = Printed(Len(data))[i]
  PROVE  ReadsLength(h, e, length, c1, c2, g1, g2, data)
PROOF
  <1> DEFINE L == Printed(Len(data))
             n == Len(data)
             m == Len(L)
             val == ParseInt(length, 0, U32_MAX).val
  <1>1. n \in Nat /\ n \in 0..U32_MAX
    BY Limits, LenProperties
  <1>2. L \in Seq(Byte) /\ ParseInt(L, 0, U32_MAX) = Parsed(n)
    <2> HIDE DEF n
    <2>1. Plain(Printed(n)) /\ ParseInt(Printed(n), 0, U32_MAX) = Parsed(n)
      BY <1>1, Limits, NaturalText
    <2> QED BY <2>1 DEF Plain, n
  <1>3. g2 = g1 + m + 1 /\ \A i \in 1..m : h[g1 + i] = L[i]
    OBVIOUS
  <1> HIDE DEF L
  <1>4. m \in Nat
    BY <1>2, LenProperties
  <1>5. /\ c1 \in 1..Len(h) /\ c2 \in (c1 + 1)..Len(h) /\ IsComma(h, c1) /\ IsComma(h, c2)
        /\ \A i \in 1..(c2 - 1) : IsComma(h, i) => i = c1
        /\ Piece(length, h, c1 + 1, c2 - 1) /\ Piece(e.data, h, c2 + 1, c2 + val)
    BY DEF Reading
  <1> HIDE DEF n, m, val
  <1>6. c1 = g1 /\ c2 = g2
    <2>1. c1 \in Int /\ c2 \in Int /\ 1 <= c1 /\ c1 < c2
      BY <1>5
    <2>2. g1 \in Int /\ g2 \in Int /\ g1 < g2
      BY <1>3, <1>4
    <2> QED BY <1>5, <2>1, <2>2, FirstTwo
  <1>7. length = L
    <2>1. c2 - 1 = g1 + m
      BY <1>3, <1>4, <1>6
    <2>2. Piece(length, h, g1 + 1, g1 + Len(L))
      BY <1>5, <1>6, <2>1 DEF m
    <2>3. Bears(h, g1, L)
      BY <1>3 DEF Bears, m
    <2> QED BY <1>2, <2>2, <2>3, PieceIs
  <1>8. val = n
    BY <1>2, <1>7 DEF Parsed, val
  <1>9. ASSUME \A i \in 1..n : h[g2 + i] = data[i]
        PROVE  e.data = data
    <2> DEFINE d == e.data
    <2>1. Piece(d, h, g2 + 1, g2 + Len(data))
      BY <1>5, <1>6, <1>8 DEF n
    <2>2. Bears(h, g2, data)
      BY <1>9 DEF n, Bears
    <2> HIDE DEF d
    <2>3. d = data
      BY <2>1, <2>2, PieceIs
    <2> QED BY <2>3 DEF d
  <1> QED BY <1>6, <1>8, <1>9 DEF ReadsLength, n, val

\* A text that is whole up to the end of its data is read with its address and that data,
\* whatever follows.
ReadsUpToData(e, length, c2, f2, data, signal) ==
  /\ e.data = data /\ e.from = signal.from
  /\ c2 = f2 /\ ParseInt(length, 0, U32_MAX).val = Len(data)

LEMMA WholeUpToData ==
  ASSUME NEW data \in Seq(Byte), Len(data) <= U32_MAX, NEW signal \in Signal, NEW t, NEW f1, NEW f2,
         NEW f3, NEW f4, Places(t, data, signal, f1, f2, f3, f4),
         NEW h, \A i \in 1..f3 : h[i] = t[i],
         NEW e, NEW address, NEW length,
         NEW rs, NEW sn, NEW c1, NEW c2, NEW c4,
         Reading(h, e, address, length, rs, sn, c1, c2, c4)
  PROVE  ReadsUpToData(e, length, c2, f2, data, signal)
PROOF
  <1> DEFINE L == Printed(Len(data))
             n == Len(data)
             m == Len(L)
             x == Len(t)
  <1>1. /\ f1 \in Nat /\ f1 > 1 /\ f2 \in Nat /\ f2 = f1 + m + 1 /\ f3 \in Nat
        /\ f3 = f2 + n + 1 /\ f4 \in Nat /\ f4 > f3 + 1 /\ x > f4
    BY DEF Places
  <1>2. IsComma(t, f1) /\ IsComma(t, f2)
        /\ \A i \in 1..x : IsComma(t, i) => i \in {f1, f2, f4} \cup ((f2 + 1)..f3)
    BY DEF Places
  <1>3. /\ L \in Seq(Byte) /\ \A i \in 1..m : t[f1 + i] = L[i]
        /\ \A i \in 1..n : t[f2 + i] = data[i]
    BY DEF Places, Sits
  <1> HIDE DEF L
  <1>4. n \in Nat /\ m \in Nat /\ x \in Nat
    <2>1. t \in Seq(Byte)
      BY DEF Places
    <2> QED BY <1>3, <2>1, LenProperties
  <1>5. \A i \in 1..f3 : IsComma(h, i) <=> IsComma(t, i)
    BY DEF IsComma
  <1> HIDE DEF m, n, x
  <1>6. f1 \in 1..f3 /\ f2 \in 1..f3
    BY <1>1, <1>4
  <1>7. IsComma(h, f1) /\ IsComma(h, f2)
    BY <1>2, <1>5, <1>6
  <1>8. ASSUME NEW i \in 1..(f2 - 1), IsComma(h, i) PROVE i = f1
    <2>1. i \in 1..f3 /\ i \in 1..x
      BY <1>1, <1>4
    <2>2. i \in {f1, f2, f4} \cup ((f2 + 1)..f3)
      BY <1>2, <1>5, <1>8, <2>1
    <2> QED BY <1>1, <1>4, <2>2
  <1>9. \A i \in 1..m : h[f1 + i] = L[i]
    <2>1. \A i \in 1..m : f1 + i \in 1..f3
      BY <1>1, <1>4
    <2> QED BY <1>3, <2>1
  <1>10. \A i \in 1..n : h[f2 + i] = data[i]
    <2>1. \A i \in 1..n : f2 + i \in 1..f3
      BY <1>1, <1>4
    <2> QED BY <1>3, <2>1
  <1>11. 1 <= f1 /\ f1 \in Nat /\ f2 \in Nat /\ f2 = f1 + m + 1
    BY <1>1
  <1>12. ReadsLength(h, e, length, c1, c2, f1, f2, data)
    BY <1>7, <1>8, <1>9, <1>11, LengthIsRead DEF m, n, L
  <1>13. e.from = signal.from
    <2> DEFINE F == Printed(signal.from)
               k == Len(F)
    <2>1. signal.from \in 0..U16_MAX /\ Plain(F)
      BY RcvParts
    <2>2. ParseInt(F, 0, U16_MAX) = Parsed(signal.from)
      BY <2>1, Limits, NaturalText
    <2>3. f1 = k + 1 /\ \A i \in 1..k : t[0 + i] = F[i]
      BY DEF Places, Sits
    <2>4. c1 = f1 /\ Piece(address, h, 1, c1 - 1) /\ e.from = ParseInt(address, 0, U16_MAX).val
      BY <1>12 DEF ReadsLength, Reading
    <2> HIDE DEF F
    <2>5. F \in Seq(Byte) /\ k \in Nat
      BY <2>1, LenProperties DEF Plain
    <2> HIDE DEF k
    <2>6. \A i \in 1..k : 0 + i \in 1..f3
      BY <1>1, <1>4, <2>3, <2>5
    <2>7. Bears(h, 0, F)
      BY <2>3, <2>6 DEF Bears, k
    <2>8. 1 = 0 + 1 /\ c1 - 1 = 0 + k
      BY <2>3, <2>4, <2>5
    <2>9. c1 - 1 = 0 + Len(F)
      BY <2>8 DEF k
    <2>10. address = F
      BY <2>4, <2>5, <2>7, <2>8, <2>9, PieceIs
    <2> QED BY <2>2, <2>4, <2>10 DEF Parsed
  <1> QED BY <1>10, <1>12, <1>13 DEF ReadsLength, ReadsUpToData, n

\* The places of a text that lost its j-th byte: where its commas are.
Gaps(h, t, j, f1, f2, f3, f4) ==
  /\ f1 \in Nat /\ f2 \in Nat /\ f3 \in Nat /\ f4 \in Nat /\ Len(t) \in Nat
  /\ 1 < f1 /\ f1 + 1 < f2 /\ f2 < f3 /\ f3 + 1 < f4 /\ f4 < Len(t)
  /\ j \in 1..Len(t) /\ Len(h) = Len(t) - 1
  /\ \A i \in 1..(j - 1) : h[i] = t[i]
  /\ \A i \in j..Len(h) : h[i] = t[i + 1]
  /\ \A i \in 1..Len(t) : IsComma(t, i) => i \in {f1, f2, f4} \cup ((f2 + 1)..f3)
  /\ \A i \in 1..Len(h) : IsComma(h, i) =>
       (IF i < j THEN i ELSE i + 1) \in {f1, f2, f4} \cup ((f2 + 1)..f3)
  /\ \A f \in {f1, f2, f3, f4} :
       (f < j => IsComma(h, f)) /\ (f > j => IsComma(h, f - 1))

LEMMA GapsFacts ==
  ASSUME NEW data \in Seq(Byte), NEW signal, NEW t, NEW f1, NEW f2, NEW f3, NEW f4,
         Places(t, data, signal, f1, f2, f3, f4), NEW h, NEW j, Without(h, t, j)
  PROVE  Gaps(h, t, j, f1, f2, f3, f4)
PROOF
  <1> DEFINE n == Len(data)
             x == Len(t)
             C == {f1, f2, f4} \cup ((f2 + 1)..f3)
  <1>1. t \in Seq(Byte) /\ x \in Nat /\ n \in Nat
    <2>1. t \in Seq(Byte)
      BY DEF Places
    <2> QED BY <2>1, LenProperties
  <1>2. /\ f1 \in Nat /\ f1 > 1 /\ f2 \in Nat /\ f2 > f1 + 1 /\ f3 \in Nat /\ f3 = f2 + n + 1
        /\ f4 \in Nat /\ f4 > f3 + 1 /\ x > f4
    BY DEF Places
  <1>3. /\ IsComma(t, f1) /\ IsComma(t, f2) /\ IsComma(t, f3) /\ IsComma(t, f4)
        /\ \A i \in 1..x : IsComma(t, i) => i \in C
    BY DEF Places
  <1>4. /\ j \in 1..x /\ Len(h) = x - 1 /\ \A i \in 1..(j - 1) : h[i] = t[i]
        /\ \A i \in j..Len(h) : h[i] = t[i + 1]
    BY DEF Without
  <1> HIDE DEF n, x, C
  <1>5. ASSUME NEW i \in 1..Len(h), IsComma(h, i) PROVE (IF i < j THEN i ELSE i + 1) \in C
    <2>1. CASE i < j
      <3>1. i \in 1..(j - 1) /\ i \in 1..x
        BY <1>1, <1>4, <2>1
      <3> QED BY <1>3, <1>4, <1>5, <2>1, <3>1 DEF IsComma
    <2>2. CASE ~(i < j)
      <3>1. i \in j..Len(h) /\ i + 1 \in 1..x
        BY <1>1, <1>4, <2>2
      <3> QED BY <1>3, <1>4, <1>5, <2>2, <3>1 DEF IsComma
    <2> QED BY <2>1, <2>2
  <1>6. ASSUME NEW f \in {f1, f2, f3, f4}
        PROVE  (f < j => IsComma(h, f)) /\ (f > j => IsComma(h, f - 1))
    <2>1. IsComma(t, f) /\ f \in 1..x
      BY <1>1, <1>2, <1>3
    <2>2. ASSUME f < j PROVE IsComma(h, f)
      <3>1. f \in 1..(j - 1)
        BY <1>1, <1>4, <2>1, <2>2
      <3> QED BY <1>4, <2>1, <3>1 DEF IsComma
    <2>3. ASSUME f > j PROVE IsComma(h, f - 1)
      <3>1. f - 1 \in j..Len(h) /\ (f - 1) + 1 = f
        BY <1>1, <1>4, <2>1, <2>3
      <3> QED BY <1>4, <2>1, <3>1 DEF IsComma
    <2> QED BY <2>2, <2>3
  <1>7. f2 < f3
    BY <1>1, <1>2
  <1> QED BY <1>1, <1>2, <1>3, <1>4, <1>5, <1>6, <1>7 DEF Gaps, x, C

\* A byte lost in front of the comma that ends the data: the length read must lead to
\* that comma, for only one comma is behind it.
LEMMA LengthLeadsToComma ==
  ASSUME NEW h, NEW t, NEW j, NEW f1, NEW f2, NEW f3, NEW f4, Gaps(h, t, j, f1, f2, f3, f4),
         j < f3, NEW e, NEW address, NEW length,
         NEW rs, NEW sn, NEW c1, NEW c2, NEW c4,
         Reading(h, e, address, length, rs, sn, c1, c2, c4)
  PROVE  c2 + ParseInt(length, 0, U32_MAX).val + 1 = f3 - 1
PROOF
  <1> DEFINE v == ParseInt(length, 0, U32_MAX).val
             c3 == c2 + v + 1
             y == Len(h)
             x == Len(t)
  <1>1. /\ f1 \in Nat /\ f2 \in Nat /\ f3 \in Nat /\ f4 \in Nat /\ x \in Nat
        /\ 1 < f1 /\ f1 + 1 < f2 /\ f2 < f3 /\ f3 + 1 < f4 /\ f4 < x
        /\ j \in 1..x /\ y = x - 1
    BY DEF Gaps
  <1>2. /\ \A i \in 1..y : IsComma(h, i) =>
             (IF i < j THEN i ELSE i + 1) \in {f1, f2, f4} \cup ((f2 + 1)..f3)
        /\ (f3 > j => IsComma(h, f3 - 1)) /\ (f4 > j => IsComma(h, f4 - 1))
    BY DEF Gaps
  <1>3. /\ c1 \in 1..y /\ c2 \in (c1 + 1)..y /\ v \in Nat /\ c3 <= y /\ IsComma(h, c3)
        /\ c4 \in (c3 + 1)..y /\ IsComma(h, c4)
        /\ \A i \in (c3 + 1)..y : IsComma(h, i) => i = c4
    BY DEF Reading
  <1>4. c3 \in 1..y
    <2> HIDE DEF v, y
    <2> QED BY <1>1, <1>3
  <1> HIDE DEF y, x, c3
  <1>5. IsComma(h, f3 - 1) /\ IsComma(h, f4 - 1) /\ f3 - 1 \in 1..y /\ f4 - 1 \in 1..y
    BY <1>1, <1>2
  <1>6. ~(c3 < f3 - 1)
    <2> SUFFICES ASSUME c3 < f3 - 1 PROVE FALSE
      OBVIOUS
    <2>1. f3 - 1 \in (c3 + 1)..y /\ f4 - 1 \in (c3 + 1)..y /\ f3 - 1 # f4 - 1
      BY <1>1, <1>4, <1>5
    <2> QED BY <1>3, <1>5, <2>1
  <1>7. ~(c3 > f3 - 1)
    <2> SUFFICES ASSUME c3 > f3 - 1 PROVE FALSE
      OBVIOUS
    <2>1. ~(c3 < j) /\ ~(c4 < j) /\ c4 \in 1..y /\ c4 > c3
      BY <1>1, <1>3, <1>4
    <2>2. c3 + 1 \in {f1, f2, f4} \cup ((f2 + 1)..f3)
      BY <1>2, <1>3, <1>4, <2>1
    <2>3. c4 + 1 \in {f1, f2, f4} \cup ((f2 + 1)..f3)
      BY <1>2, <1>3, <2>1
    <2>4. c3 + 1 = f4
      BY <1>1, <1>4, <2>2
    <2> QED BY <1>1, <1>4, <2>1, <2>3, <2>4
  <1>8. c3 = f3 - 1
    BY <1>1, <1>4, <1>6, <1>7
  <1> QED BY <1>8 DEF c3

\* A field in front of the lost byte is where it was, one behind it is a byte ahead.
LEMMA FieldMoves ==
  ASSUME NEW h, NEW t, NEW j, NEW f1, NEW f2, NEW f3, NEW f4, Gaps(h, t, j, f1, f2, f3, f4),
         NEW s, NEW k, Sits(s, t, k)
  PROVE  (k + Len(s) < j => Bears(h, k, s)) /\ (k >= j => Bears(h, k - 1, s))
PROOF
  <1> DEFINE n == Len(s)
             x == Len(t)
             y == Len(h)
  <1>1. n \in Nat /\ k \in Nat /\ k + n <= x /\ \A i \in 1..n : t[k + i] = s[i]
    BY LenProperties DEF Sits
  <1>2. /\ x \in Nat /\ j \in 1..x /\ y = x - 1 /\ \A i \in 1..(j - 1) : h[i] = t[i]
        /\ \A i \in j..y : h[i] = t[i + 1]
    BY DEF Gaps
  <1> HIDE DEF n, x, y
  <1>3. ASSUME k + n < j, NEW i \in 1..n PROVE h[k + i] = s[i]
    <2>1. k + i \in 1..(j - 1)
      BY <1>1, <1>2, <1>3
    <2> QED BY <1>1, <1>2, <2>1
  <1>4. ASSUME k >= j, NEW i \in 1..n PROVE h[k - 1 + i] = s[i]
    <2>1. k - 1 + i \in j..y /\ (k - 1 + i) + 1 = k + i
      BY <1>1, <1>2, <1>4
    <2>2. h[k - 1 + i] = t[(k - 1 + i) + 1]
      BY <1>2, <2>1
    <2> QED BY <1>1, <2>1, <2>2
  <1> QED BY <1>3, <1>4 DEF Bears, n

\* A signal's number that is where it is looked for is read as it was sent.
LEMMA SignalReadsBack ==
  ASSUME NEW x \in I16, NEW p, NEW h, NEW k \in Nat, NEW a, NEW b, Piece(p, h, a, b),
         a = k + 1, b = k + Len(Printed(x)), Bears(h, k, Printed(x))
  PROVE  ParseInt(p, -I16_MAX - 1, I16_MAX).val = x
PROOF
  <1> DEFINE low == -I16_MAX - 1
             P == Printed(x)
  <1>1. low \in Int /\ low <= 0 /\ x \in low..I16_MAX /\ x \in Int
    BY Limits DEF I16
  <1>2. Plain(P)
    BY <1>1, PrintedPlain
  <1> HIDE DEF low
  <1>3. ParseInt(P, low, I16_MAX) = Parsed(x)
    BY <1>1, Limits, NumberReadsBack
  <1>4. Piece(p, h, a, b) /\ a = k + 1 /\ b = k + Len(P) /\ Bears(h, k, P)
    OBVIOUS
  <1> HIDE DEF P
  <1>5. P \in Seq(Byte)
    BY <1>2 DEF Plain
  <1>6. p = P
    BY <1>4, <1>5, PieceIs
  <1>7. ParseInt(p, low, I16_MAX).val = x
    BY <1>3, <1>6 DEF Parsed
  <1> QED BY <1>7 DEF low

\* A byte lost in front of the comma that ends the data: the signal is read as it was.
LEMMA SignalMoves ==
  ASSUME NEW data \in Seq(Byte), NEW signal \in Signal, NEW t, NEW f1, NEW f2,
         NEW f3, NEW f4, Places(t, data, signal, f1, f2, f3, f4),
         NEW h, NEW j, Gaps(h, t, j, f1, f2, f3, f4), j < f3,
         NEW e, NEW address, NEW length,
         NEW rs, NEW sn, NEW c1, NEW c2, NEW c4,
         Reading(h, e, address, length, rs, sn, c1, c2, c4)
  PROVE  e.rssi = signal.rssi /\ e.snr = signal.snr
PROOF
  <1> DEFINE R == Printed(signal.rssi)
             S == Printed(signal.snr)
             p == Len(R)
             q == Len(S)
             y == Len(h)
             x == Len(t)
             v == ParseInt(length, 0, U32_MAX).val
             c3 == c2 + v + 1
  <1>1. /\ f1 \in Nat /\ f2 \in Nat /\ f3 \in Nat /\ f4 \in Nat /\ x \in Nat
        /\ 1 < f1 /\ f1 + 1 < f2 /\ f2 < f3 /\ f3 + 1 < f4 /\ f4 < x
        /\ j \in 1..x /\ y = x - 1 /\ (f4 > j => IsComma(h, f4 - 1))
    BY DEF Gaps
  <1>2. /\ c4 \in (c3 + 1)..y /\ \A i \in (c3 + 1)..y : IsComma(h, i) => i = c4
        /\ Piece(rs, h, c3 + 1, c4 - 1) /\ Piece(sn, h, c4 + 1, y)
        /\ e.rssi = ParseInt(rs, -I16_MAX - 1, I16_MAX).val
        /\ e.snr = ParseInt(sn, -I16_MAX - 1, I16_MAX).val
    BY DEF Reading
  <1>3. c3 = f3 - 1
    BY LengthLeadsToComma
  <1>4. f4 = f3 + p + 1 /\ x = f4 + q /\ Sits(R, t, f3) /\ Sits(S, t, f4)
    BY DEF Places
  <1>5. signal.rssi \in I16 /\ signal.snr \in I16
    BY RcvParts
  <1> HIDE DEF R, S, c3
  <1>6. f3 >= j /\ f4 >= j /\ f4 > j
    BY <1>1
  <1>7. Bears(h, f3 - 1, R) /\ Bears(h, f4 - 1, S)
    BY <1>4, <1>6, FieldMoves
  <1>8. p \in Nat /\ q \in Nat
    BY <1>4, LenProperties DEF Sits
  <1> HIDE DEF p, q, x, y
  <1>9. c4 = f4 - 1
    <2>1. f4 - 1 \in (c3 + 1)..y
      BY <1>1, <1>3
    <2> QED BY <1>1, <1>2, <1>6, <2>1
  <1> DEFINE k == f3 - 1
             l == f4 - 1
  <1>10. /\ k \in Nat /\ c3 + 1 = k + 1 /\ c4 - 1 = k + p
         /\ l \in Nat /\ c4 + 1 = l + 1 /\ y = l + q
    BY <1>1, <1>3, <1>4, <1>8, <1>9
  <1>11. Bears(h, k, R) /\ Bears(h, l, S)
    BY <1>7
  <1> HIDE DEF k, l
  <1>12. ParseInt(rs, -I16_MAX - 1, I16_MAX).val = signal.rssi
    BY <1>2, <1>5, <1>10, <1>11, SignalReadsBack DEF p, R
  <1>13. ParseInt(sn, -I16_MAX - 1, I16_MAX).val = signal.snr
    BY <1>2, <1>5, <1>10, <1>11, SignalReadsBack DEF q, S
  <1> QED BY <1>2, <1>12, <1>13

\* A byte lost behind the data: what is in front of it is read as it was.
LEMMA LostInSignal ==
  ASSUME NEW data \in Seq(Byte), Len(data) <= U32_MAX, NEW signal \in Signal, NEW t, NEW f1,
         NEW f2, NEW f3, NEW f4, Places(t, data, signal, f1, f2, f3, f4),
         NEW h, NEW j, Gaps(h, t, j, f1, f2, f3, f4), f3 < j,
         NEW e, NEW address, NEW length,
         NEW rs, NEW sn, NEW c1, NEW c2, NEW c4,
         Reading(h, e, address, length, rs, sn, c1, c2, c4)
  PROVE  /\ e.data = data /\ e.from = signal.from
         /\ e.rssi = signal.rssi \/ e.snr = signal.snr
PROOF
  <1> DEFINE R == Printed(signal.rssi)
             S == Printed(signal.snr)
             p == Len(R)
             q == Len(S)
             n == Len(data)
             y == Len(h)
             x == Len(t)
             v == ParseInt(length, 0, U32_MAX).val
             c3 == c2 + v + 1
  <1>1. /\ f1 \in Nat /\ f2 \in Nat /\ f3 \in Nat /\ f4 \in Nat /\ x \in Nat
        /\ 1 < f1 /\ f1 + 1 < f2 /\ f2 < f3 /\ f3 + 1 < f4 /\ f4 < x
        /\ j \in 1..x /\ y = x - 1 /\ \A i \in 1..(j - 1) : h[i] = t[i]
    BY DEF Gaps
  <1>2. /\ \A i \in 1..y : IsComma(h, i) =>
             (IF i < j THEN i ELSE i + 1) \in {f1, f2, f4} \cup ((f2 + 1)..f3)
        /\ (f4 < j => IsComma(h, f4)) /\ (f4 > j => IsComma(h, f4 - 1))
    BY DEF Gaps
  <1>3. /\ c4 \in (c3 + 1)..y /\ \A i \in (c3 + 1)..y : IsComma(h, i) => i = c4
        /\ IsComma(h, c4) /\ Piece(rs, h, c3 + 1, c4 - 1) /\ Piece(sn, h, c4 + 1, y)
        /\ e.rssi = ParseInt(rs, -I16_MAX - 1, I16_MAX).val
        /\ e.snr = ParseInt(sn, -I16_MAX - 1, I16_MAX).val
    BY DEF Reading
  <1>4. /\ f3 = f2 + n + 1 /\ f4 = f3 + p + 1 /\ x = f4 + q
        /\ Sits(R, t, f3) /\ Sits(S, t, f4)
    BY DEF Places
  <1>5. signal.rssi \in I16 /\ signal.snr \in I16
    BY RcvParts
  <1>6. ReadsUpToData(e, length, c2, f2, data, signal)
    <2>1. \A i \in 1..f3 : i \in 1..(j - 1)
      BY <1>1
    <2>2. \A i \in 1..f3 : h[i] = t[i]
      BY <1>1, <2>1
    <2> QED BY <2>2, WholeUpToData
  <1>7. e.data = data /\ e.from = signal.from /\ c3 = f3
    BY <1>4, <1>6 DEF ReadsUpToData
  <1> HIDE DEF R, S, c3
  <1>8. p \in Nat /\ q \in Nat
    BY <1>4, LenProperties DEF Sits
  <1>9. (f3 + p < j => Bears(h, f3, R)) /\ (f4 >= j => Bears(h, f4 - 1, S))
    BY <1>4, FieldMoves
  <1> HIDE DEF p, q, x, y, n
  <1>0. /\ f3 \in Nat /\ f4 \in Nat /\ x \in Nat /\ p \in Nat /\ q \in Nat /\ j \in Nat
         /\ 0 < f3 /\ f3 + 1 < f4 /\ f4 < x /\ y = x - 1 /\ f4 = f3 + p + 1 /\ x = f4 + q
         /\ j <= x /\ c3 = f3
    BY <1>1, <1>4, <1>7, <1>8
  <1>10. CASE j < f4
    <2> DEFINE l == f4 - 1
    <2>1. f4 - 1 \in (c3 + 1)..y /\ f4 >= j /\ f4 > j
      BY <1>1, <1>7, <1>10
    <2>2. c4 = l
      BY <1>2, <1>3, <2>1
    <2>3. l \in Nat /\ c4 + 1 = l + 1 /\ y = l + q
      BY <1>0, <2>2
    <2>5. Bears(h, l, S)
      BY <1>9, <2>1
    <2> HIDE DEF l
    <2>4. ParseInt(sn, -I16_MAX - 1, I16_MAX).val = signal.snr
      BY <1>3, <1>5, <2>3, <2>5, SignalReadsBack DEF q, S
    <2> QED BY <1>3, <1>7, <2>4
  <1>11. ASSUME j = f4 PROVE FALSE
    <2>1. c4 \in 1..y /\ c4 > f3
      BY <1>1, <1>3, <1>7
    <2>2. (IF c4 < j THEN c4 ELSE c4 + 1) \in {f1, f2, f4} \cup ((f2 + 1)..f3)
      BY <1>2, <1>3, <2>1
    <2> QED BY <1>1, <1>11, <2>1, <2>2
  <1>12. CASE j > f4
    <2>1. f4 \in (c3 + 1)..y /\ f4 < j /\ f3 + p < j
      BY <1>12, <1>0
    <2>2. c4 = f4
      BY <1>2, <1>3, <2>1
    <2>3. c3 + 1 = f3 + 1 /\ c4 - 1 = f3 + p /\ f3 \in Nat
      BY <1>0, <2>2
    <2>5. Bears(h, f3, R)
      BY <1>9, <2>1
    <2>4. ParseInt(rs, -I16_MAX - 1, I16_MAX).val = signal.rssi
      BY <1>3, <1>5, <2>3, <2>5, SignalReadsBack DEF p, R
    <2> QED BY <1>3, <1>7, <2>4
  <1>13. j < f4 \/ j = f4 \/ j > f4
    BY <1>1
  <1> QED BY <1>10, <1>11, <1>12, <1>13

\* A byte of the address is lost: the data is read as it was.
LEMMA LostInAddress ==
  ASSUME NEW data \in Seq(Byte), Len(data) <= U32_MAX, NEW signal, NEW t, NEW f1, NEW f2,
         NEW f3, NEW f4, Places(t, data, signal, f1, f2, f3, f4),
         NEW h, NEW j, Gaps(h, t, j, f1, f2, f3, f4), j < f1,
         NEW e, NEW address, NEW length,
         NEW rs, NEW sn, NEW c1, NEW c2, NEW c4,
         Reading(h, e, address, length, rs, sn, c1, c2, c4)
  PROVE  e.data = data
PROOF
  <1> DEFINE L == Printed(Len(data))
             m == Len(L)
             g1 == f1 - 1
             g2 == f2 - 1
             y == Len(h)
             x == Len(t)
  <1>1. /\ f1 \in Nat /\ f2 \in Nat /\ f3 \in Nat /\ f4 \in Nat /\ x \in Nat
        /\ 1 < f1 /\ f1 + 1 < f2 /\ f2 < f3 /\ f3 + 1 < f4 /\ f4 < x
        /\ j \in 1..x /\ y = x - 1
    BY DEF Gaps
  <1>2. /\ \A i \in 1..y : IsComma(h, i) =>
             (IF i < j THEN i ELSE i + 1) \in {f1, f2, f4} \cup ((f2 + 1)..f3)
        /\ (f1 > j => IsComma(h, f1 - 1)) /\ (f2 > j => IsComma(h, f2 - 1))
    BY DEF Gaps
  <1>3. f2 = f1 + m + 1 /\ Sits(L, t, f1) /\ Sits(data, t, f2)
    BY DEF Places
  <1> HIDE DEF L
  <1>4. Bears(h, g1, L) /\ Bears(h, g2, data)
    <2>1. f1 >= j /\ f2 >= j
      BY <1>1
    <2> QED BY <1>3, <2>1, FieldMoves
  <1>5. m \in Nat
    BY <1>3, LenProperties DEF Sits
  <1> HIDE DEF m, x, y
  <1>6. g1 \in Nat /\ g2 \in Nat /\ 1 <= g1 /\ g2 = g1 + m + 1
    BY <1>1, <1>3, <1>5
  <1>7. IsComma(h, g1) /\ IsComma(h, g2)
    BY <1>1, <1>2
  <1>8. ASSUME NEW i \in 1..(g2 - 1), IsComma(h, i) PROVE i = g1
    <2>1. i \in 1..y
      BY <1>1
    <2>2. (IF i < j THEN i ELSE i + 1) \in {f1, f2, f4} \cup ((f2 + 1)..f3)
      BY <1>2, <1>8, <2>1
    <2> QED BY <1>1, <2>2
  <1> HIDE DEF g1, g2
  <1>9. (\A i \in 1..m : h[g1 + i] = L[i]) /\ (\A i \in 1..Len(data) : h[g2 + i] = data[i])
    BY <1>4 DEF Bears, m
  <1>10. ReadsLength(h, e, length, c1, c2, g1, g2, data)
    BY <1>6, <1>7, <1>8, <1>9, LengthIsRead DEF m, L
  <1> QED BY <1>9, <1>10 DEF ReadsLength

\* A byte of the data, or the comma that ends it, is lost: the line does not parse.
LEMMA LostInData ==
  ASSUME NEW data \in Seq(Byte), Len(data) <= U32_MAX, NEW signal, NEW t, NEW f1, NEW f2,
         NEW f3, NEW f4, Places(t, data, signal, f1, f2, f3, f4),
         NEW h, NEW j, Gaps(h, t, j, f1, f2, f3, f4), f2 < j, j <= f3,
         NEW e, NEW address, NEW length,
         NEW rs, NEW sn, NEW c1, NEW c2, NEW c4,
         Reading(h, e, address, length, rs, sn, c1, c2, c4)
  PROVE  FALSE
PROOF
  <1> DEFINE L == Printed(Len(data))
             m == Len(L)
             n == Len(data)
             y == Len(h)
             x == Len(t)
             v == ParseInt(length, 0, U32_MAX).val
  <1>1. /\ f1 \in Nat /\ f2 \in Nat /\ f3 \in Nat /\ f4 \in Nat /\ x \in Nat
        /\ 1 < f1 /\ f1 + 1 < f2 /\ f2 < f3 /\ f3 + 1 < f4 /\ f4 < x
        /\ j \in 1..x /\ y = x - 1
    BY DEF Gaps
  <1>2. /\ \A i \in 1..y : IsComma(h, i) =>
             (IF i < j THEN i ELSE i + 1) \in {f1, f2, f4} \cup ((f2 + 1)..f3)
        /\ (f1 < j => IsComma(h, f1)) /\ (f2 < j => IsComma(h, f2))
    BY DEF Gaps
  <1>3. f2 = f1 + m + 1 /\ f3 = f2 + n + 1 /\ Sits(L, t, f1)
    BY DEF Places
  <1> HIDE DEF L
  <1>4. m \in Nat /\ n \in Nat
    BY <1>3, LenProperties DEF Sits
  <1>5. Bears(h, f1, L)
    <2>1. f1 + m < j
      <3> HIDE DEF m
      <3> QED BY <1>1, <1>3, <1>4
    <2> QED BY <1>3, <2>1, FieldMoves
  <1> HIDE DEF m, n, x, y, v
  <1>6. f1 \in Nat /\ f2 \in Nat /\ 1 <= f1 /\ f2 = f1 + m + 1
    BY <1>1, <1>3
  <1>7. IsComma(h, f1) /\ IsComma(h, f2)
    BY <1>1, <1>2
  <1>8. ASSUME NEW i \in 1..(f2 - 1), IsComma(h, i) PROVE i = f1
    <2>1. i \in 1..y
      BY <1>1
    <2>2. (IF i < j THEN i ELSE i + 1) \in {f1, f2, f4} \cup ((f2 + 1)..f3)
      BY <1>2, <1>8, <2>1
    <2> QED BY <1>1, <2>2
  <1>9. \A i \in 1..m : h[f1 + i] = L[i]
    BY <1>5 DEF Bears, m
  <1>10. ReadsLength(h, e, length, c1, c2, f1, f2, data)
    BY <1>6, <1>7, <1>8, <1>9, LengthIsRead DEF m, L
  <1>11. c2 = f2 /\ v = n
    BY <1>10 DEF ReadsLength, v, n
  <1>12. CASE j < f3
    <2>1. c2 + v + 1 = f3 - 1
      BY <1>12, LengthLeadsToComma DEF v
    <2> QED BY <1>1, <1>3, <1>4, <1>11, <2>1
  <1>13. CASE j = f3
    <2>1. IsComma(h, c2 + v + 1)
      BY DEF Reading, v
    <2>2. c2 + v + 1 = f3 /\ f3 \in 1..y
      BY <1>1, <1>3, <1>4, <1>11
    <2>3. (IF f3 < j THEN f3 ELSE f3 + 1) \in {f1, f2, f4} \cup ((f2 + 1)..f3)
      BY <1>2, <2>1, <2>2
    <2> QED BY <1>1, <1>13, <2>3
  <1>14. j < f3 \/ j = f3
    BY <1>1
  <1> QED BY <1>12, <1>13, <1>14

\* A byte of the length is lost: the data is read as it was.
LEMMA LostInLength ==
  ASSUME NEW data \in Seq(Byte), Len(data) <= U32_MAX, NEW signal, NEW t, NEW f1, NEW f2,
         NEW f3, NEW f4, Places(t, data, signal, f1, f2, f3, f4),
         NEW h, NEW j, Gaps(h, t, j, f1, f2, f3, f4), f1 < j, j < f2,
         NEW e, NEW address, NEW length,
         NEW rs, NEW sn, NEW c1, NEW c2, NEW c4,
         Reading(h, e, address, length, rs, sn, c1, c2, c4)
  PROVE  e.data = data
PROOF
  <1> DEFINE n == Len(data)
             y == Len(h)
             x == Len(t)
             v == ParseInt(length, 0, U32_MAX).val
             g2 == f2 - 1
             d == e.data
  <1>1. /\ f1 \in Nat /\ f2 \in Nat /\ f3 \in Nat /\ f4 \in Nat /\ x \in Nat
        /\ 1 < f1 /\ f1 + 1 < f2 /\ f2 < f3 /\ f3 + 1 < f4 /\ f4 < x
        /\ j \in 1..x /\ y = x - 1
    BY DEF Gaps
  <1>2. /\ \A i \in 1..y : IsComma(h, i) =>
             (IF i < j THEN i ELSE i + 1) \in {f1, f2, f4} \cup ((f2 + 1)..f3)
        /\ (f1 < j => IsComma(h, f1)) /\ (f2 > j => IsComma(h, f2 - 1))
    BY DEF Gaps
  <1>3. f3 = f2 + n + 1 /\ Sits(data, t, f2)
    BY DEF Places
  <1>4. n \in Nat
    BY LenProperties
  <1>5. Bears(h, g2, data)
    <2>1. f2 >= j
      BY <1>1
    <2> QED BY <1>3, <2>1, FieldMoves
  <1>6. /\ c1 \in 1..y /\ c2 \in (c1 + 1)..y /\ IsComma(h, c1) /\ IsComma(h, c2)
        /\ \A i \in 1..(c2 - 1) : IsComma(h, i) => i = c1
        /\ v \in Nat /\ Piece(d, h, c2 + 1, c2 + v)
    BY DEF Reading
  <1> HIDE DEF n, x, y, v, d
  <1>7. ASSUME NEW i \in 1..(g2 - 1), IsComma(h, i) PROVE i = f1
    <2>1. i \in 1..y
      BY <1>1
    <2>2. (IF i < j THEN i ELSE i + 1) \in {f1, f2, f4} \cup ((f2 + 1)..f3)
      BY <1>2, <1>7, <2>1
    <2> QED BY <1>1, <2>2
  <1>8. c2 = g2
    <2>1. IsComma(h, f1) /\ IsComma(h, g2)
      BY <1>1, <1>2
    <2>2. c1 \in Int /\ c2 \in Int /\ 1 <= c1 /\ c1 < c2
      BY <1>1, <1>6
    <2>3. f1 \in Int /\ g2 \in Int /\ 1 <= f1 /\ f1 < g2
      BY <1>1
    <2> HIDE DEF g2
    <2> QED BY <1>6, <1>7, <2>1, <2>2, <2>3, FirstTwo
  <1>9. c2 + v + 1 = f3 - 1
    <2>1. j < f3
      BY <1>1
    <2> QED BY <2>1, LengthLeadsToComma DEF v
  <1>10. g2 \in Nat /\ v = n
    BY <1>1, <1>3, <1>4, <1>6, <1>8, <1>9
  <1>11. Piece(d, h, g2 + 1, g2 + Len(data))
    BY <1>6, <1>8, <1>10 DEF n
  <1> HIDE DEF g2
  <1>12. d = data
    BY <1>5, <1>10, <1>11, PieceIs
  <1> QED BY <1>12 DEF d

\* The comma behind the length is lost: the length read leads too far.
LEMMA LostSecondComma ==
  ASSUME NEW data \in Seq(Byte), Len(data) <= U32_MAX, NEW signal, NEW t, NEW f1, NEW f2,
         NEW f3, NEW f4, Places(t, data, signal, f1, f2, f3, f4),
         NEW h, NEW j, Gaps(h, t, j, f1, f2, f3, f4), j = f2,
         NEW e, NEW address, NEW length,
         NEW rs, NEW sn, NEW c1, NEW c2, NEW c4,
         Reading(h, e, address, length, rs, sn, c1, c2, c4)
  PROVE  FALSE
PROOF
  <1> DEFINE n == Len(data)
             L == Printed(n)
             m == Len(L)
             y == Len(h)
             x == Len(t)
             v == ParseInt(length, 0, U32_MAX).val
             max == U32_MAX
  <1>1. /\ f1 \in Nat /\ f2 \in Nat /\ f3 \in Nat /\ f4 \in Nat /\ x \in Nat
        /\ 1 < f1 /\ f1 + 1 < f2 /\ f2 < f3 /\ f3 + 1 < f4 /\ f4 < x
        /\ j \in 1..x /\ y = x - 1
    BY DEF Gaps
  <1>2. /\ \A i \in 1..y : IsComma(h, i) =>
             (IF i < j THEN i ELSE i + 1) \in {f1, f2, f4} \cup ((f2 + 1)..f3)
        /\ (f1 < j => IsComma(h, f1))
    BY DEF Gaps
  <1>3. f2 = f1 + m + 1 /\ f3 = f2 + n + 1 /\ Sits(L, t, f1)
    BY DEF Places
  <1>4. n \in Nat /\ max \in Nat /\ n <= max
    BY Limits, LenProperties
  <1> HIDE DEF L, max
  <1>5. m \in Nat
    BY <1>3, LenProperties DEF Sits
  <1>6. Bears(h, f1, L)
    <2>1. f1 + m < j
      <3> HIDE DEF m, n
      <3> QED BY <1>1, <1>3, <1>5
    <2> QED BY <1>3, <2>1, FieldMoves
  <1>7. /\ c1 \in 1..y /\ c2 \in (c1 + 1)..y /\ IsComma(h, c1) /\ IsComma(h, c2)
        /\ \A i \in 1..(c2 - 1) : IsComma(h, i) => i = c1
        /\ v \in Nat /\ Piece(length, h, c1 + 1, c2 - 1) /\ ParseInt(length, 0, max).ok
    BY DEF Reading, max
  <1>8. \A i \in 1..m : h[f1 + i] = L[i]
    BY <1>6 DEF Bears
  <1> HIDE DEF m, n, x, y, v
  <1>9. c1 = f1
    <2>1. CASE c1 < f1
      <3>1. (IF c1 < j THEN c1 ELSE c1 + 1) \in {f1, f2, f4} \cup ((f2 + 1)..f3)
        BY <1>2, <1>7
      <3> QED BY <1>1, <1>7, <2>1, <3>1
    <2>2. CASE c1 >= f1
      <3>1. f1 \in 1..(c2 - 1) /\ IsComma(h, f1)
        BY <1>1, <1>2, <1>7, <2>2
      <3> QED BY <1>7, <3>1
    <2> QED BY <1>1, <1>7, <2>1, <2>2
  <1>10. c2 >= f2
    <2> SUFFICES ASSUME c2 < f2 PROVE FALSE
      BY <1>1, <1>7
    <2>1. c2 \in 1..y
      BY <1>1, <1>7
    <2>2. (IF c2 < j THEN c2 ELSE c2 + 1) \in {f1, f2, f4} \cup ((f2 + 1)..f3)
      BY <1>2, <1>7, <2>1
    <2> QED BY <1>1, <1>7, <1>9, <2>2
  <1> DEFINE k == Len(length)
  <1>11. length \in Seq(Byte) /\ k = (c2 - 1) - (c1 + 1) + 1
         /\ \A i \in 1..((c2 - 1) - (c1 + 1) + 1) : length[i] = h[(c1 + 1) + i - 1]
    BY <1>7 DEF Piece
  <1> HIDE DEF k
  <1>12. m <= k
    BY <1>1, <1>3, <1>5, <1>7, <1>9, <1>10, <1>11
  <1>13. ASSUME NEW i \in 1..m PROVE length[i] = L[i]
    <2>1. i \in 1..((c2 - 1) - (c1 + 1) + 1) /\ (c1 + 1) + i - 1 = f1 + i
      BY <1>1, <1>3, <1>5, <1>7, <1>9, <1>10
    <2> QED BY <1>8, <1>11, <2>1
  <1>14. n \in 0..max
    BY <1>4
  <1>15. n <= v
    BY <1>4, <1>7, <1>11, <1>12, <1>13, <1>14, PrefixParse DEF m, L, k, v, max
  <1>16. c2 + v + 1 = f3 - 1
    <2>1. j < f3
      BY <1>1
    <2> QED BY <2>1, LengthLeadsToComma DEF v
  <1>17. c2 \in Int /\ v \in Int /\ n \in Int /\ f2 \in Int
    BY <1>1, <1>4, <1>7
  <1>18. f3 = f2 + n + 1
    BY <1>3
  <1> QED BY <1>10, <1>15, <1>16, <1>17, <1>18

\* The comma behind the address is lost: the digits of the length are read as digits of
\* the address, and the data up to its first comma as the length.
LEMMA LostFirstComma ==
  ASSUME NEW data \in Seq(Byte), Len(data) <= U32_MAX, NEW signal \in Signal, NEW t, NEW f1,
         NEW f2, NEW f3, NEW f4, Places(t, data, signal, f1, f2, f3, f4),
         NEW h, NEW j, Gaps(h, t, j, f1, f2, f3, f4), j = f1,
         NEW e, NEW address, NEW length,
         NEW rs, NEW sn, NEW c1, NEW c2, NEW c4,
         Reading(h, e, address, length, rs, sn, c1, c2, c4)
  PROVE  /\ e.from = Value(Decimal(signal.from) \o Decimal(Len(data)), U16_MAX)
         /\ e.data = AfterComma(data)
PROOF
  <1> DEFINE n == Len(data)
             L == Printed(n)
             m == Len(L)
             a == signal.from
             F == Printed(a)
             g == Len(F)
             y == Len(h)
             x == Len(t)
             max == U16_MAX
             v == ParseInt(length, 0, U32_MAX).val
             d == e.data
             g1 == f2 - 1
  <1>1. /\ f1 \in Nat /\ f2 \in Nat /\ f3 \in Nat /\ f4 \in Nat /\ x \in Nat
        /\ 1 < f1 /\ f1 + 1 < f2 /\ f2 < f3 /\ f3 + 1 < f4 /\ f4 < x
        /\ j \in 1..x /\ y = x - 1
    BY DEF Gaps
  <1>2. /\ \A i \in 1..y : IsComma(h, i) =>
             (IF i < j THEN i ELSE i + 1) \in {f1, f2, f4} \cup ((f2 + 1)..f3)
        /\ (f2 > j => IsComma(h, f2 - 1))
    BY DEF Gaps
  <1>3. /\ f1 = g + 1 /\ f2 = f1 + m + 1 /\ f3 = f2 + n + 1
        /\ Sits(F, t, 0) /\ Sits(L, t, f1) /\ Sits(data, t, f2)
    BY DEF Places
  <1>4. a \in 0..max /\ max \in Nat /\ n \in Nat /\ n \in 0..U32_MAX
    <2>1. a \in 0..max /\ max \in Nat
      BY Limits, RcvParts
    <2>2. n \in Nat /\ n <= U32_MAX /\ U32_MAX \in Nat
      BY Limits, LenProperties
    <2> DEFINE most == U32_MAX
    <2> HIDE DEF n, most, a, max
    <2>3. n \in 0..most
      BY <2>2 DEF most
    <2> QED BY <2>1, <2>2, <2>3 DEF most
  <1>5. F = Decimal(a) /\ L = Decimal(n)
    BY <1>4, Limits, NaturalText
  <1>6. F \in Seq(Digit) /\ F # <<>> /\ L \in Seq(Digit)
    <2>1. a \in Nat
      BY <1>4
    <2> HIDE DEF a, n, F, L
    <2> QED BY <1>4, <1>5, <2>1, DecimalFacts
  <1> HIDE DEF F, L, a, max
  <1>7. m \in Nat /\ g \in Nat \ {0}
    BY <1>6, EmptySeq, LenProperties
  <1>8. Bears(h, 0, F) /\ Bears(h, f1 - 1, L) /\ Bears(h, g1, data)
    <2>1. 0 + g < j /\ f1 >= j /\ f2 >= j
      <3> HIDE DEF m, n, g
      <3> QED BY <1>1, <1>3, <1>7
    <2> QED BY <1>3, <2>1, FieldMoves
  <1>9. /\ c1 \in 1..y /\ c2 \in (c1 + 1)..y /\ IsComma(h, c1) /\ IsComma(h, c2)
        /\ \A i \in 1..(c2 - 1) : IsComma(h, i) => i = c1
        /\ Piece(address, h, 1, c1 - 1) /\ ParseInt(address, 0, max).ok
        /\ e.from = ParseInt(address, 0, max).val /\ v \in Nat /\ Piece(d, h, c2 + 1, c2 + v)
    BY DEF Reading, max
  <1>10. c2 + v + 1 = f3 - 1
    <2>1. j < f3
      BY <1>1
    <2> QED BY <2>1, LengthLeadsToComma
  <1>11. /\ \A i \in 1..g : h[0 + i] = F[i]
         /\ \A i \in 1..m : h[f1 - 1 + i] = L[i]
         /\ \A i \in 1..n : h[g1 + i] = data[i]
    BY <1>8 DEF Bears
  <1> HIDE DEF m, n, g, x, y, v, d
  <1>12. c1 = g1
    <2>1. CASE c1 < g1
      <3>1. (IF c1 < j THEN c1 ELSE c1 + 1) \in {f1, f2, f4} \cup ((f2 + 1)..f3)
        BY <1>2, <1>9
      <3> QED BY <1>1, <1>9, <2>1, <3>1
    <2>2. CASE c1 >= g1
      <3>1. g1 \in 1..(c2 - 1) /\ IsComma(h, g1)
        BY <1>1, <1>2, <1>9, <2>2
      <3> HIDE DEF g1
      <3> QED BY <1>9, <3>1
    <2> QED BY <1>1, <1>9, <2>1, <2>2
  <1>13. e.from = Value(F \o L, max)
    <2> DEFINE s == F \o L
    <2>1. /\ s \in Seq(Digit) /\ Len(s) = g + m
          /\ \A i \in 1..(g + m) : s[i] = IF i <= g THEN F[i] ELSE L[i - g]
      BY <1>6, ConcatProperties DEF g, m
    <2>2. s \in Seq(Byte) /\ \A i \in 1..Len(s) : s[i] \in Digit
      BY <2>1, DigitBytes, SeqMonotonic, ElementOfSeq
    <2> HIDE DEF s
    <2>3. ASSUME NEW i \in 1..Len(s) PROVE h[0 + i] = s[i]
      <3>1. CASE i <= g
        <4>1. i \in 1..g /\ i \in 1..(g + m)
          BY <1>7, <2>1, <3>1
        <4> QED BY <1>11, <2>1, <3>1, <4>1
      <3>2. CASE ~(i <= g)
        <4>1. i - g \in 1..m /\ i \in 1..(g + m) /\ f1 - 1 + (i - g) = 0 + i
          BY <1>1, <1>3, <1>7, <2>1, <3>2
        <4> QED BY <1>11, <2>1, <3>2, <4>1
      <3> QED BY <3>1, <3>2
    <2>4. 1 = 0 + 1 /\ c1 - 1 = 0 + Len(s) /\ 1 \in 1..Len(s)
      BY <1>1, <1>3, <1>7, <1>12, <2>1
    <2>5. address = s
      <3>1. Bears(h, 0, s)
        BY <2>3 DEF Bears
      <3> QED BY <1>9, <2>2, <2>4, <3>1, PieceIs
    <2>6. s # <<>> /\ s[1] \in Digit
      <3>1. Len(s) # 0
        BY <1>7, <2>1
      <3> QED BY <2>2, <2>4, <3>1, EmptySeq
    <2>7. ParseInt(s, 0, max).val = Value(s, max)
      BY <1>4, <1>9, <2>2, <2>5, <2>6, DigitsParse
    <2> QED BY <1>9, <2>5, <2>7 DEF s
  <1> DEFINE p == c2 - g1
             s == AfterComma(data)
             comma == ","
  <1>14. p \in 1..n /\ v = n - p /\ g1 + p = c2
    <2>1. f2 \in Nat /\ c2 \in Int /\ n \in Nat /\ v \in Nat
      BY <1>1, <1>4, <1>9 DEF n
    <2>2. c1 = f2 - 1 /\ c2 >= c1 + 1
      BY <1>9, <1>12
    <2>3. f3 = f2 + n + 1 /\ c2 + v + 1 = f3 - 1
      BY <1>3, <1>10
    <2>4. c2 - (f2 - 1) \in 1..n /\ v = n - (c2 - (f2 - 1)) /\ (f2 - 1) + (c2 - (f2 - 1)) = c2
      BY <2>1, <2>2, <2>3
    <2> QED BY <2>4 DEF p, g1
  <1>15. data[p] = comma /\ \A i \in 1..(p - 1) : data[i] # comma
    <2>1. data[p] = comma
      BY <1>9, <1>11, <1>14 DEF IsComma
    <2>2. ASSUME NEW i \in 1..(p - 1) PROVE data[i] # comma
      <3>1. g1 \in Nat /\ n \in Nat /\ c1 = g1
        BY <1>1, <1>4, <1>12 DEF n
      <3> HIDE DEF g1
      <3>2. i \in 1..n /\ g1 + i \in 1..(c2 - 1) /\ g1 + i # c1
        BY <1>14, <3>1
      <3>3. ~IsComma(h, g1 + i)
        BY <1>9, <3>2
      <3> QED BY <1>11, <3>2, <3>3 DEF IsComma
    <2> QED BY <2>1, <2>2
  <1> HIDE DEF p
  <1>16. HasComma(data) /\ Comma(data) = p
    <2>1. Comma(data) = p
      BY <1>14, <1>15, CommaFacts DEF n, comma
    <2>2. p # 0
      BY <1>14
    <2> QED BY <2>1, <2>2 DEF HasComma
  <1>17. Piece(s, data, p + 1, n)
    BY <1>16, CommaPieces DEF n
  <1>18. s \in Seq(Byte) /\ Len(s) = n - (p + 1) + 1
         /\ \A i \in 1..(n - (p + 1) + 1) : s[i] = data[(p + 1) + i - 1]
    BY <1>17 DEF Piece
  <1> HIDE DEF s, comma
  <1>19. Len(s) = v /\ \A i \in 1..v : s[i] = data[p + i]
    <2>1. n \in Nat /\ n - (p + 1) + 1 = v
      BY <1>4, <1>14 DEF n
    <2>2. \A i \in 1..v : (p + 1) + i - 1 = p + i
      BY <1>14
    <2> QED BY <1>18, <2>1, <2>2
  <1>20. Bears(h, c2, s)
    <2>1. ASSUME NEW i \in 1..v PROVE h[c2 + i] = s[i]
      <3>1. p + i \in 1..n /\ g1 + (p + i) = c2 + i
        <4>1. n \in Nat /\ v \in Nat /\ g1 \in Nat /\ c2 \in Int
          BY <1>1, <1>4, <1>9 DEF n
        <4> HIDE DEF g1
        <4> QED BY <1>14, <4>1
      <3> QED BY <1>11, <1>19, <3>1
    <2> QED BY <1>19, <2>1 DEF Bears
  <1>21. c2 \in Nat /\ c2 + v = c2 + Len(s)
    BY <1>1, <1>9, <1>19
  <1>22. d = s
    BY <1>9, <1>18, <1>20, <1>21, PieceIs
  <1> QED BY <1>5, <1>13, <1>22 DEF s, d, a, max, n

\* What is read of a text whose j-th byte is lost: see Misread.
ReadsDamaged(e, data, signal) ==
  \/ e.data = data /\ e.rssi = signal.rssi /\ e.snr = signal.snr
  \/ /\ e.from = Value(Decimal(signal.from) \o Decimal(Len(data)), U16_MAX)
     /\ e.data = AfterComma(data) /\ e.rssi = signal.rssi /\ e.snr = signal.snr
  \/ /\ e.data = data /\ e.from = signal.from
     /\ e.rssi = signal.rssi \/ e.snr = signal.snr

LEMMA LostByte ==
  ASSUME NEW data \in Seq(Byte), Len(data) <= U32_MAX, NEW signal \in Signal,
         NEW h, NEW j, Without(h, RcvText(data, signal), j),
         NEW e, NEW address, NEW length,
         NEW rs, NEW sn, NEW c1, NEW c2, NEW c4,
         Reading(h, e, address, length, rs, sn, c1, c2, c4)
  PROVE  ReadsDamaged(e, data, signal)
PROOF
  <1> DEFINE t == RcvText(data, signal)
  <1>1. PICK f1, f2, f3, f4 : Places(t, data, signal, f1, f2, f3, f4)
    BY PlacesFacts
  <1> HIDE DEF t
  <1>2. Gaps(h, t, j, f1, f2, f3, f4)
    BY <1>1, GapsFacts DEF t
  <1>3. /\ f1 \in Nat /\ f2 \in Nat /\ f3 \in Nat /\ j \in Nat /\ f1 < f2 /\ f2 < f3
    BY <1>2 DEF Gaps
  <1>4. ASSUME j < f3 PROVE e.rssi = signal.rssi /\ e.snr = signal.snr
    BY <1>1, <1>2, <1>4, SignalMoves
  <1>5. CASE j < f1
    <2>1. e.data = data
      BY <1>1, <1>2, <1>5, LostInAddress
    <2>2. j < f3
      BY <1>3, <1>5
    <2> QED BY <1>4, <2>1, <2>2 DEF ReadsDamaged
  <1>6. CASE j = f1
    <2>1. /\ e.from = Value(Decimal(signal.from) \o Decimal(Len(data)), U16_MAX)
          /\ e.data = AfterComma(data)
      BY <1>1, <1>2, <1>6, LostFirstComma
    <2>2. j < f3
      BY <1>3, <1>6
    <2> QED BY <1>4, <2>1, <2>2 DEF ReadsDamaged
  <1>7. CASE f1 < j /\ j < f2
    <2>1. e.data = data
      BY <1>1, <1>2, <1>7, LostInLength
    <2>2. j < f3
      BY <1>3, <1>7
    <2> QED BY <1>4, <2>1, <2>2 DEF ReadsDamaged
  <1>8. ~(j = f2)
    BY <1>1, <1>2, LostSecondComma
  <1>9. ~(f2 < j /\ j <= f3)
    BY <1>1, <1>2, LostInData
  <1>10. CASE f3 < j
    <2>1. /\ e.data = data /\ e.from = signal.from
          /\ e.rssi = signal.rssi \/ e.snr = signal.snr
      BY <1>1, <1>2, <1>10, LostInSignal
    <2> QED BY <2>1 DEF ReadsDamaged
  <1>11. j < f1 \/ j = f1 \/ (f1 < j /\ j < f2) \/ j = f2 \/ (f2 < j /\ j <= f3) \/ f3 < j
    BY <1>3
  <1> QED BY <1>5, <1>6, <1>7, <1>8, <1>9, <1>10, <1>11

\* A text with the LF of its line behind it, where the CR is lost, does not parse.
LEMMA ReadFurther ==
  ASSUME NEW data \in Seq(Byte), Len(data) <= U32_MAX, NEW signal \in Signal,
         NEW h, \A i \in 1..Len(RcvText(data, signal)) : h[i] = RcvText(data, signal)[i],
         Len(h) \in Nat, Len(h) > Len(RcvText(data, signal)),
         h[Len(RcvText(data, signal)) + 1] = "LF",
         NEW e, NEW address, NEW length,
         NEW rs, NEW sn, NEW c1, NEW c2, NEW c4,
         Reading(h, e, address, length, rs, sn, c1, c2, c4)
  PROVE  FALSE
PROOF
  <1> DEFINE t == RcvText(data, signal)
             x == Len(t)
             y == Len(h)
             v == ParseInt(length, 0, U32_MAX).val
             c3 == c2 + v + 1
             lf == "LF"
  <1>1. PICK f1, f2, f3, f4 : Places(t, data, signal, f1, f2, f3, f4)
    BY PlacesFacts
  <1>2. (\A i \in 1..x : h[i] = t[i]) /\ y \in Nat /\ y > x /\ h[x + 1] = lf
    OBVIOUS
  <1> HIDE DEF t, lf
  <1>3. /\ f3 \in Nat /\ f4 \in Nat /\ f4 > f3 + 1 /\ x > f4 /\ t \in Seq(Byte)
        /\ IsComma(t, f4) /\ f3 = f2 + Len(data) + 1
    BY <1>1 DEF Places
  <1>4. x \in Nat
    BY <1>3, LenProperties
  <1> HIDE DEF x
  <1>5. \A i \in 1..f3 : i \in 1..x
    BY <1>3, <1>4
  <1>6. \A i \in 1..f3 : h[i] = t[i]
    BY <1>2, <1>5
  <1>7. ReadsUpToData(e, length, c2, f2, data, signal)
    BY <1>1, <1>6, WholeUpToData
  <1>8. c3 = f3
    BY <1>3, <1>7 DEF ReadsUpToData
  <1>9. /\ c4 \in (c3 + 1)..y /\ \A i \in (c3 + 1)..y : IsComma(h, i) => i = c4
        /\ Piece(sn, h, c4 + 1, y) /\ ParseInt(sn, -I16_MAX - 1, I16_MAX).ok
    BY DEF Reading
  <1> HIDE DEF c3, y
  <1>10. f4 \in (c3 + 1)..y /\ f4 \in 1..x
    BY <1>2, <1>3, <1>4, <1>8
  <1>11. c4 = f4
    <2>1. IsComma(h, f4)
      BY <1>2, <1>3, <1>10 DEF IsComma
    <2> QED BY <1>9, <1>10, <2>1
  <1> DEFINE i == x + 1 - f4
  <1>12. i \in 1..(y - (c4 + 1) + 1) /\ (c4 + 1) + i - 1 = x + 1
    BY <1>2, <1>3, <1>4, <1>11
  <1> HIDE DEF i
  <1>13. sn \in Seq(Byte) /\ Len(sn) = y - (c4 + 1) + 1 /\ sn[i] = h[(c4 + 1) + i - 1]
    BY <1>9, <1>12 DEF Piece
  <1>14. sn[i] # lf
    BY <1>9, <1>12, <1>13, NoCommaInInt DEF lf
  <1> QED BY <1>2, <1>12, <1>13, <1>14

-----------------------------------------------------------------------------
(* A stream that lost a byte                                               *)

LEMMA RemoveIs ==
  ASSUME NEW s \in Seq(Byte), NEW i \in 1..Len(s)
  PROVE  Without(RemoveAt(s, i), s, i)
PROOF
  <1> DEFINE n == Len(s)
             u == SubSeq(s, 1, i - 1)
             v == SubSeq(s, i + 1, n)
             h == u \o v
  <1>1. n \in Nat /\ i \in 1..n
    BY LenProperties
  <1>2. Piece(u, s, 1, i - 1) /\ Piece(v, s, i + 1, n)
    <2>1. 1 \in 1..(n + 1) /\ i - 1 \in (1 - 1)..n /\ i + 1 \in 1..(n + 1)
          /\ n \in ((i + 1) - 1)..n
      BY <1>1
    <2> QED BY <2>1, PieceFacts
  <1> HIDE DEF n, u, v
  <1>3. /\ u \in Seq(Byte) /\ Len(u) = (i - 1) - 1 + 1
        /\ \A k \in 1..((i - 1) - 1 + 1) : u[k] = s[1 + k - 1]
        /\ v \in Seq(Byte) /\ Len(v) = n - (i + 1) + 1
        /\ \A k \in 1..(n - (i + 1) + 1) : v[k] = s[(i + 1) + k - 1]
    BY <1>2 DEF Piece
  <1>4. Len(u) = i - 1 /\ Len(v) = n - i
    BY <1>1, <1>3
  <1>5. h \in Seq(Byte) /\ Len(h) = Len(u) + Len(v)
        /\ \A k \in 1..(Len(u) + Len(v)) : h[k] = IF k <= Len(u) THEN u[k] ELSE v[k - Len(u)]
    BY <1>3, ConcatProperties
  <1> HIDE DEF h
  <1>6. Len(h) = n - 1 /\ \A k \in 1..(n - 1) : h[k] = IF k <= i - 1 THEN u[k] ELSE v[k - (i - 1)]
    <2>1. (i - 1) + (n - i) = n - 1
      BY <1>1
    <2> QED BY <1>4, <1>5, <2>1
  <1>7. ASSUME NEW k \in 1..(i - 1) PROVE h[k] = s[k]
    <2>1. k \in 1..(n - 1) /\ k <= i - 1 /\ k \in 1..((i - 1) - 1 + 1) /\ 1 + k - 1 = k
      BY <1>1
    <2> QED BY <1>3, <1>6, <2>1
  <1>8. ASSUME NEW k \in i..(n - 1) PROVE h[k] = s[k + 1]
    <2>1. k \in 1..(n - 1) /\ ~(k <= i - 1) /\ k - (i - 1) \in 1..(n - (i + 1) + 1)
          /\ (i + 1) + (k - (i - 1)) - 1 = k + 1
      BY <1>1
    <2>2. h[k] = v[k - (i - 1)]
      BY <1>6, <2>1
    <2>3. v[k - (i - 1)] = s[(i + 1) + (k - (i - 1)) - 1]
      BY <1>3, <2>1
    <2> QED BY <2>1, <2>2, <2>3
  <1>9. RemoveAt(s, i) = h
    BY DEF RemoveAt, h, u, v, n
  <1>10. Without(h, s, i)
    BY <1>1, <1>5, <1>6, <1>7, <1>8 DEF Without, n
  <1> QED BY <1>9, <1>10

\* A byte lost behind the bytes of u.
LEMMA LostBehind ==
  ASSUME NEW u \in Seq(Byte), NEW v, NEW w, NEW i, Without(v, w, i)
  PROVE  Without(u \o v, u \o w, Len(u) + i)
PROOF
  <1> DEFINE m == Len(u)
             n == Len(w)
             x == u \o v
             y == u \o w
             p == m + i
  <1>1. /\ v \in Seq(Byte) /\ w \in Seq(Byte) /\ i \in 1..n /\ Len(v) = n - 1
        /\ \A k \in 1..(i - 1) : v[k] = w[k]
        /\ \A k \in i..(n - 1) : v[k] = w[k + 1]
    BY DEF Without
  <1>2. m \in Nat /\ n \in Nat
    BY <1>1, LenProperties
  <1>3. x \in Seq(Byte) /\ Len(x) = m + Len(v)
        /\ \A k \in 1..(m + Len(v)) : x[k] = IF k <= m THEN u[k] ELSE v[k - m]
    BY <1>1, ConcatProperties
  <1>4. y \in Seq(Byte) /\ Len(y) = m + n
        /\ \A k \in 1..(m + n) : y[k] = IF k <= m THEN u[k] ELSE w[k - m]
    BY <1>1, ConcatProperties
  <1> HIDE DEF m, n, x, y
  <1>5. p \in 1..(m + n) /\ Len(x) = (m + n) - 1 /\ (m + n) - 1 = m + (n - 1)
    BY <1>1, <1>2, <1>3
  <1>6. ASSUME NEW k \in 1..(p - 1) PROVE x[k] = y[k]
    <2>1. k \in 1..(m + (n - 1)) /\ k \in 1..(m + n) /\ (~(k <= m) => k - m \in 1..(i - 1))
      BY <1>1, <1>2
    <2> QED BY <1>1, <1>3, <1>4, <2>1
  <1>7. ASSUME NEW k \in p..((m + n) - 1) PROVE x[k] = y[k + 1]
    <2>1. k \in 1..(m + (n - 1)) /\ k + 1 \in 1..(m + n) /\ ~(k <= m) /\ ~(k + 1 <= m)
          /\ k - m \in i..(n - 1) /\ (k - m) + 1 = (k + 1) - m
      BY <1>1, <1>2
    <2>2. x[k] = v[k - m] /\ y[k + 1] = w[(k + 1) - m]
      BY <1>1, <1>3, <1>4, <2>1
    <2>3. v[k - m] = w[(k - m) + 1]
      BY <1>1, <2>1
    <2> QED BY <2>1, <2>2, <2>3
  <1> HIDE DEF p
  <1>8. Without(x, y, p)
    BY <1>3, <1>4, <1>5, <1>6, <1>7 DEF Without
  <1> QED BY <1>8 DEF x, y, p, m

\* Line d of the stream lost its j-th byte.
Shortened(stream, lines, ls, d, j) ==
  /\ Framed(stream, ls) /\ Len(ls) = Len(lines) /\ d \in 1..Len(lines)
  /\ Without(ls[d], lines[d], j)
  /\ \A k \in 1..Len(lines) : k # d => ls[k] = lines[k]

LEMMA FramedRemove ==
  ASSUME NEW stream, NEW lines, Framed(stream, lines), NEW short, NEW p,
         Without(short, stream, p)
  PROVE  \E ls, d, j : Shortened(short, lines, ls, d, j)
PROOF
  <1> DEFINE m == Len(stream)
             n == Len(lines)
  <1>1. stream \in Seq(Byte) /\ lines \in Seq(Seq(Byte)) /\ m \in Nat /\ n \in Nat
    BY LenProperties DEF Framed
  <1>2. PICK cut : CutAt(cut, stream, lines)
    BY DEF Framed
  <1>3. /\ cut \in [0..n -> 0..m] /\ cut[0] = 0 /\ cut[n] = m
        /\ \A j, k \in 0..n : j <= k => cut[j] <= cut[k]
        /\ \A k \in 1..n : /\ cut[k] = cut[k - 1] + Len(lines[k])
                           /\ \A i \in 1..Len(lines[k]) : stream[cut[k - 1] + i] = lines[k][i]
    BY <1>2 DEF CutAt
  <1>4. /\ short \in Seq(Byte) /\ p \in 1..m /\ Len(short) = m - 1
        /\ \A i \in 1..(p - 1) : short[i] = stream[i]
        /\ \A i \in p..(m - 1) : short[i] = stream[i + 1]
    BY DEF Without
  <1> DEFINE T == {k \in 0..n : p <= cut[k]}
  <1>5. T \in SUBSET Nat /\ T # {}
    <2>1. n \in 0..n /\ p <= m
      BY <1>1, <1>4
    <2>2. n \in T
      BY <1>3, <2>1
    <2>3. 0..n \subseteq Nat
      BY <1>1
    <2> QED BY <2>2, <2>3
  <1> HIDE DEF T
  <1>6. PICK d \in T : \A k \in T : d <= k
    BY <1>5, LeastNat
  <1>7. d \in 1..n /\ p <= cut[d] /\ d \in 0..n
    <2>1. d \in 0..n /\ p <= cut[d]
      BY DEF T
    <2>2. d # 0
      <3> SUFFICES ASSUME d = 0 PROVE FALSE
        OBVIOUS
      <3>1. p <= 0
        BY <1>3, <2>1
      <3> QED BY <1>4, <3>1
    <2> QED BY <1>1, <2>1, <2>2
  <1> HIDE DEF m, n
  <1>8. \A k \in 0..n : cut[k] \in 0..m
    BY <1>3
  <1>9. ASSUME NEW k \in 0..n, k < d PROVE cut[k] < p
    <2>1. ~(d <= k)
      BY <1>1, <1>7, <1>9
    <2>2. ~(p <= cut[k])
      BY <1>6, <2>1 DEF T
    <2>3. cut[k] \in 0..m
      BY <1>8
    <2> DEFINE x == cut[k]
    <2> HIDE DEF x
    <2>4. x < p
      BY <1>1, <1>4, <2>2, <2>3 DEF x
    <2> QED BY <2>4 DEF x
  <1>10. ASSUME NEW k \in 0..n, k >= d PROVE p <= cut[k]
    <2>1. d <= k
      BY <1>7, <1>10
    <2>2. cut[d] <= cut[k] /\ cut[d] \in 0..m /\ cut[k] \in 0..m
      BY <1>3, <1>7, <1>8, <2>1
    <2> DEFINE x == cut[k]
               y == cut[d]
    <2> HIDE DEF x, y
    <2>3. p <= x
      BY <1>1, <1>4, <1>7, <2>2 DEF x, y
    <2> QED BY <2>3 DEF x
  <1> DEFINE c == cut[d - 1]
             z == Len(lines[d])
             j == p - c
             l == RemoveAt(lines[d], j)
             ls == [lines EXCEPT ![d] = l]
  <1>11. lines[d] \in Seq(Byte) /\ z \in Nat
    BY <1>1, <1>7, ElementOfSeq, LenProperties DEF n
  <1>12. /\ d - 1 \in 0..n /\ d - 1 < d /\ c \in 0..m /\ c < p /\ cut[d] = c + z
         /\ \A i \in 1..z : stream[c + i] = lines[d][i]
    <2>1. d - 1 \in 0..n /\ d - 1 < d
      BY <1>1, <1>7
    <2>2. c \in 0..m /\ c < p
      BY <1>8, <1>9, <2>1
    <2> QED BY <1>3, <1>7, <2>1, <2>2
  <1> HIDE DEF c, z
  <1>13. j \in 1..z /\ c + j = p
    <2>1. p \in Nat /\ z \in Nat /\ c \in Nat /\ c < p /\ p <= c + z
      BY <1>4, <1>7, <1>11, <1>12
    <2> QED BY <2>1
  <1>14. Without(l, lines[d], j)
    <2> HIDE DEF j
    <2> QED BY <1>11, <1>13, RemoveIs DEF z
  <1> HIDE DEF j, l
  <1>15. /\ l \in Seq(Byte) /\ Len(l) = z - 1
         /\ \A i \in 1..(j - 1) : l[i] = lines[d][i]
         /\ \A i \in j..(z - 1) : l[i] = lines[d][i + 1]
    BY <1>14 DEF Without, z
  <1>16. /\ ls \in Seq(Seq(Byte)) /\ Len(ls) = n /\ ls[d] = l
         /\ \A k \in 1..n : k # d => ls[k] = lines[k]
    <2>1. ls \in Seq(Seq(Byte)) /\ Len(ls) = Len(lines)
          /\ \A k \in 1..Len(lines) : ls[k] = IF k = d THEN l ELSE lines[k]
      BY <1>1, <1>7, <1>15, ExceptSeq DEF n
    <2> QED BY <1>7, <2>1 DEF n
  <1> HIDE DEF ls
  <1> DEFINE new == [k \in 0..n |-> IF k < d THEN cut[k] ELSE cut[k] - 1]
  <1>17. ASSUME NEW k \in 0..n
         PROVE  /\ k < d => new[k] = cut[k]
                /\ ~(k < d) => new[k] = cut[k] - 1
    OBVIOUS
  <1>18. new \in [0..n -> 0..(m - 1)]
    <2>1. ASSUME NEW k \in 0..n PROVE (IF k < d THEN cut[k] ELSE cut[k] - 1) \in 0..(m - 1)
      <3> DEFINE x == cut[k]
      <3>1. x \in 0..m /\ (k < d => x < p) /\ (k >= d => p <= x)
        BY <1>8, <1>9, <1>10
      <3> HIDE DEF x
      <3>2. (IF k < d THEN x ELSE x - 1) \in 0..(m - 1)
        BY <1>1, <1>4, <1>7, <3>1
      <3> QED BY <3>2 DEF x
    <2> QED BY <2>1
  <1> HIDE DEF new
  <1>19. new[0] = 0 /\ new[n] = m - 1
    <2>1. 0 \in 0..n /\ n \in 0..n /\ 0 < d /\ ~(n < d)
      BY <1>1, <1>7
    <2> QED BY <1>3, <1>17, <2>1
  <1>20. ASSUME NEW a \in 0..n, NEW b \in 0..n, a <= b PROVE new[a] <= new[b]
    <2> DEFINE x == cut[a]
               y == cut[b]
    <2>1. /\ x \in 0..m /\ (a < d => x < p) /\ y \in 0..m /\ (b >= d => p <= y) /\ x <= y
      BY <1>3, <1>8, <1>9, <1>10, <1>20
    <2>2. /\ new[a] = IF a < d THEN x ELSE x - 1
          /\ new[b] = IF b < d THEN y ELSE y - 1
      BY <1>17
    <2> HIDE DEF x, y
    <2>3. (IF a < d THEN x ELSE x - 1) <= (IF b < d THEN y ELSE y - 1)
      BY <1>1, <1>4, <1>7, <1>20, <2>1
    <2> QED BY <2>2, <2>3
  <1>21. ASSUME NEW k \in 1..n
         PROVE  /\ new[k] = new[k - 1] + Len(ls[k])
                /\ \A i \in 1..Len(ls[k]) : short[new[k - 1] + i] = ls[k][i]
    <2> DEFINE x == cut[k - 1]
               y == cut[k]
               e == Len(lines[k])
    <2>1. k \in 0..n /\ k - 1 \in 0..n
      BY <1>1
    <2>2. e \in Nat
      BY <1>1, ElementOfSeq, LenProperties DEF n
    <2>3. /\ y = x + e /\ x \in 0..m /\ y \in 0..m /\ (k - 1 < d => x < p) /\ (k - 1 >= d => p <= x)
          /\ (k < d => y < p) /\ (k >= d => p <= y)
          /\ \A i \in 1..e : stream[x + i] = lines[k][i]
      BY <1>3, <1>8, <1>9, <1>10, <2>1
    <2>4. /\ (k - 1 < d => new[k - 1] = x) /\ (~(k - 1 < d) => new[k - 1] = x - 1)
          /\ (k < d => new[k] = y) /\ (~(k < d) => new[k] = y - 1)
      BY <1>17, <2>1
    <2>5. CASE k < d
      <3>1. k # d /\ k - 1 < d
        BY <1>7, <2>5
      <3>2. new[k - 1] = x /\ new[k] = y /\ ls[k] = lines[k]
        BY <1>16, <2>4, <2>5, <3>1
      <3> HIDE DEF x, y, e
      <3>3. ASSUME NEW i \in 1..e PROVE short[x + i] = lines[k][i]
        <4>1. x + i \in 1..(p - 1)
          BY <1>1, <1>4, <2>2, <2>3, <2>5
        <4>2. short[x + i] = stream[x + i]
          BY <1>4, <4>1
        <4> QED BY <2>3, <4>2
      <3> QED BY <2>3, <3>2, <3>3 DEF e
    <2>6. CASE k > d
      <3>1. k # d /\ ~(k - 1 < d) /\ ~(k < d)
        BY <1>7, <2>6
      <3>2. new[k - 1] = x - 1 /\ new[k] = y - 1 /\ ls[k] = lines[k]
        BY <1>16, <2>4, <3>1
      <3> HIDE DEF x, y, e
      <3>3. y - 1 = (x - 1) + e
        BY <1>1, <2>2, <2>3
      <3>4. ASSUME NEW i \in 1..e PROVE short[(x - 1) + i] = lines[k][i]
        <4>1. k - 1 >= d
          BY <1>7, <3>1
        <4>2. (x - 1) + i \in p..(m - 1) /\ ((x - 1) + i) + 1 = x + i
          BY <1>1, <1>4, <2>2, <2>3, <4>1
        <4>3. short[(x - 1) + i] = stream[x + i]
          BY <1>4, <4>2
        <4> QED BY <2>3, <4>3
      <3> QED BY <3>2, <3>3, <3>4 DEF e
    <2>7. CASE k = d
      <3>1. k - 1 < d /\ ~(k < d)
        BY <1>7, <2>7
      <3>2. new[k - 1] = c /\ new[k] = y - 1 /\ ls[k] = l /\ x = c /\ y = c + z /\ c \in 0..m
            /\ e = z
        BY <1>12, <1>16, <2>4, <2>7, <3>1 DEF c, z
      <3> HIDE DEF x, y, e
      <3>3. y - 1 = c + (z - 1)
        BY <1>1, <1>11, <3>2
      <3>4. ASSUME NEW i \in 1..(z - 1) PROVE short[c + i] = l[i]
        <4>1. CASE i < j
          <5>1. c + i \in 1..(p - 1) /\ i \in 1..(j - 1) /\ i \in 1..z
            BY <1>1, <1>4, <1>11, <1>13, <3>2, <4>1
          <5>2. short[c + i] = stream[c + i] /\ l[i] = lines[d][i]
            BY <1>4, <1>15, <5>1
          <5> QED BY <1>12, <5>1, <5>2
        <4>2. CASE ~(i < j)
          <5>1. c + i \in p..(m - 1) /\ i \in j..(z - 1) /\ i + 1 \in 1..z
                /\ (c + i) + 1 = c + (i + 1)
            BY <1>1, <1>4, <1>11, <1>13, <2>3, <3>2, <4>2
          <5>2. short[c + i] = stream[c + (i + 1)] /\ l[i] = lines[d][i + 1]
            BY <1>4, <1>15, <5>1
          <5> QED BY <1>12, <5>1, <5>2
        <4> QED BY <4>1, <4>2
      <3>5. Len(ls[k]) = z - 1
        BY <1>15, <3>2
      <3>6. new[k] = new[k - 1] + Len(ls[k])
        BY <3>2, <3>3, <3>5
      <3> QED BY <3>2, <3>4, <3>5, <3>6
    <2>8. k < d \/ k > d \/ k = d
      BY <1>1, <1>7
    <2> QED BY <2>5, <2>6, <2>7, <2>8
  <1>22. CutAt(new, short, ls)
    BY <1>4, <1>16, <1>18, <1>19, <1>20, <1>21 DEF CutAt
  <1>23. Framed(short, ls)
    BY <1>4, <1>16, <1>22 DEF Framed
  <1>24. Shortened(short, lines, ls, d, j)
    BY <1>7, <1>14, <1>16, <1>23 DEF Shortened, n
  <1> QED BY <1>24

\* The first two lines of a stream taken as one.
Merged(stream, lines, ls) ==
  /\ Framed(stream, ls) /\ Len(ls) = Len(lines) - 1 /\ ls[1] = lines[1] \o lines[2]
  /\ \A k \in 2..(Len(lines) - 1) : ls[k] = lines[k + 1]

LEMMA FramedMerge ==
  ASSUME NEW stream, NEW lines, Framed(stream, lines), Len(lines) >= 2
  PROVE  \E ls : Merged(stream, lines, ls)
PROOF
  <1> DEFINE m == Len(stream)
             n == Len(lines)
             u == lines[1]
             v == lines[2]
             l == u \o v
             x == Len(u)
             y == Len(v)
             ls == [Tail(lines) EXCEPT ![1] = l]
  <1>1. stream \in Seq(Byte) /\ lines \in Seq(Seq(Byte)) /\ m \in Nat /\ n \in Nat
        /\ n >= 2 /\ lines # <<>>
    <2>1. stream \in Seq(Byte) /\ lines \in Seq(Seq(Byte)) /\ m \in Nat /\ n \in Nat
      BY LenProperties DEF Framed
    <2>2. n # 0
      <3> HIDE DEF n
      <3> QED BY <2>1 DEF n
    <2> QED BY <2>1, <2>2, EmptySeq
  <1>2. PICK cut : CutAt(cut, stream, lines)
    BY DEF Framed
  <1>3. /\ cut \in [0..n -> 0..m] /\ cut[0] = 0 /\ cut[n] = m
        /\ \A j, k \in 0..n : j <= k => cut[j] <= cut[k]
        /\ \A k \in 1..n : /\ cut[k] = cut[k - 1] + Len(lines[k])
                           /\ \A i \in 1..Len(lines[k]) : stream[cut[k - 1] + i] = lines[k][i]
    BY <1>2 DEF CutAt
  <1>4. 1 \in 1..n /\ 2 \in 1..n /\ 1 \in 0..n /\ 2 \in 0..n /\ 1 - 1 = 0 /\ 2 - 1 = 1
    <2> HIDE DEF n
    <2> QED BY <1>1
  <1>5. u \in Seq(Byte) /\ v \in Seq(Byte) /\ x \in Nat /\ y \in Nat
    <2>1. u \in Seq(Byte) /\ v \in Seq(Byte)
      BY <1>1, <1>4, ElementOfSeq
    <2> QED BY <2>1, LenProperties
  <1>6. /\ cut[1] = cut[0] + x /\ cut[2] = cut[1] + y
        /\ (\A i \in 1..x : stream[cut[0] + i] = u[i])
        /\ (\A i \in 1..y : stream[cut[1] + i] = v[i])
    BY <1>3, <1>4
  <1>7. /\ l \in Seq(Byte) /\ Len(l) = x + y
        /\ \A i \in 1..(x + y) : l[i] = IF i <= x THEN u[i] ELSE v[i - x]
    BY <1>5, ConcatProperties
  <1> HIDE DEF u, v, x, y, l
  <1>8. cut[1] = x /\ cut[2] = x + y
    BY <1>3, <1>5, <1>6
  <1>9. ASSUME NEW i \in 1..(x + y) PROVE stream[0 + i] = l[i]
    <2>1. CASE i <= x
      <3>1. i \in 1..x
        BY <1>5, <2>1
      <3>2. stream[cut[0] + i] = u[i] /\ cut[0] = 0
        BY <1>3, <1>6, <3>1
      <3> QED BY <1>7, <2>1, <3>2
    <2>2. CASE ~(i <= x)
      <3>1. i - x \in 1..y /\ x + (i - x) = 0 + i
        BY <1>5, <2>2
      <3>2. stream[cut[1] + (i - x)] = v[i - x]
        BY <1>6, <3>1
      <3> QED BY <1>7, <1>8, <2>2, <3>1, <3>2
    <2> QED BY <2>1, <2>2
  <1> DEFINE ts == Tail(lines)
  <1>10. ts \in Seq(Seq(Byte)) /\ Len(ts) = n - 1 /\ \A k \in 1..(n - 1) : ts[k] = lines[k + 1]
    <2>1. /\ ts \in Seq(Seq(Byte)) /\ Len(ts) = n - 1
          /\ \A k \in 1..Len(ts) : ts[k] = lines[k + 1]
      BY <1>1, HeadTailProperties
    <2> QED BY <2>1
  <1> HIDE DEF n, m
  <1>11. /\ ls \in Seq(Seq(Byte)) /\ Len(ls) = n - 1 /\ ls[1] = l
         /\ \A k \in 2..(n - 1) : ls[k] = lines[k + 1]
    <2>1. 1 \in 1..(n - 1)
      BY <1>1
    <2> HIDE DEF ts
    <2>2. LET s == [ts EXCEPT ![1] = l]
          IN  /\ s \in Seq(Seq(Byte)) /\ Len(s) = Len(ts)
              /\ \A k \in 1..Len(ts) : s[k] = IF k = 1 THEN l ELSE ts[k]
      BY <1>7, <1>10, <2>1, ExceptSeq
    <2>3. ls = [ts EXCEPT ![1] = l]
      BY DEF ts
    <2> HIDE DEF ls
    <2>4. /\ ls \in Seq(Seq(Byte)) /\ Len(ls) = n - 1
          /\ \A k \in 1..(n - 1) : ls[k] = IF k = 1 THEN l ELSE ts[k]
      BY <1>10, <2>2, <2>3
    <2>5. \A k \in 2..(n - 1) : k \in 1..(n - 1) /\ k # 1
      BY <1>1
    <2> QED BY <1>10, <2>1, <2>4, <2>5
  <1> HIDE DEF ls, ts
  <1> DEFINE new == [k \in 0..(n - 1) |-> IF k = 0 THEN 0 ELSE cut[k + 1]]
  <1>12. \A k \in 0..n : cut[k] \in 0..m
    BY <1>3
  <1>13. ASSUME NEW k \in 0..(n - 1)
         PROVE  /\ k + 1 \in 0..n /\ (k # 0 => k + 1 \in 1..n)
                /\ new[k] = IF k = 0 THEN 0 ELSE cut[k + 1]
    BY <1>1
  <1>14. new \in [0..(n - 1) -> 0..m]
    <2>1. ASSUME NEW k \in 0..(n - 1) PROVE (IF k = 0 THEN 0 ELSE cut[k + 1]) \in 0..m
      <3>1. cut[k + 1] \in 0..m /\ 0 \in 0..m
        BY <1>1, <1>12, <1>13
      <3> QED BY <3>1
    <2> QED BY <2>1
  <1> HIDE DEF new
  <1>15. new[0] = 0 /\ new[n - 1] = m
    <2>1. 0 \in 0..(n - 1) /\ n - 1 \in 0..(n - 1) /\ n - 1 # 0 /\ (n - 1) + 1 = n
      BY <1>1
    <2> QED BY <1>3, <1>13, <2>1
  <1>16. ASSUME NEW a \in 0..(n - 1), NEW b \in 0..(n - 1), a <= b PROVE new[a] <= new[b]
    <2>1. CASE a = 0
      <3>1. new[a] = 0 /\ new[b] \in 0..m
        BY <1>13, <1>14, <2>1
      <3> QED BY <1>1, <3>1
    <2>2. CASE a # 0
      <3>1. b # 0 /\ a + 1 <= b + 1
        BY <1>1, <1>16, <2>2
      <3>2. new[a] = cut[a + 1] /\ new[b] = cut[b + 1] /\ a + 1 \in 0..n /\ b + 1 \in 0..n
        BY <1>13, <2>2, <3>1
      <3>3. cut[a + 1] <= cut[b + 1]
        BY <1>3, <3>1, <3>2
      <3> QED BY <3>2, <3>3
    <2> QED BY <2>1, <2>2
  <1>17. ASSUME NEW k \in 1..(n - 1)
         PROVE  /\ new[k] = new[k - 1] + Len(ls[k])
                /\ \A i \in 1..Len(ls[k]) : stream[new[k - 1] + i] = ls[k][i]
    <2>1. k \in 0..(n - 1) /\ k - 1 \in 0..(n - 1) /\ k # 0 /\ k + 1 \in 1..n
          /\ (k - 1) + 1 = k /\ (k + 1) - 1 = k
      BY <1>1
    <2>2. CASE k = 1
      <3>1. new[k] = cut[2] /\ new[k - 1] = 0
        <4>1. k + 1 = 2 /\ k - 1 = 0
          BY <2>2
        <4> QED BY <1>13, <2>1, <4>1
      <3>2. ls[k] = l /\ Len(ls[k]) = x + y
        BY <1>7, <1>11, <2>2
      <3>3. new[k] = 0 + (x + y)
        BY <1>5, <1>8, <3>1
      <3> QED BY <1>9, <3>1, <3>2, <3>3
    <2>3. CASE k # 1
      <3>1. k - 1 # 0 /\ k \in 2..(n - 1)
        BY <1>1, <2>3
      <3>2. new[k] = cut[k + 1] /\ new[k - 1] = cut[k]
        BY <1>13, <2>1, <3>1
      <3>3. ls[k] = lines[k + 1]
        BY <1>11, <3>1
      <3>4. /\ cut[k + 1] = cut[k] + Len(lines[k + 1])
            /\ \A i \in 1..Len(lines[k + 1]) : stream[cut[k] + i] = lines[k + 1][i]
        BY <1>3, <2>1
      <3> QED BY <3>2, <3>3, <3>4
    <2> QED BY <2>2, <2>3
  <1>18. CutAt(new, stream, ls)
    BY <1>11, <1>14, <1>15, <1>16, <1>17 DEF CutAt, m
  <1>19. Framed(stream, ls)
    BY <1>1, <1>11, <1>18 DEF Framed
  <1>20. Merged(stream, lines, ls)
    BY <1>11, <1>19 DEF Merged, n, l, u, v
  <1> QED BY <1>20

\* What follows the first line: nothing, or the second line.
LEMMA SecondLine ==
  ASSUME NEW stream, NEW lines, Framed(stream, lines), lines # <<>>
  PROVE  /\ Len(lines) = 1 => Len(stream) = Len(lines[1])
         /\ Len(lines) >= 2 /\ Len(lines[2]) >= 1 => stream[Len(lines[1]) + 1] = lines[2][1]
PROOF
  <1> DEFINE m == Len(stream)
             n == Len(lines)
             x == Len(lines[1])
             y == Len(lines[2])
  <1>1. stream \in Seq(Byte) /\ lines \in Seq(Seq(Byte)) /\ m \in Nat /\ n \in Nat \ {0}
    BY LenProperties, EmptySeq DEF Framed
  <1>2. PICK cut : CutAt(cut, stream, lines)
    BY DEF Framed
  <1>3. /\ cut[0] = 0 /\ cut[n] = m
        /\ \A k \in 1..n : /\ cut[k] = cut[k - 1] + Len(lines[k])
                           /\ \A i \in 1..Len(lines[k]) : stream[cut[k - 1] + i] = lines[k][i]
    BY <1>2 DEF CutAt
  <1> HIDE DEF n, m
  <1>4. 1 \in 1..n /\ 1 - 1 = 0
    BY <1>1
  <1>5. x \in Nat
    BY <1>1, <1>4, ElementOfSeq, LenProperties DEF n
  <1>6. cut[1] = cut[0] + x
    BY <1>3, <1>4
  <1> HIDE DEF x
  <1>7. cut[1] = x
    BY <1>3, <1>5, <1>6
  <1>8. ASSUME n >= 2, y >= 1 PROVE stream[x + 1] = lines[2][1]
    <2>1. 2 \in 1..n /\ 2 - 1 = 1
      BY <1>1, <1>8
    <2>2. y \in Nat
      BY <1>1, <2>1, ElementOfSeq, LenProperties DEF n
    <2>3. \A i \in 1..y : stream[cut[1] + i] = lines[2][i]
      BY <1>3, <2>1
    <2> HIDE DEF y
    <2>4. 1 \in 1..y
      BY <1>8, <2>2
    <2> QED BY <1>7, <2>3, <2>4
  <1>9. n = 1 => m = x
    BY <1>3, <1>7
  <1> QED BY <1>8, <1>9 DEF n, m, x, y

-----------------------------------------------------------------------------
(* Lines that lost a byte                                                  *)

\* No text starts like an event, nor with what is behind the prefix of one.
LEMMA PrintedStart ==
  ASSUME NEW n \in Int
  PROVE  Len(Printed(n)) >= 1 /\ Printed(n)[1] # "+RCV" /\ Printed(n)[1] # "="
PROOF
  <1> DEFINE m == Len(Printed(n))
  <1>1. m > 0 /\ \A i \in 1..m : Printed(n)[i] \in Digit \cup {"-"}
    BY PrintedPlain
  <1>2. m \in Nat
    <2>1. Printed(n) \in Seq(Byte)
      BY PrintedPlain DEF Plain
    <2> QED BY <2>1, LenProperties
  <1> HIDE DEF m
  <1>3. 1 \in 1..m /\ m >= 1
    BY <1>1, <1>2
  <1>4. Printed(n)[1] \in Digit \cup {"-"}
    BY <1>1, <1>3
  <1>5. "+RCV" \notin Digit /\ "=" \notin Digit
    <2>1. ASSUME NEW i \in 1..10 PROVE DIGITS[i] # "+RCV" /\ DIGITS[i] # "="
      <3>1. i \in {1, 2, 3, 4, 5, 6, 7, 8, 9, 10}
        OBVIOUS
      <3>2. DIGITS[i] \in {"0", "1", "2", "3", "4", "5", "6", "7", "8", "9"}
        BY <3>1 DEF DIGITS
      <3> QED BY <3>2
    <2> QED BY <2>1 DEF Digit
  <1>6. Printed(n)[1] # "+RCV" /\ Printed(n)[1] # "="
    BY <1>4, <1>5
  <1> QED BY <1>3, <1>6 DEF m

LEMMA TextStart ==
  ASSUME NEW data \in Seq(Byte), NEW signal \in Signal
  PROVE  Len(RcvText(data, signal)) >= 1 /\ RcvText(data, signal)[1] # "="
PROOF
  <1> DEFINE t == RcvText(data, signal)
             F == Printed(signal.from)
  <1>1. PICK f1, f2, f3, f4 : Places(t, data, signal, f1, f2, f3, f4)
    BY PlacesFacts
  <1>2. Sits(F, t, 0) /\ f4 \in Nat /\ Len(t) > f4 /\ t \in Seq(Byte)
    BY <1>1 DEF Places
  <1>3. signal.from \in Int
    <2>1. signal.from \in 0..U16_MAX /\ U16_MAX \in Nat
      BY RcvParts, Limits
    <2> QED BY <2>1
  <1>4. Len(F) >= 1 /\ F[1] # "="
    BY <1>3, PrintedStart
  <1>5. Len(F) \in Nat /\ \A i \in 1..Len(F) : t[0 + i] = F[i]
    BY <1>2, LenProperties DEF Sits
  <1>6. Len(t) \in Nat
    BY <1>2, LenProperties
  <1> HIDE DEF F, t
  <1>7. t[0 + 1] = F[1] /\ 0 + 1 = 1 /\ Len(t) >= 1
    BY <1>2, <1>4, <1>5, <1>6
  <1> QED BY <1>4, <1>7 DEF t

LEMMA AnswerStart ==
  ASSUME NEW s, IsSetting(s)
  PROVE  TextOf(s)[1] # "+RCV"
PROOF
  <1> DEFINE t == TextOf(s)
  <1>1. s.setting \in {"Address", "NetworkId", "Band", "Parameters", "Cpin"}
    BY DEF IsSetting, Setting, PrefixOf
  <1>2. ASSUME NEW max \in Nat, s.val \in 0..max, s.setting \in {"Address", "NetworkId", "Band"}
        PROVE  t[1] # "+RCV"
    <2> DEFINE n == s.val
    <2>1. t = EncodeValue(s.setting, n)
      BY <1>2 DEF TextOf
    <2>2. EncodeValue(s.setting, n) = Decimal(n)
      BY <1>2 DEF EncodeValue
    <2>3. n \in 0..max /\ n \in Int
      BY <1>2
    <2> HIDE DEF n
    <2>4. Decimal(n) = Printed(n)
      BY <2>3, NaturalText
    <2> QED BY <2>1, <2>2, <2>3, <2>4, PrintedStart
  <1>3. CASE s.setting = "Address"
    <2>1. s.val \in 0..U16_MAX
      BY <1>3 DEF IsSetting, WellTyped
    <2> QED BY <1>2, <1>3, <2>1, Limits
  <1>4. CASE s.setting = "NetworkId"
    <2>1. s.val \in 0..U8_MAX
      BY <1>4 DEF IsSetting, WellTyped
    <2> QED BY <1>2, <1>4, <2>1, Limits
  <1>5. CASE s.setting = "Band"
    <2>1. s.val \in 0..U32_MAX
      BY <1>5 DEF IsSetting, WellTyped
    <2> QED BY <1>2, <1>5, <2>1, Limits
  <1>6. CASE s.setting = "Parameters"
    <2> DEFINE v == s.val
               w == Printed(v[1])
               x == Printed(v[2])
               y == Printed(v[3])
               z == Printed(v[4])
    <2>1. v \in [1..4 -> 0..U8_MAX]
      BY <1>6 DEF IsSetting, WellTyped
    <2>2. t = EncodeValue("Parameters", v)
      BY <1>6 DEF TextOf
    <2> HIDE DEF v
    <2>3. /\ v[1] \in 0..U8_MAX /\ v[2] \in 0..U8_MAX
          /\ v[3] \in 0..U8_MAX /\ v[4] \in 0..U8_MAX
      BY <2>1
    <2>4. Plain(w) /\ Plain(x) /\ Plain(y) /\ Plain(z)
      BY <2>3, Limits, NaturalText
    <2>5. t = FourFields(w, x, y, z)
      BY <2>1, <2>2, ParametersText
    <2>6. v[1] \in Int
      BY <2>3, Limits
    <2>7. Len(w) >= 1 /\ w[1] # "+RCV"
      BY <2>6, PrintedStart
    <2> HIDE DEF w, x, y, z
    <2>8. FourAt(t, w, x, y, z)
      BY <2>4, <2>5, FourFieldsAt
    <2>9. (\A i \in 1..Len(w) : t[i] = w[i]) /\ Len(w) \in Nat
      BY <2>4, <2>8, LenProperties DEF FourAt, Plain
    <2>10. t[1] = w[1]
      BY <2>7, <2>9
    <2> QED BY <2>7, <2>10
  <1>7. CASE s.setting = "Cpin"
    <2>1. CASE s.val = <<>>
      <3>1. t = <<"NoPassword">>
        BY <1>7, <2>1 DEF TextOf
      <3> QED BY <3>1
    <2>2. CASE s.val # <<>>
      <3>1. s.val \in [1..8 -> HexDigit] /\ t = s.val
        BY <1>7, <2>2 DEF IsSetting, WellTyped, TextOf, EncodeValue
      <3>2. t[1] \in HexDigit
        BY <3>1
      <3>3. "+RCV" \notin HexDigit
        <4>1. ASSUME NEW i \in 1..10 PROVE DIGITS[i] # "+RCV"
          <5>1. i \in {1, 2, 3, 4, 5, 6, 7, 8, 9, 10}
            OBVIOUS
          <5>2. DIGITS[i] \in {"0", "1", "2", "3", "4", "5", "6", "7", "8", "9"}
            BY <5>1 DEF DIGITS
          <5> QED BY <5>2
        <4> QED BY <4>1 DEF HexDigit, Digit
      <3> QED BY <3>2, <3>3
    <2> QED BY <2>1, <2>2
  <1> QED BY <1>1, <1>3, <1>4, <1>5, <1>6, <1>7

\* A line that lost a byte behind its first, without its first.
LEMMA TailWithout ==
  ASSUME NEW s \in Seq(Byte), NEW t \in Seq(Byte), Len(s) = Len(t) + 1,
         \A i \in 1..Len(t) : s[i + 1] = t[i], NEW h, NEW j, Without(h, s, j), j > 1
  PROVE  Without(Tail(h), t, j - 1)
PROOF
  <1> DEFINE n == Len(t)
             u == Tail(h)
  <1>1. /\ h \in Seq(Byte) /\ j \in 1..(n + 1) /\ Len(h) = n
        /\ (\A i \in 1..(j - 1) : h[i] = s[i]) /\ \A i \in j..n : h[i] = s[i + 1]
    <2>1. /\ h \in Seq(Byte) /\ j \in 1..(n + 1) /\ Len(h) = (n + 1) - 1
          /\ (\A i \in 1..(j - 1) : h[i] = s[i]) /\ \A i \in j..Len(h) : h[i] = s[i + 1]
      BY DEF Without
    <2>2. n \in Nat
      BY LenProperties
    <2> HIDE DEF n
    <2>3. Len(h) = n
      BY <2>1, <2>2
    <2> QED BY <2>1, <2>3
  <1>2. n \in Nat /\ \A i \in 1..n : s[i + 1] = t[i]
    BY LenProperties
  <1> HIDE DEF n
  <1>3. h # <<>> /\ j - 1 \in 1..n
    <2>1. n > 0 /\ j - 1 \in 1..n
      BY <1>1, <1>2
    <2> QED BY <1>1, <2>1, EmptySeq
  <1>4. u \in Seq(Byte) /\ Len(u) = n - 1 /\ \A i \in 1..(n - 1) : u[i] = h[i + 1]
    <2>1. u \in Seq(Byte) /\ Len(u) = Len(h) - 1 /\ \A i \in 1..Len(u) : u[i] = h[i + 1]
      BY <1>1, <1>3, HeadTailProperties
    <2> HIDE DEF u
    <2> QED BY <1>1, <2>1
  <1> HIDE DEF u
  <1>5. ASSUME NEW i \in 1..((j - 1) - 1) PROVE u[i] = t[i]
    <2>1. i \in 1..(n - 1) /\ i + 1 \in 1..(j - 1) /\ i \in 1..n
      BY <1>1, <1>2
    <2> QED BY <1>1, <1>2, <1>4, <2>1
  <1>6. ASSUME NEW i \in (j - 1)..(n - 1) PROVE u[i] = t[i + 1]
    <2>1. i \in 1..(n - 1) /\ i + 1 \in j..n /\ i + 1 \in 1..n
      BY <1>1, <1>2, <1>3
    <2>2. u[i] = h[i + 1] /\ h[i + 1] = s[(i + 1) + 1]
      BY <1>1, <1>4, <2>1
    <2> QED BY <1>2, <2>1, <2>2
  <1>7. Without(u, t, j - 1)
    BY <1>3, <1>4, <1>5, <1>6 DEF Without, n
  <1> QED BY <1>7 DEF u

\* What is behind the prefix of an event, and behind the "=" of that.
LEMMA RcvHeadParts ==
  ASSUME NEW data \in Seq(Byte), NEW signal \in Signal
  PROVE  \E body \in Seq(Byte) :
           /\ RcvText(data, signal) \in Seq(Byte) /\ RcvHead(data, signal) \in Seq(Byte)
           /\ Len(RcvHead(data, signal)) = Len(body) + 1
           /\ \A i \in 1..Len(body) : RcvHead(data, signal)[i + 1] = body[i]
           /\ Len(body) = Len(RcvText(data, signal)) + 1 /\ body[1] = "="
           /\ \A i \in 1..Len(RcvText(data, signal)) : body[i + 1] = RcvText(data, signal)[i]
PROOF
  <1> DEFINE c == "+RCV"
             d == "="
             t == RcvText(data, signal)
             u == <<d>> \o t
  <1>1. c \in Byte /\ d \in Byte
    BY DEF Byte
  <1>2. t \in Seq(Byte)
    BY RcvParts
  <1>3. RcvHead(data, signal) = <<c>> \o u
    BY DEF RcvHead
  <1> HIDE DEF c, d, t
  <1>4. /\ u \in Seq(Byte) /\ Len(u) = Len(t) + 1 /\ u[1] = d
        /\ \A i \in 1..Len(t) : u[i + 1] = t[i]
    BY <1>1, <1>2, TailOfPrefixed
  <1> HIDE DEF u
  <1>5. /\ <<c>> \o u \in Seq(Byte) /\ Len(<<c>> \o u) = Len(u) + 1
        /\ \A i \in 1..Len(u) : (<<c>> \o u)[i + 1] = u[i]
    BY <1>1, <1>4, TailOfPrefixed
  <1> QED BY <1>2, <1>3, <1>4, <1>5 DEF t, d

\* Of a line that lost a byte behind its prefix and is read: what is behind the "=" is a
\* text that lost a byte.
LEMMA DamagedHead ==
  ASSUME NEW data \in Seq(Byte), Len(data) <= U32_MAX, NEW signal \in Signal,
         NEW h, NEW j, Without(h, RcvHead(data, signal), j), j > 1, ParseRcv(h).ok
  PROVE  /\ ReadsDamaged(ParseRcv(h).val, data, signal)
         /\ \E x, d, y, z : ParseRcv(h).val = [from |-> x, data |-> d, rssi |-> y, snr |-> z]
PROOF
  <1> DEFINE t == RcvText(data, signal)
             s == RcvHead(data, signal)
             e == ParseRcv(h).val
             u == Tail(h)
  <1>1. PICK body \in Seq(Byte) :
          /\ t \in Seq(Byte) /\ s \in Seq(Byte) /\ Len(s) = Len(body) + 1
          /\ \A i \in 1..Len(body) : s[i + 1] = body[i]
          /\ Len(body) = Len(t) + 1
          /\ \A i \in 1..Len(t) : body[i + 1] = t[i]
    BY RcvHeadParts
  <1>2. Len(t) >= 1 /\ t[1] # "="
    BY TextStart
  <1> HIDE DEF s, t
  <1>3. Without(u, body, j - 1)
    BY <1>1, TailWithout DEF s
  <1>4. Len(t) \in Nat
    BY <1>1, LenProperties
  <1>5. /\ h \in Seq(Byte) /\ j \in 1..Len(s) /\ Len(h) = Len(s) - 1
        /\ \A i \in j..Len(h) : h[i] = s[i + 1]
    BY DEF Without, s
  <1>6. u \in Seq(Byte) /\ Len(u) = Len(body) - 1
    BY <1>3 DEF Without
  <1> HIDE DEF u
  <1>7. u # <<>>
    <2>1. Len(u) # 0
      BY <1>1, <1>2, <1>4, <1>6
    <2> QED BY <1>6, <2>1, EmptySeq
  <1>8. Tail(u) \in Seq(Byte)
    BY <1>6, <1>7, HeadTailProperties
  <1>9. /\ h[2] = "="
        /\ \E address, length, rs, sn, c1, c2, c4 :
             Reading(Tail(u), e, address, length, rs, sn, c1, c2, c4)
    BY <1>8, ReadingFacts DEF u
  <1>10. j # 2
    <2> SUFFICES ASSUME j = 2 PROVE FALSE
      OBVIOUS
    <2>1. 2 \in j..Len(h) /\ 2 \in 1..Len(body) /\ 1 \in 1..Len(t)
      BY <1>1, <1>2, <1>4, <1>5
    <2>2. h[2] = s[2 + 1] /\ s[2 + 1] = body[2] /\ body[1 + 1] = t[1] /\ 1 + 1 = 2
      BY <1>1, <1>5, <2>1
    <2> QED BY <1>2, <1>9, <2>2
  <1>11. j - 1 > 1
    BY <1>5, <1>10
  <1>12. Without(Tail(u), t, (j - 1) - 1)
    BY <1>1, <1>3, <1>11, TailWithout
  <1>13. PICK address, length, rs, sn, c1, c2, c4 :
           Reading(Tail(u), e, address, length, rs, sn, c1, c2, c4)
    BY <1>9
  <1> HIDE DEF e
  <1>14. ReadsDamaged(e, data, signal)
    BY <1>12, <1>13, LostByte DEF t
  <1>15. e = [from |-> e.from, data |-> e.data, rssi |-> e.rssi, snr |-> e.snr]
    BY <1>13 DEF Reading
  <1> QED BY <1>14, <1>15 DEF e

\* What is read then is read wrong in the way Misread allows.
LEMMA MisreadFacts ==
  ASSUME NEW from, NEW data, NEW rssi, NEW snr, NEW x, NEW d, NEW y, NEW z,
         ReadsDamaged([from |-> x, data |-> d, rssi |-> y, snr |-> z], data,
                      [from |-> from, rssi |-> rssi, snr |-> snr])
  PROVE  Misread([from |-> x, data |-> d, rssi |-> y, snr |-> z],
                 [from |-> from, data |-> data, rssi |-> rssi, snr |-> snr])
PROOF
  <1> DEFINE e == [from |-> x, data |-> d, rssi |-> y, snr |-> z]
             r == [from |-> from, data |-> data, rssi |-> rssi, snr |-> snr]
             joined == Value(Decimal(from) \o Decimal(Len(data)), U16_MAX)
             rest == AfterComma(data)
  <1>1. \/ d = data /\ y = rssi /\ z = snr
        \/ x = joined /\ d = rest /\ y = rssi /\ z = snr
        \/ d = data /\ x = from /\ (y = rssi \/ z = snr)
    BY DEF ReadsDamaged
  <1>2. Misread(e, r) <=>
          \/ \E field \in {"from", "rssi", "snr"} : [e EXCEPT ![field] = r[field]] = r
          \/ e = [r EXCEPT !.from = Value(Decimal(@) \o Decimal(Len(r.data)), U16_MAX),
                           !.data = AfterComma(@)]
    BY DEF Misread
  <1>3. /\ Value(Decimal(r.from) \o Decimal(Len(r.data)), U16_MAX) = joined
        /\ AfterComma(r.data) = rest
    OBVIOUS
  <1>4. [r EXCEPT !.from = Value(Decimal(@) \o Decimal(Len(r.data)), U16_MAX),
                  !.data = AfterComma(@)]
          = [from |-> joined, data |-> rest, rssi |-> rssi, snr |-> snr]
    <2>1. r.from = from /\ r.data = data
      OBVIOUS
    <2>2. [r EXCEPT !.from = Value(Decimal(@) \o Decimal(Len(r.data)), U16_MAX),
                    !.data = AfterComma(@)]
            = [r EXCEPT !.from = Value(Decimal(r.from) \o Decimal(Len(r.data)), U16_MAX),
                        !.data = AfterComma(r.data)]
      OBVIOUS
    <2>3. [r EXCEPT !.from = Value(Decimal(r.from) \o Decimal(Len(r.data)), U16_MAX),
                    !.data = AfterComma(r.data)] = [r EXCEPT !.from = joined, !.data = rest]
      BY <2>1
    <2> HIDE DEF joined, rest
    <2>4. [r EXCEPT !.from = joined, !.data = rest]
            = [from |-> joined, data |-> rest, rssi |-> rssi, snr |-> snr]
      <3> DEFINE q == [from |-> joined, data |-> data, rssi |-> rssi, snr |-> snr]
      <3>1. [r EXCEPT !.from = joined] = q
        OBVIOUS
      <3>2. [q EXCEPT !.data = rest]
              = [from |-> joined, data |-> rest, rssi |-> rssi, snr |-> snr]
        OBVIOUS
      <3>3. [r EXCEPT !.from = joined, !.data = rest]
              = [[r EXCEPT !.from = joined] EXCEPT !.data = rest]
        OBVIOUS
      <3> HIDE DEF q, r
      <3> QED BY <3>1, <3>2, <3>3
    <2> QED BY <2>2, <2>3, <2>4
  <1> HIDE DEF joined, rest
  <1>5. CASE d = data /\ y = rssi /\ z = snr
    <2>1. [e EXCEPT !["from"] = r["from"]] = r
      BY <1>5
    <2> QED BY <1>2, <2>1
  <1>6. CASE x = joined /\ d = rest /\ y = rssi /\ z = snr
    <2>1. e = [from |-> joined, data |-> rest, rssi |-> rssi, snr |-> snr]
      BY <1>6
    <2> QED BY <1>2, <1>4, <2>1
  <1>7. CASE d = data /\ x = from /\ z = snr
    <2>1. [e EXCEPT !["rssi"] = r["rssi"]] = r
      BY <1>7
    <2> QED BY <1>2, <2>1
  <1>8. CASE d = data /\ x = from /\ y = rssi
    <2>1. [e EXCEPT !["snr"] = r["snr"]] = r
      BY <1>8
    <2> QED BY <1>2, <2>1
  <1> QED BY <1>1, <1>5, <1>6, <1>7, <1>8

\* A line with its LF behind it, but no CR, is not read.
LEMMA LongHead ==
  ASSUME NEW data \in Seq(Byte), Len(data) <= U32_MAX, NEW signal \in Signal,
         NEW h \in Seq(Byte), Len(h) > Len(RcvHead(data, signal)),
         \A i \in 1..Len(RcvHead(data, signal)) : h[i] = RcvHead(data, signal)[i],
         h[Len(RcvHead(data, signal)) + 1] = "LF", ParseRcv(h).ok
  PROVE  FALSE
PROOF
  <1> DEFINE t == RcvText(data, signal)
             s == RcvHead(data, signal)
             e == ParseRcv(h).val
             n == Len(t)
             u == Tail(h)
             v == Tail(u)
             lf == "LF"
  <1>1. PICK body \in Seq(Byte) :
          /\ t \in Seq(Byte) /\ s \in Seq(Byte) /\ Len(s) = Len(body) + 1
          /\ \A i \in 1..Len(body) : s[i + 1] = body[i]
          /\ Len(body) = n + 1
          /\ \A i \in 1..n : body[i + 1] = t[i]
    BY RcvHeadParts
  <1>2. n \in Nat /\ Len(h) \in Nat
    BY <1>1, LenProperties
  <1>3. Len(h) > Len(s) /\ (\A i \in 1..Len(s) : h[i] = s[i]) /\ h[Len(s) + 1] = lf
    OBVIOUS
  <1> HIDE DEF s, t, n, lf
  <1>4. Len(s) = n + 2 /\ Len(h) >= n + 3 /\ Len(s) + 1 = n + 3
    BY <1>1, <1>2, <1>3
  <1>5. h # <<>>
    <2>1. Len(h) # 0
      BY <1>2, <1>4
    <2> QED BY <2>1, EmptySeq
  <1>6. u \in Seq(Byte) /\ Len(u) = Len(h) - 1 /\ \A i \in 1..Len(u) : u[i] = h[i + 1]
    BY <1>5, HeadTailProperties
  <1> HIDE DEF u
  <1>7. u # <<>>
    <2>1. Len(u) = Len(h) - 1 /\ Len(h) >= n + 3 /\ n \in Nat
      BY <1>2, <1>4, <1>6
    <2>2. Len(u) # 0
      BY <1>2, <2>1
    <2> QED BY <1>6, <2>2, EmptySeq
  <1>8. v \in Seq(Byte) /\ Len(v) = Len(u) - 1 /\ \A i \in 1..Len(v) : v[i] = u[i + 1]
    BY <1>6, <1>7, HeadTailProperties
  <1>9. PICK address, length, rs, sn, c1, c2, c4 :
          Reading(v, e, address, length, rs, sn, c1, c2, c4)
    BY <1>8, ReadingFacts DEF u
  <1> HIDE DEF v, e
  <1>10. Len(v) = Len(h) - 2 /\ Len(v) \in Nat /\ Len(v) > n
    BY <1>2, <1>4, <1>6, <1>8
  <1>11. ASSUME NEW i \in 1..Len(v) PROVE v[i] = h[(i + 1) + 1]
    <2>1. i + 1 \in 1..Len(u)
      BY <1>2, <1>6, <1>8, <1>10
    <2> QED BY <1>6, <1>8, <2>1
  <1>12. ASSUME NEW i \in 1..n PROVE v[i] = t[i]
    <2>1. i \in 1..Len(v) /\ (i + 1) + 1 \in 1..Len(s) /\ i + 1 \in 1..Len(body)
      BY <1>1, <1>2, <1>4, <1>10
    <2>2. v[i] = h[(i + 1) + 1] /\ h[(i + 1) + 1] = s[(i + 1) + 1]
      BY <1>3, <1>11, <2>1
    <2>3. s[(i + 1) + 1] = body[i + 1] /\ body[i + 1] = t[i]
      BY <1>1, <2>1
    <2> QED BY <2>2, <2>3
  <1>13. v[n + 1] = lf
    <2>1. n + 1 \in 1..Len(v) /\ ((n + 1) + 1) + 1 = Len(s) + 1
      BY <1>2, <1>4, <1>10
    <2> QED BY <1>3, <1>11, <2>1
  <1> QED BY <1>9, <1>10, <1>12, <1>13, ReadFurther DEF t, n, lf

-----------------------------------------------------------------------------
(* With a byte lost: what is in flight                                     *)

\* l is the line of transmission i, or of an answer.
Whole(l, i) ==
  IF i = 0 THEN \E s \in Settings : l = AnswerLine(s) ELSE l = LineOf(sent[i])

\* The head of a whole line.
WholeLine(g, i, head) ==
  /\ Line(g, head) /\ Len(head) >= 1 /\ head[1] # "LF"
  /\ Len(head) >= 2 => head[2] # "+RCV"
  /\ IF i = 0 THEN head[1] # "+RCV" ELSE head[1] = "+RCV" /\ head = HeadOf(sent[i])

LEMMA WholeLineFacts ==
  ASSUME \A data \in Payloads : EndsNoLine(data), \A k \in 1..Len(sent) : Transmitted(sent[k]),
         NEW i \in 0..Len(sent), NEW g, Whole(g, i)
  PROVE  \E head : WholeLine(g, i, head)
PROOF
  <1>1. CASE i = 0
    <2>1. PICK s \in Settings : g = AnswerLine(s)
      BY <1>1 DEF Whole
    <2> DEFINE head == AnswerHead(s)
               c == PrefixOf[s.setting]
               t == TextOf(s)
    <2>2. Line(g, head) /\ head[1] = c /\ c # "+RCV"
      BY <2>1, SettingLine
    <2>3. IsSetting(s)
      BY WireBytes
    <2>4. c \in Byte /\ c # "LF"
      BY <2>3, PrefixFacts DEF IsSetting
    <2>5. t \in Seq(Byte) /\ t[1] # "+RCV"
      BY <2>3, SettingReadsBack, AnswerStart DEF Unbroken
    <2>6. head = <<c>> \o t
      BY DEF AnswerHead
    <2>7. Len(head) >= 1
      BY <2>3, AnswerLineFacts
    <2> HIDE DEF head, c, t
    <2>8. Len(head) = Len(t) + 1 /\ \A k \in 1..Len(t) : head[k + 1] = t[k]
      BY <2>4, <2>5, <2>6, TailOfPrefixed
    <2>9. Len(head) >= 2 => head[2] # "+RCV"
      <3>1. Len(t) \in Nat
        BY <2>5, LenProperties
      <3> DEFINE n == Len(t)
      <3> HIDE DEF n
      <3>2. Len(head) >= 2 => 1 \in 1..n
        BY <2>8, <3>1 DEF n
      <3>3. 1 + 1 = 2
        OBVIOUS
      <3> QED BY <2>5, <2>8, <3>2, <3>3 DEF n
    <2>10. WholeLine(g, i, head)
      BY <1>1, <2>2, <2>4, <2>7, <2>9 DEF WholeLine
    <2> QED BY <2>10
  <1>2. CASE i # 0
    <2> DEFINE e == sent[i]
               data == e.data
               signal == SignalOf(e)
               head == HeadOf(e)
    <2>1. i \in 1..Len(sent)
      BY <1>2
    <2>2. Transmitted(e) /\ g = LineOf(e)
      BY <1>2, <2>1 DEF Whole
    <2> HIDE DEF e
    <2>3. Line(g, head) /\ head[1] = "+RCV"
      BY <2>2, TransmittedLine
    <2>4. data \in Seq(Byte) /\ signal \in Signal
      BY <2>2, WireBytes DEF Transmitted
    <2>5. head = RcvHead(data, signal)
      BY DEF HeadOf
    <2> HIDE DEF data, signal, head
    <2>6. (Len(head) >= 2 => head[2] # "+RCV") /\ Len(head) >= 1
      <3>1. PICK body \in Seq(Byte) :
              /\ Len(head) = Len(body) + 1 /\ Len(body) = Len(RcvText(data, signal)) + 1
              /\ body[1] = "=" /\ \A k \in 1..Len(body) : head[k + 1] = body[k]
              /\ RcvText(data, signal) \in Seq(Byte)
        BY <2>4, <2>5, RcvHeadParts
      <3>2. Len(RcvText(data, signal)) \in Nat
        BY <3>1, LenProperties
      <3> DEFINE n == Len(body)
      <3>3. 1 \in 1..n /\ Len(head) >= 1
        BY <3>1, <3>2
      <3> HIDE DEF n
      <3>4. head[1 + 1] = body[1] /\ 1 + 1 = 2
        BY <3>1, <3>3 DEF n
      <3> QED BY <3>1, <3>3, <3>4
    <2>7. WholeLine(g, i, head)
      BY <1>2, <2>3, <2>6 DEF WholeLine, e, head
    <2> QED BY <2>7
  <1> QED BY <1>1, <1>2

\* What is read of the head of the line polled, if anything is: transmission i, or, where
\* the line is not whole, what it may be misread as.
ReadFrom(head, i, whole) ==
  StartsWith(head, "+RCV") /\ ParseRcv(head).ok =>
    /\ i # 0
    /\ whole => ParseRcv(head).val = sent[i]
    /\ ParseRcv(head).val = sent[i] \/ Misread(ParseRcv(head).val, sent[i])

\* A whole head, one that lost a byte, and one with its LF behind it, but no CR.
LEMMA HeadsRead ==
  ASSUME \A data \in Payloads : EndsNoLine(data), \A k \in 1..Len(sent) : Transmitted(sent[k]),
         NEW i \in 0..Len(sent), NEW g, NEW head, WholeLine(g, i, head)
  PROVE  /\ ReadFrom(head, i, TRUE)
         /\ \A h, j : Without(h, head, j) => ReadFrom(h, i, FALSE)
         /\ \A h \in Seq(Byte) : /\ Len(h) > Len(head) /\ h[Len(head) + 1] = "LF"
                                 /\ \A k \in 1..Len(head) : h[k] = head[k]
              => ReadFrom(h, i, FALSE)
PROOF
  <1>1. /\ head \in Seq(Byte) /\ Len(head) \in Nat /\ Len(head) >= 1
        /\ Len(head) >= 2 => head[2] # "+RCV"
        /\ i = 0 => head[1] # "+RCV"
        /\ i # 0 => head = HeadOf(sent[i])
    BY LenProperties DEF WholeLine, Line, Smooth
  <1> DEFINE e == sent[i]
             data == e.data
             signal == SignalOf(e)
  <1>2. ASSUME i # 0
        PROVE  /\ data \in Seq(Byte) /\ Len(data) <= U32_MAX /\ signal \in Signal
               /\ head = RcvHead(data, signal) /\ signal = SignalOf(e)
               /\ ParseRcv(head) = Parsed(e)
               /\ e = [from |-> e.from, data |-> data, rssi |-> e.rssi, snr |-> e.snr]
    <2>1. i \in 1..Len(sent)
      BY <1>2
    <2>2. Transmitted(e)
      BY <2>1
    <2> HIDE DEF e
    <2>3. /\ data \in Seq(Byte) /\ signal \in Signal /\ Len(data) <= U32_MAX
          /\ e = [from |-> e.from, data |-> data, rssi |-> e.rssi, snr |-> e.snr]
      BY <2>2, WireBytes DEF Transmitted
    <2>4. head = HeadOf(e)
      BY <1>1, <1>2 DEF e
    <2>5. head = RcvHead(data, signal)
      BY <2>4 DEF HeadOf
    <2>6. ParseRcv(head) = Parsed(e)
      BY <2>2, <2>4, TransmittedLine
    <2> QED BY <2>3, <2>5, <2>6
  <1> HIDE DEF data, signal
  <1>3. ReadFrom(head, i, TRUE)
    <2>1. CASE i = 0
      BY <1>1, <2>1 DEF ReadFrom, StartsWith
    <2>2. CASE i # 0
      <3>1. ParseRcv(head).val = e
        BY <1>2, <2>2 DEF Parsed
      <3> QED BY <2>2, <3>1 DEF ReadFrom, e
    <2> QED BY <2>1, <2>2
  <1>4. ASSUME NEW h, NEW j, Without(h, head, j), StartsWith(h, "+RCV"), ParseRcv(h).ok
        PROVE  i # 0 /\ Misread(ParseRcv(h).val, e)
    <2> DEFINE m == Len(head)
    <2>1. /\ h \in Seq(Byte) /\ j \in 1..m /\ Len(h) = m - 1
          /\ (\A k \in 1..(j - 1) : h[k] = head[k]) /\ \A k \in j..Len(h) : h[k] = head[k + 1]
      BY <1>4 DEF Without
    <2>2. h # <<>> /\ h[1] = "+RCV"
      BY <1>4 DEF StartsWith
    <2>3. Len(h) # 0
      BY <2>1, <2>2, EmptySeq
    <2> HIDE DEF m
    <2>4. j > 1
      <3> SUFFICES ASSUME j = 1 PROVE FALSE
        BY <1>1, <2>1 DEF m
      <3>1. m \in Nat
        BY <1>1 DEF m
      <3>2. 1 \in j..Len(h) /\ m >= 2
        BY <2>1, <2>3, <3>1
      <3>3. h[1] = head[1 + 1] /\ 1 + 1 = 2
        BY <2>1, <3>2
      <3> QED BY <1>1, <2>2, <3>2, <3>3 DEF m
    <2>5. i # 0
      <3>1. m \in Nat /\ j \in Int
        BY <1>1, <2>1 DEF m
      <3>2. 1 \in 1..(j - 1)
        BY <2>4, <3>1
      <3>3. h[1] = head[1]
        BY <2>1, <3>2
      <3> QED BY <1>1, <2>2, <3>3
    <2>6. /\ data \in Seq(Byte) /\ Len(data) <= U32_MAX /\ signal \in Signal
          /\ head = RcvHead(data, signal) /\ signal = SignalOf(e)
          /\ e = [from |-> e.from, data |-> data, rssi |-> e.rssi, snr |-> e.snr]
      BY <1>2, <2>5
    <2>7. Without(h, RcvHead(data, signal), j)
      BY <1>4, <2>6
    <2>8. /\ ReadsDamaged(ParseRcv(h).val, data, signal)
          /\ \E x, d, y, z : ParseRcv(h).val = [from |-> x, data |-> d, rssi |-> y, snr |-> z]
      BY <1>4, <2>4, <2>6, <2>7, DamagedHead
    <2>9. PICK x, d, y, z : ParseRcv(h).val = [from |-> x, data |-> d, rssi |-> y, snr |-> z]
      BY <2>8
    <2>10. ReadsDamaged([from |-> x, data |-> d, rssi |-> y, snr |-> z], data,
                        [from |-> e.from, rssi |-> e.rssi, snr |-> e.snr])
      BY <2>6, <2>8, <2>9 DEF SignalOf
    <2>11. Misread([from |-> x, data |-> d, rssi |-> y, snr |-> z],
                   [from |-> e.from, data |-> data, rssi |-> e.rssi, snr |-> e.snr])
      BY <2>10, MisreadFacts
    <2>12. Misread(ParseRcv(h).val, e)
      BY <2>6, <2>9, <2>11
    <2> QED BY <2>5, <2>12
  <1>5. ASSUME NEW h \in Seq(Byte), Len(h) > Len(head), h[Len(head) + 1] = "LF",
               \A k \in 1..Len(head) : h[k] = head[k],
               StartsWith(h, "+RCV"), ParseRcv(h).ok
        PROVE  FALSE
    <2> DEFINE m == Len(head)
    <2>1. m \in Nat /\ m >= 1 /\ \A k \in 1..m : h[k] = head[k]
      BY <1>1, <1>5
    <2> HIDE DEF m
    <2>2. 1 \in 1..m
      BY <2>1
    <2>3. h[1] = head[1] /\ h[1] = "+RCV"
      BY <1>5, <2>1, <2>2 DEF StartsWith
    <2>4. i # 0
      BY <1>1, <2>3
    <2>5. /\ data \in Seq(Byte) /\ Len(data) <= U32_MAX /\ signal \in Signal
          /\ head = RcvHead(data, signal)
      BY <1>2, <2>4
    <2>6. /\ Len(h) > Len(RcvHead(data, signal)) /\ h[Len(RcvHead(data, signal)) + 1] = "LF"
          /\ \A k \in 1..Len(RcvHead(data, signal)) : h[k] = RcvHead(data, signal)[k]
      BY <1>5, <2>5
    <2> QED BY <1>5, <2>5, <2>6, LongHead
  <1>6. ASSUME NEW h, NEW j, Without(h, head, j) PROVE ReadFrom(h, i, FALSE)
    BY <1>4, <1>6 DEF ReadFrom, e
  <1>7. ASSUME NEW h \in Seq(Byte), Len(h) > Len(head), h[Len(head) + 1] = "LF",
               \A k \in 1..Len(head) : h[k] = head[k]
        PROVE  ReadFrom(h, i, FALSE)
    BY <1>5, <1>7 DEF ReadFrom
  <1> QED BY <1>3, <1>6, <1>7

\* A line that lost a byte of its head is the line of the shorter head.
LEMMA ShortLine ==
  ASSUME NEW g, NEW head, Line(g, head), NEW l, NEW j, Without(l, g, j), j <= Len(head)
  PROVE  Line(l, RemoveAt(head, j)) /\ Without(RemoveAt(head, j), head, j)
PROOF
  <1> DEFINE h == RemoveAt(head, j)
             m == Len(head)
  <1>1. /\ head \in Seq(Byte) /\ Len(g) = m + 2 /\ (\A i \in 1..m : head[i] # "CR")
        /\ (\A i \in 1..m : g[i] = head[i]) /\ g[m + 1] = "CR" /\ g[m + 2] = "LF"
    BY DEF Line, Smooth
  <1>2. m \in Nat
    BY <1>1, LenProperties
  <1>3. /\ l \in Seq(Byte) /\ j \in 1..Len(g) /\ Len(l) = Len(g) - 1
        /\ (\A i \in 1..(j - 1) : l[i] = g[i]) /\ \A i \in j..Len(l) : l[i] = g[i + 1]
    BY DEF Without
  <1>4. j \in 1..m /\ Len(l) = m + 1
    <2>1. j <= m
      OBVIOUS
    <2> HIDE DEF m
    <2> QED BY <1>1, <1>2, <1>3, <2>1
  <1>5. Without(h, head, j)
    BY <1>1, <1>4, RemoveIs
  <1> HIDE DEF h
  <1>6. /\ h \in Seq(Byte) /\ Len(h) = m - 1
        /\ (\A i \in 1..(j - 1) : h[i] = head[i]) /\ \A i \in j..Len(h) : h[i] = head[i + 1]
    BY <1>5 DEF Without
  <1> HIDE DEF m
  <1>7. ASSUME NEW i \in 1..Len(h) PROVE l[i] = h[i] /\ h[i] # "CR"
    <2>1. CASE i < j
      <3>1. i \in 1..(j - 1) /\ i \in 1..m
        BY <1>2, <1>4, <1>6, <2>1
      <3> QED BY <1>1, <1>3, <1>6, <3>1
    <2>2. CASE ~(i < j)
      <3>1. i \in j..Len(l) /\ i \in j..Len(h) /\ i + 1 \in 1..m
        BY <1>2, <1>4, <1>6, <2>2
      <3> QED BY <1>1, <1>3, <1>6, <3>1
    <2> QED BY <2>1, <2>2
  <1>8. l[Len(h) + 1] = "CR" /\ l[Len(h) + 2] = "LF" /\ Len(l) = Len(h) + 2
    <2>1. m \in j..Len(l) /\ m + 1 \in j..Len(l) /\ (m + 1) + 1 = m + 2
          /\ Len(h) + 1 = m /\ Len(h) + 2 = m + 1
      BY <1>2, <1>4, <1>6
    <2>2. l[m] = g[m + 1] /\ l[m + 1] = g[(m + 1) + 1]
      BY <1>3, <2>1
    <2> QED BY <1>1, <1>4, <2>1, <2>2
  <1>9. Line(l, h)
    BY <1>3, <1>6, <1>7, <1>8 DEF Line, Smooth
  <1> QED BY <1>5, <1>9 DEF h

\* The lines in flight: line k is that of transmission org[k], or of an answer; they are
\* in the order sent, and line d, if there is one, is without a byte.
Orderly(lines, org, d) ==
  /\ Framed(rx \o wire, lines)
  /\ org \in [1..Len(lines) -> 0..Len(sent)] /\ d \in 0..Len(lines)
  /\ \A k \in 1..Len(lines) : k # d => Whole(lines[k], org[k])
  /\ d # 0 => noise # 0 /\ \E g, j : Whole(g, org[d]) /\ Without(lines[d], g, j)
  /\ \A j, k \in 1..Len(lines) : j < k /\ org[j] # 0 /\ org[k] # 0 => org[j] < org[k]

\* ls are the lines behind the first m.
DropFirst(ls, lines, m) ==
  /\ m \in 1..Len(lines) /\ Len(ls) = Len(lines) - m
  /\ \A k \in 1..Len(ls) : ls[k] = lines[k + m]

\* The line polled is the first, or that and the second.
Taken(r, lines, org, d) ==
  /\ \E ls, m : DropFirst(ls, lines, m) /\ Framed(SubSeq(rx, r + 2, Len(rx)) \o wire, ls)
  /\ SubSeq(rx, r + 2, Len(rx)) \in Seq(Byte) /\ ReadFrom(LineUpTo(r), org[1], d # 1)

\* A line that is found is the first, whatever it lost in its head.
LEMMA FirstTaken ==
  ASSUME rx \in Seq(Byte), wire \in Seq(Byte), NEW lines, Framed(rx \o wire, lines),
         lines # <<>>, NEW head, Line(lines[1], head), NEW org, NEW d,
         ReadFrom(head, org[1], d # 1), NEW r \in DOMAIN rx, LineEnd(r)
  PROVE  Taken(r, lines, org, d)
PROOF
  <1>1. FirstInRx(lines, head)
    BY FirstInRxFacts
  <1>2. /\ LineUpTo(r) = head /\ SubSeq(rx, r + 2, Len(rx)) \in Seq(Byte)
        /\ Framed(SubSeq(rx, r + 2, Len(rx)) \o wire, Tail(lines))
    BY <1>1 DEF FirstInRx
  <1>3. lines \in Seq(Seq(Byte)) /\ Len(lines) \in Nat \ {0}
    BY EmptySeq DEF Framed
  <1>4. Len(Tail(lines)) = Len(lines) - 1
        /\ \A k \in 1..Len(Tail(lines)) : Tail(lines)[k] = lines[k + 1]
    BY <1>3, HeadTailProperties
  <1> DEFINE n == Len(lines)
  <1>5. 1 \in 1..n
    <2>1. n \in Nat \ {0}
      BY <1>3
    <2> HIDE DEF n
    <2> QED BY <2>1
  <1>6. DropFirst(Tail(lines), lines, 1)
    BY <1>4, <1>5 DEF DropFirst
  <1> QED BY <1>2, <1>6 DEF Taken

\* The bytes in rx are those of the first line, as far as they go.
LEMMA RxStarts ==
  ASSUME rx \in Seq(Byte), wire \in Seq(Byte), NEW lines, Framed(rx \o wire, lines), lines # <<>>
  PROVE  /\ \A i \in 1..Len(lines[1]) : i <= Len(rx) => rx[i] = lines[1][i]
         /\ Len(lines) = 1 => Len(rx) <= Len(lines[1])
         /\ Len(lines) >= 2 /\ Len(lines[2]) >= 1 /\ Len(lines[1]) + 1 <= Len(rx) =>
              rx[Len(lines[1]) + 1] = lines[2][1]
PROOF
  <1> DEFINE s == rx \o wire
             m == Len(rx)
             w == Len(wire)
             x == Len(lines[1])
  <1>1. m \in Nat /\ w \in Nat
    BY LenProperties
  <1>2. /\ s \in Seq(Byte) /\ Len(s) = m + w
        /\ \A i \in 1..(m + w) : s[i] = IF i <= m THEN rx[i] ELSE wire[i - m]
    BY ConcatProperties
  <1>3. x <= Len(s) /\ \A i \in 1..x : s[i] = lines[1][i]
    BY FramedTail DEF FirstLine
  <1>4. /\ Len(lines) = 1 => Len(s) = x
        /\ Len(lines) >= 2 /\ Len(lines[2]) >= 1 => s[x + 1] = lines[2][1]
    BY SecondLine
  <1>5. x \in Nat
    <2>1. lines \in Seq(Seq(Byte)) /\ Len(lines) \in Nat \ {0}
      BY EmptySeq DEF Framed
    <2>2. 1 \in 1..Len(lines)
      BY <2>1
    <2>3. lines[1] \in Seq(Byte)
      BY <2>1, <2>2, ElementOfSeq
    <2> QED BY <2>3, LenProperties
  <1> HIDE DEF s, m, w, x
  <1>6. ASSUME NEW i \in Nat, 1 <= i, i <= m PROVE rx[i] = s[i]
    <2>1. i \in 1..(m + w)
      BY <1>1, <1>6
    <2> QED BY <1>2, <1>6, <2>1
  <1>7. ASSUME NEW i \in 1..x, i <= m PROVE rx[i] = lines[1][i]
    <2>1. i \in Nat /\ 1 <= i
      BY <1>5
    <2> QED BY <1>3, <1>6, <1>7, <2>1
  <1>8. Len(lines) = 1 => m <= x
    <2>1. Len(lines) = 1 => m + w = x
      BY <1>2, <1>4
    <2> QED BY <1>1, <2>1
  <1>9. ASSUME Len(lines) >= 2, Len(lines[2]) >= 1, x + 1 <= m PROVE rx[x + 1] = lines[2][1]
    <2>1. x + 1 \in Nat /\ 1 <= x + 1
      BY <1>5
    <2>2. rx[x + 1] = s[x + 1]
      BY <1>6, <1>9, <2>1
    <2> QED BY <1>4, <1>9, <2>2
  <1> QED BY <1>7, <1>8, <1>9 DEF m, x

\* A line without its LF does not end: what follows it is not an LF.
LEMMA NoEndWithoutLF ==
  ASSUME rx \in Seq(Byte), wire \in Seq(Byte), NEW lines, Framed(rx \o wire, lines),
         lines # <<>>, NEW g, NEW head, Line(g, head), Without(lines[1], g, Len(head) + 2),
         Len(lines) >= 2 => Len(lines[2]) >= 1 /\ lines[2][1] # "LF",
         NEW r \in DOMAIN rx, LineEnd(r)
  PROVE  FALSE
PROOF
  <1> DEFINE m == Len(head)
             l == lines[1]
             x == Len(rx)
             n == Len(lines)
  <1>1. /\ head \in Seq(Byte) /\ Len(g) = m + 2 /\ (\A i \in 1..m : head[i] # "CR")
        /\ (\A i \in 1..m : g[i] = head[i]) /\ g[m + 1] = "CR"
    BY DEF Line, Smooth
  <1>2. m \in Nat /\ x \in Nat
    BY <1>1, LenProperties
  <1>3. Len(l) = Len(g) - 1 /\ \A i \in 1..((m + 2) - 1) : l[i] = g[i]
    BY DEF Without
  <1>4. r \in 1..x /\ r + 1 <= x /\ rx[r] = "CR" /\ rx[r + 1] = "LF"
        /\ \A i \in 1..(r - 1) : rx[i] # "CR"
    <2>1. DOMAIN rx = 1..x
      BY LenProperties
    <2> QED BY <2>1 DEF LineEnd
  <1>5. n \in Nat \ {0}
    BY EmptySeq DEF Framed
  <1>6. /\ \A i \in 1..Len(l) : i <= x => rx[i] = l[i]
        /\ n = 1 => x <= Len(l)
        /\ n >= 2 /\ Len(lines[2]) >= 1 /\ Len(l) + 1 <= x => rx[Len(l) + 1] = lines[2][1]
    BY RxStarts
  <1>7. n >= 2 => Len(lines[2]) >= 1 /\ lines[2][1] # "LF"
    OBVIOUS
  <1> HIDE DEF m, l, x, n
  <1>8. Len(l) = m + 1 /\ (\A i \in 1..m : l[i] # "CR") /\ l[m + 1] = "CR"
    <2>1. m + 1 \in 1..((m + 2) - 1) /\ \A i \in 1..m : i \in 1..((m + 2) - 1)
      BY <1>2
    <2>2. (m + 2) - 1 = m + 1
      BY <1>2
    <2> QED BY <1>1, <1>3, <2>1, <2>2
  <1>9. ~(r <= m)
    <2> SUFFICES ASSUME r <= m PROVE FALSE
      OBVIOUS
    <2>1. r \in 1..m /\ r \in 1..(m + 1) /\ r <= x
      BY <1>2, <1>4
    <2> QED BY <1>4, <1>6, <1>8, <2>1
  <1>10. ~(r > m + 1)
    <2> SUFFICES ASSUME r > m + 1 PROVE FALSE
      OBVIOUS
    <2>1. m + 1 \in 1..(r - 1) /\ m + 1 \in 1..(m + 1) /\ m + 1 <= x
      BY <1>2, <1>4
    <2> QED BY <1>4, <1>6, <1>8, <2>1
  <1>11. r = m + 1 /\ Len(l) + 1 = r + 1 /\ Len(l) + 1 <= x /\ ~(x <= Len(l))
    BY <1>2, <1>4, <1>8, <1>9, <1>10
  <1>12. n >= 2
    BY <1>5, <1>6, <1>11
  <1> QED BY <1>4, <1>6, <1>7, <1>11, <1>12

\* A line and the one behind it are one line, if the first ends with no CR.
LEMMA LinesJoin ==
  ASSUME NEW l, Smooth(l), NEW g, NEW head, Line(g, head)
  PROVE  /\ Line(l \o g, l \o head) /\ Len(l \o head) >= Len(l)
         /\ \A i \in 1..Len(l) : (l \o head)[i] = l[i]
PROOF
  <1> DEFINE a == Len(l)
             m == Len(head)
             u == l \o g
             v == l \o head
  <1>1. /\ l \in Seq(Byte) /\ (\A i \in 1..a : l[i] # "CR") /\ a \in Nat
        /\ head \in Seq(Byte) /\ g \in Seq(Byte) /\ Len(g) = m + 2 /\ m \in Nat
        /\ (\A i \in 1..m : head[i] # "CR") /\ (\A i \in 1..m : g[i] = head[i])
        /\ g[m + 1] = "CR" /\ g[m + 2] = "LF"
    BY LenProperties DEF Line, Smooth
  <1>2. u \in Seq(Byte) /\ Len(u) = a + Len(g)
        /\ \A i \in 1..(a + Len(g)) : u[i] = IF i <= a THEN l[i] ELSE g[i - a]
    BY <1>1, ConcatProperties
  <1>3. v \in Seq(Byte) /\ Len(v) = a + m
        /\ \A i \in 1..(a + m) : v[i] = IF i <= a THEN l[i] ELSE head[i - a]
    BY <1>1, ConcatProperties
  <1> HIDE DEF a, m, u, v
  <1>4. Len(u) = (a + m) + 2 /\ a + m >= a /\ Len(u) = a + (m + 2)
    BY <1>1, <1>2
  <1>5. ASSUME NEW i \in 1..(a + m) PROVE v[i] # "CR" /\ u[i] = v[i]
    <2>1. i \in 1..(a + (m + 2)) /\ (i <= a => i \in 1..a) /\ (~(i <= a) => i - a \in 1..m)
      BY <1>1
    <2> QED BY <1>1, <1>2, <1>3, <2>1
  <1>6. u[(a + m) + 1] = "CR" /\ u[(a + m) + 2] = "LF"
    <2>1. /\ (a + m) + 1 \in 1..(a + (m + 2)) /\ ~((a + m) + 1 <= a) /\ ((a + m) + 1) - a = m + 1
          /\ (a + m) + 2 \in 1..(a + (m + 2)) /\ ~((a + m) + 2 <= a) /\ ((a + m) + 2) - a = m + 2
      BY <1>1
    <2> QED BY <1>1, <1>2, <2>1
  <1>7. ASSUME NEW i \in 1..a PROVE v[i] = l[i]
    <2>1. i \in 1..(a + m) /\ i <= a
      BY <1>1
    <2> QED BY <1>3, <2>1
  <1>8. Line(u, v)
    BY <1>2, <1>3, <1>4, <1>5, <1>6 DEF Line, Smooth
  <1> QED BY <1>3, <1>4, <1>7, <1>8 DEF u, v, a

\* A line without its CR is polled together with the line behind it.
LEMMA TakenWithoutCR ==
  ASSUME rx \in Seq(Byte), wire \in Seq(Byte), NEW lines, Framed(rx \o wire, lines),
         lines # <<>>, NEW g, NEW head, Line(g, head), Without(lines[1], g, Len(head) + 1),
         Len(lines) >= 2 => \E head2 : Line(lines[2], head2),
         NEW org,
         \A h \in Seq(Byte) : /\ Len(h) > Len(head) /\ h[Len(head) + 1] = "LF"
                              /\ \A k \in 1..Len(head) : h[k] = head[k]
              => ReadFrom(h, org[1], FALSE),
         NEW r \in DOMAIN rx, LineEnd(r)
  PROVE  Taken(r, lines, org, 1)
PROOF
  <1> DEFINE m == Len(head)
             l == lines[1]
             x == Len(rx)
             n == Len(lines)
  <1>1. /\ head \in Seq(Byte) /\ Len(g) = m + 2 /\ (\A i \in 1..m : head[i] # "CR")
        /\ (\A i \in 1..m : g[i] = head[i]) /\ g[m + 2] = "LF"
    BY DEF Line, Smooth
  <1>2. m \in Nat /\ x \in Nat
    BY <1>1, LenProperties
  <1>3. /\ l \in Seq(Byte) /\ Len(l) = Len(g) - 1 /\ (\A i \in 1..((m + 1) - 1) : l[i] = g[i])
        /\ \A i \in (m + 1)..Len(l) : l[i] = g[i + 1]
    BY DEF Without
  <1>4. r \in 1..x /\ rx[r] = "CR"
    <2>1. DOMAIN rx = 1..x
      BY LenProperties
    <2> QED BY <2>1 DEF LineEnd
  <1>5. n \in Nat \ {0}
    BY EmptySeq DEF Framed
  <1>6. /\ \A i \in 1..Len(l) : i <= x => rx[i] = l[i]
        /\ n = 1 => x <= Len(l)
    BY RxStarts
  <1> HIDE DEF m, l, x, n
  <1>7. Len(l) = m + 1 /\ (\A i \in 1..m : l[i] = head[i]) /\ l[m + 1] = "LF"
    <2>1. /\ Len(l) = m + 1 /\ m + 1 \in (m + 1)..(m + 1) /\ (m + 1) + 1 = m + 2
          /\ \A i \in 1..m : i \in 1..((m + 1) - 1)
      BY <1>1, <1>2, <1>3
    <2> QED BY <1>1, <1>3, <2>1
  <1>8. Smooth(l)
    <2>1. \A i \in 1..(m + 1) : i \in 1..m \/ i = m + 1
      BY <1>2
    <2> QED BY <1>1, <1>3, <1>7, <2>1 DEF Smooth
  <1>9. n >= 2
    <2> SUFFICES ASSUME n = 1 PROVE FALSE
      BY <1>5
    <2>1. r \in 1..Len(l) /\ r <= x
      BY <1>2, <1>4, <1>6, <1>7
    <2> QED BY <1>4, <1>6, <1>8, <2>1 DEF Smooth
  <1>10. PICK head2 : Line(lines[2], head2)
    BY <1>9 DEF n
  <1>11. PICK ls : Merged(rx \o wire, lines, ls)
    BY <1>9, FramedMerge DEF n
  <1>12. /\ Framed(rx \o wire, ls) /\ Len(ls) = n - 1 /\ ls[1] = l \o lines[2]
         /\ \A k \in 2..(n - 1) : ls[k] = lines[k + 1]
    BY <1>11 DEF Merged, n, l
  <1> DEFINE h == l \o head2
  <1>13. Line(l \o lines[2], h) /\ Len(h) >= Len(l) /\ \A i \in 1..Len(l) : h[i] = l[i]
    BY <1>8, <1>10, LinesJoin
  <1> HIDE DEF h
  <1>14. ls # <<>> /\ ls \in Seq(Seq(Byte))
    <2>1. ls \in Seq(Seq(Byte))
      BY <1>12 DEF Framed
    <2>2. Len(ls) # 0
      BY <1>5, <1>9, <1>12
    <2> QED BY <2>1, <2>2, EmptySeq
  <1>15. FirstInRx(ls, h)
    BY <1>12, <1>13, <1>14, FirstInRxFacts
  <1>16. /\ LineUpTo(r) = h /\ SubSeq(rx, r + 2, Len(rx)) \in Seq(Byte)
         /\ Framed(SubSeq(rx, r + 2, Len(rx)) \o wire, Tail(ls))
    BY <1>15 DEF FirstInRx
  <1>17. ReadFrom(h, org[1], FALSE)
    <2>1. h \in Seq(Byte)
      BY <1>13 DEF Line, Smooth
    <2>2. Len(h) \in Nat
      BY <2>1, LenProperties
    <2>3. Len(h) > m
      BY <1>2, <1>7, <1>13, <2>2
    <2>4. ASSUME NEW k \in 1..m PROVE h[k] = head[k]
      <3>1. k \in 1..(m + 1)
        BY <1>2
      <3> QED BY <1>7, <1>13, <3>1
    <2>5. h[m + 1] = "LF"
      <3>1. m + 1 \in 1..(m + 1)
        BY <1>2
      <3> QED BY <1>7, <1>13, <3>1
    <2> QED BY <2>1, <2>3, <2>4, <2>5 DEF m
  <1> DEFINE ts == Tail(ls)
  <1>18. Len(ts) = Len(ls) - 1 /\ \A k \in 1..Len(ts) : ts[k] = ls[k + 1]
    BY <1>14, HeadTailProperties
  <1> HIDE DEF ts
  <1>19. ASSUME NEW k \in 1..Len(ts) PROVE ts[k] = lines[k + 2]
    <2>1. k + 1 \in 2..(n - 1) /\ (k + 1) + 1 = k + 2
      BY <1>5, <1>12, <1>18
    <2>2. ls[k + 1] = lines[(k + 1) + 1]
      BY <1>12, <2>1
    <2> QED BY <1>18, <2>1, <2>2
  <1>20. 2 \in 1..n /\ Len(ts) = n - 2
    BY <1>5, <1>9, <1>12, <1>18
  <1>21. DropFirst(ts, lines, 2)
    BY <1>19, <1>20 DEF DropFirst, n
  <1> QED BY <1>16, <1>17, <1>21 DEF Taken, ts

\* What is polled is the first line in flight: read as it was sent if it is whole. If it
\* lost its CR it is polled with the second line, and not read.
LEMMA PolledIsTaken ==
  ASSUME \A data \in Payloads : EndsNoLine(data), LinkTypeOK,
         \A k \in 1..Len(sent) : Transmitted(sent[k]),
         NEW lines, NEW org, NEW d, Orderly(lines, org, d), NEW r \in DOMAIN rx, LineEnd(r)
  PROVE  lines # <<>> /\ Taken(r, lines, org, d)
PROOF
  <1> DEFINE n == Len(lines)
  <1>1. rx \in Seq(Byte) /\ wire \in Seq(Byte) /\ Framed(rx \o wire, lines)
    BY DEF LinkTypeOK, Orderly
  <1>2. lines # <<>>
    <2> SUFFICES ASSUME lines = <<>> PROVE FALSE
      OBVIOUS
    <2>1. rx \o wire = <<>>
      BY <1>1, FramedEmpty
    <2>2. rx = <<>>
      BY <1>1, <2>1, ConcatEqualIffEmpty
    <2>3. DOMAIN rx = {}
      BY <1>1, <2>2, LenProperties, EmptySeq
    <2> QED BY <2>3
  <1>3. n \in Nat \ {0}
    BY <1>1, <1>2, EmptySeq DEF Framed
  <1>4. /\ org \in [1..n -> 0..Len(sent)] /\ d \in 0..n
        /\ \A k \in 1..n : k # d => Whole(lines[k], org[k])
        /\ d # 0 => \E g, j : Whole(g, org[d]) /\ Without(lines[d], g, j)
    BY DEF Orderly
  <1> HIDE DEF n
  <1>5. 1 \in 1..n /\ org[1] \in 0..Len(sent)
    BY <1>3, <1>4
  <1>6. CASE d # 1
    <2>1. Whole(lines[1], org[1])
      BY <1>4, <1>5, <1>6
    <2>2. PICK head : WholeLine(lines[1], org[1], head)
      BY <1>5, <2>1, WholeLineFacts
    <2>3. ReadFrom(head, org[1], d # 1)
      BY <1>5, <1>6, <2>2, HeadsRead
    <2>4. Line(lines[1], head)
      BY <2>2 DEF WholeLine
    <2> QED BY <1>1, <1>2, <2>3, <2>4, FirstTaken
  <1>7. CASE d = 1
    <2>1. PICK g, j : Whole(g, org[1]) /\ Without(lines[1], g, j)
      BY <1>4, <1>7
    <2>2. PICK head : WholeLine(g, org[1], head)
      BY <1>5, <2>1, WholeLineFacts
    <2>3. Line(g, head)
      BY <2>2 DEF WholeLine
    <2>4. /\ \A h, i : Without(h, head, i) => ReadFrom(h, org[1], FALSE)
          /\ \A h \in Seq(Byte) : /\ Len(h) > Len(head) /\ h[Len(head) + 1] = "LF"
                                  /\ \A k \in 1..Len(head) : h[k] = head[k]
               => ReadFrom(h, org[1], FALSE)
      BY <1>5, <2>2, HeadsRead
    <2> DEFINE m == Len(head)
    <2>5. m \in Nat /\ j \in 1..(m + 2)
      <3>1. head \in Seq(Byte) /\ Len(g) = m + 2
        BY <2>3 DEF Line, Smooth
      <3>2. j \in 1..Len(g)
        BY <2>1 DEF Without
      <3> QED BY <3>1, <3>2, LenProperties
    <2>6. ASSUME n >= 2 PROVE \E head2 : WholeLine(lines[2], org[2], head2)
      <3>1. 2 \in 1..n /\ 2 # d
        BY <1>3, <1>7, <2>6
      <3>2. Whole(lines[2], org[2]) /\ org[2] \in 0..Len(sent)
        BY <1>4, <3>1
      <3> QED BY <3>2, WholeLineFacts
    <2>7. CASE j <= m
      <3>1. Line(lines[1], RemoveAt(head, j)) /\ Without(RemoveAt(head, j), head, j)
        BY <2>1, <2>3, <2>7, ShortLine
      <3>2. ReadFrom(RemoveAt(head, j), org[1], d # 1)
        BY <1>7, <2>4, <3>1
      <3> QED BY <1>1, <1>2, <3>1, <3>2, FirstTaken
    <2>8. CASE j = m + 1
      <3>1. n >= 2 => \E head2 : Line(lines[2], head2)
        BY <2>6 DEF WholeLine
      <3> QED BY <1>1, <1>2, <1>7, <2>1, <2>3, <2>4, <2>8, <3>1, TakenWithoutCR DEF n
    <2>9. CASE j = m + 2
      <3>1. ASSUME n >= 2 PROVE Len(lines[2]) >= 1 /\ lines[2][1] # "LF"
        <4>1. PICK head2 : WholeLine(lines[2], org[2], head2)
          BY <2>6, <3>1
        <4> DEFINE x == Len(head2)
        <4>2. /\ head2 \in Seq(Byte) /\ Len(lines[2]) = x + 2 /\ x >= 1 /\ head2[1] # "LF"
              /\ \A i \in 1..x : lines[2][i] = head2[i]
          BY <4>1 DEF WholeLine, Line, Smooth
        <4>3. x \in Nat
          BY <4>2, LenProperties
        <4> HIDE DEF x
        <4>4. 1 \in 1..x /\ x + 2 >= 1
          BY <4>2, <4>3
        <4> QED BY <4>2, <4>4
      <3>2. FALSE
        BY <1>1, <1>2, <2>1, <2>3, <2>9, <3>1, NoEndWithoutLF DEF n
      <3> QED BY <3>2
    <2>10. j <= m \/ j = m + 1 \/ j = m + 2
      <3> HIDE DEF m
      <3> QED BY <2>5
    <2>11. Taken(r, lines, org, d)
      BY <2>7, <2>8, <2>9, <2>10
    <2> QED BY <1>2, <2>11
  <1> QED BY <1>2, <1>6, <1>7

-----------------------------------------------------------------------------
(* With a byte lost: the invariant                                         *)

\* f gives each event returned the transmission it is of; one, hit, may be misread.
Returned(f, hit) ==
  /\ f \in [1..Len(got) -> 1..Len(sent)] /\ hit \in 0..Len(got)
  /\ \A i, j \in 1..Len(got) : i < j => f[i] < f[j]
  /\ \A i \in 1..Len(got) : got[i] = sent[f[i]] \/ (i = hit /\ Misread(got[i], sent[f[i]]))

\* The line that lost a byte is in flight, or the event read of it was returned, or neither.
OneLost(d, hit) == (d # 0 => hit = 0) /\ (hit # 0 => noise # 0)

\* The lines in flight are of later ones.
Later(f, lines, org) ==
  \A i \in 1..Len(got), k \in 1..Len(lines) : org[k] # 0 => f[i] < org[k]

Held ==
  /\ \A i \in 1..Len(sent) : Transmitted(sent[i])
  /\ \E lines, org, d, f, hit :
       Orderly(lines, org, d) /\ Returned(f, hit) /\ Later(f, lines, org) /\ OneLost(d, hit)

LossInv == LinkTypeOK /\ Held

\* The numbers of lines, transmissions and events.
LEMMA Counts ==
  ASSUME LinkTypeOK, NEW lines, NEW org, NEW d, Orderly(lines, org, d)
  PROVE  /\ Len(lines) \in Nat /\ Len(sent) \in Nat /\ Len(got) \in Nat
         /\ lines \in Seq(Seq(Byte)) /\ \A k \in 1..Len(lines) : org[k] \in 0..Len(sent)
PROOF
  <1>1. lines \in Seq(Seq(Byte)) /\ org \in [1..Len(lines) -> 0..Len(sent)]
    BY DEF Orderly, Framed
  <1>2. sent \in Seq(Event) /\ got \in Seq(Event)
    BY DEF LinkTypeOK
  <1> QED BY <1>1, <1>2, LenProperties

\* More is sent.
LEMMA ReturnedStays ==
  ASSUME LinkTypeOK, NEW f, NEW hit, Returned(f, hit), UNCHANGED got, Len(sent') \in Nat,
         Len(sent) <= Len(sent'), \A i \in 1..Len(sent) : sent'[i] = sent[i]
  PROVE  Returned(f, hit)'
PROOF
  <1> DEFINE m == Len(got)
             s == Len(sent)
             t == Len(sent')
  <1>1. /\ f \in [1..m -> 1..s] /\ \A i, j \in 1..m : i < j => f[i] < f[j]
        /\ \A i \in 1..m : got[i] = sent[f[i]] \/ (i = hit /\ Misread(got[i], sent[f[i]]))
        /\ hit \in 0..m
    BY DEF Returned
  <1>2. s \in Nat /\ t \in Nat /\ s <= t /\ Len(got') = m /\ \A i \in 1..s : sent'[i] = sent[i]
    BY LenProperties DEF LinkTypeOK
  <1> HIDE DEF m, s, t
  <1>3. 1..s \subseteq 1..t
    BY <1>2
  <1>4. f \in [1..m -> 1..t] /\ \A i \in 1..m : sent'[f[i]] = sent[f[i]]
    BY <1>1, <1>2, <1>3
  <1>5. ASSUME NEW i \in 1..m
        PROVE  got'[i] = sent'[f[i]] \/ (i = hit /\ Misread(got'[i], sent'[f[i]]))
    BY <1>1, <1>4, <1>5
  <1> QED BY <1>1, <1>2, <1>4, <1>5 DEF Returned, t

LEMMA BehindWire ==
  ASSUME LinkTypeOK, NEW l \in Seq(Byte)
  PROVE  (rx \o wire) \o l = rx \o (wire \o l)
PROOF
  <1>1. rx \in Seq(Byte) /\ wire \in Seq(Byte) /\ l \in Seq(Byte)
    BY DEF LinkTypeOK
  <1> QED BY <1>1, ConcatAssociative

\* A line is sent: of a new transmission a, or an answer, where a is 0.
LEMMA LineSent ==
  ASSUME LinkTypeOK, NEW lines, NEW org, NEW d, Orderly(lines, org, d), NEW f, NEW hit,
         Returned(f, hit), Later(f, lines, org), OneLost(d, hit),
         NEW l \in Seq(Byte), wire' = wire \o l,
         UNCHANGED <<rx, got, noise>>, Len(sent') \in Nat, Len(sent) <= Len(sent'),
         \A i \in 1..Len(sent) : sent'[i] = sent[i],
         NEW a \in 0..Len(sent'), a # 0 => a > Len(sent), Whole(l, a)'
  PROVE  \E ls, o :
           (Orderly(ls, o, d) /\ Returned(f, hit) /\ Later(f, ls, o) /\ OneLost(d, hit))'
PROOF
  <1> DEFINE n == Len(lines)
             s == Len(sent)
             t == Len(sent')
             ls == Append(lines, l)
             o == [k \in 1..(n + 1) |-> IF k = n + 1 THEN a ELSE org[k]]
  <1>1. /\ n \in Nat /\ s \in Nat /\ t \in Nat /\ s <= t
        /\ lines \in Seq(Seq(Byte)) /\ \A k \in 1..n : org[k] \in 0..s
    BY Counts
  <1>2. /\ Framed(rx \o wire, lines) /\ d \in 0..n
        /\ \A k \in 1..n : k # d => Whole(lines[k], org[k])
        /\ d # 0 => noise # 0 /\ \E g, j : Whole(g, org[d]) /\ Without(lines[d], g, j)
        /\ \A j, k \in 1..n : j < k /\ org[j] # 0 /\ org[k] # 0 => org[j] < org[k]
    BY DEF Orderly
  <1>3. ls \in Seq(Seq(Byte)) /\ Len(ls) = n + 1 /\ ls[n + 1] = l
        /\ \A k \in 1..n : ls[k] = lines[k]
    BY <1>1, AppendProperties
  <1> HIDE DEF ls, n, s, t
  <1>4. Framed(rx' \o wire', ls)
    <2>1. Framed((rx \o wire) \o l, ls)
      BY <1>2, FramedAppend DEF ls
    <2>2. (rx \o wire) \o l = rx \o (wire \o l)
      BY BehindWire
    <2> QED BY <2>1, <2>2
  <1>5. \A x, i : i \in 0..s /\ Whole(x, i) => Whole(x, i)'
    <2>1. \A i \in 0..s : i # 0 => i \in 1..s
      OBVIOUS
    <2> QED BY <2>1 DEF Whole, s
  <1>6. \A k \in 1..(n + 1) : o[k] = IF k = n + 1 THEN a ELSE org[k]
    OBVIOUS
  <1>7. o \in [1..(n + 1) -> 0..t]
    <2>1. ASSUME NEW k \in 1..(n + 1) PROVE (IF k = n + 1 THEN a ELSE org[k]) \in 0..t
      <3>1. CASE k = n + 1
        BY <3>1 DEF t
      <3>2. CASE k # n + 1
        <4>1. k \in 1..n
          BY <1>1, <3>2
        <4>2. org[k] \in 0..s
          BY <1>1, <4>1
        <4>3. org[k] \in 0..t
          BY <1>1, <4>2
        <4> QED BY <3>2, <4>3
      <3> QED BY <3>1, <3>2
    <2> QED BY <2>1
  <1> HIDE DEF o
  <1>8. ASSUME NEW k \in 1..n
        PROVE  k \in 1..(n + 1) /\ o[k] = org[k] /\ ls[k] = lines[k] /\ org[k] \in 0..s
    <2>1. k \in 1..(n + 1) /\ k # n + 1
      BY <1>1
    <2> QED BY <1>1, <1>3, <1>6, <2>1
  <1>9. n + 1 \in 1..(n + 1) /\ o[n + 1] = a
    <2>1. n + 1 \in 1..(n + 1)
      BY <1>1
    <2> QED BY <1>6, <2>1
  <1>10. \A k \in 1..(n + 1) : k = n + 1 \/ k \in 1..n
    BY <1>1
  <1>11. ASSUME NEW k \in 1..(n + 1), k # d PROVE Whole(ls[k], o[k])'
    <2>1. CASE k = n + 1
      BY <1>3, <1>9, <2>1
    <2>2. CASE k # n + 1
      <3>1. k \in 1..n
        BY <1>10, <2>2
      <3>2. Whole(lines[k], org[k])
        BY <1>2, <1>11, <3>1
      <3>3. Whole(lines[k], org[k])'
        BY <1>5, <1>8, <3>1, <3>2
      <3> QED BY <1>8, <3>1, <3>3
    <2> QED BY <2>1, <2>2
  <1>12. ASSUME d # 0 PROVE noise' # 0 /\ \E g, j : Whole(g, o[d])' /\ Without(ls[d], g, j)
    <2>1. PICK g, j : Whole(g, org[d]) /\ Without(lines[d], g, j)
      BY <1>2, <1>12
    <2>2. d \in 1..n
      BY <1>1, <1>2, <1>12
    <2>3. Whole(g, org[d])'
      BY <1>5, <1>8, <2>1, <2>2
    <2>4. Whole(g, o[d])' /\ Without(ls[d], g, j)
      BY <1>8, <2>1, <2>2, <2>3
    <2> QED BY <1>2, <1>12, <2>4
  <1>13. ASSUME NEW j \in 1..(n + 1), NEW k \in 1..(n + 1), j < k, o[j] # 0, o[k] # 0
         PROVE  o[j] < o[k]
    <2>1. j \in 1..n
      BY <1>1, <1>13
    <2>2. CASE k = n + 1
      <3>1. o[j] \in 0..s /\ o[k] = a /\ a # 0
        BY <1>8, <1>9, <1>13, <2>1, <2>2
      <3>2. a > s /\ a \in Nat
        BY <1>1, <3>1 DEF s, t
      <3> QED BY <1>1, <3>1, <3>2
    <2>3. CASE k # n + 1
      <3>1. k \in 1..n
        BY <1>10, <2>3
      <3> QED BY <1>2, <1>8, <1>13, <2>1, <3>1
    <2> QED BY <2>2, <2>3
  <1>14. d \in 0..(n + 1)
    BY <1>1, <1>2
  <1>15. Orderly(ls, o, d)'
    BY <1>3, <1>4, <1>7, <1>11, <1>12, <1>13, <1>14 DEF Orderly, t
  <1>16. Returned(f, hit)' /\ OneLost(d, hit)'
    BY ReturnedStays DEF OneLost
  <1>17. \A i \in 1..Len(got) : f[i] \in 1..s
    BY DEF Returned, s
  <1> DEFINE m == Len(got)
  <1>18. got' = got /\ Len(got') = m
    OBVIOUS
  <1> HIDE DEF m
  <1>19. \A i \in 1..m : f[i] \in 1..s
    BY <1>17 DEF m
  <1>20. Later(f, ls, o)'
    <2>1. ASSUME NEW i \in 1..m, NEW k \in 1..(n + 1), o[k] # 0 PROVE f[i] < o[k]
      <3>1. CASE k = n + 1
        <4>1. f[i] \in 1..s /\ o[k] = a /\ a # 0
          BY <1>9, <1>19, <2>1, <3>1
        <4>2. a > s /\ a \in Nat
          BY <1>1, <4>1 DEF s, t
        <4> QED BY <1>1, <4>1, <4>2
      <3>2. CASE k # n + 1
        <4>1. k \in 1..n
          BY <1>10, <3>2
        <4>2. org[k] # 0 => f[i] < org[k]
          BY <4>1 DEF Later, n, m
        <4> QED BY <1>8, <2>1, <4>1, <4>2
      <3> QED BY <3>1, <3>2
    <2> QED BY <1>3, <1>18, <2>1 DEF Later
  <1> QED BY <1>15, <1>16, <1>20

\* The first m lines are dropped.
LEMMA LinesDropped ==
  ASSUME LinkTypeOK, NEW lines, NEW org, NEW d, Orderly(lines, org, d), NEW f,
         Later(f, lines, org), NEW ls, NEW m, DropFirst(ls, lines, m),
         Framed(rx' \o wire', ls), UNCHANGED <<sent, noise>>
  PROVE  LET o == [k \in 1..Len(ls) |-> org[k + m]]
             c == IF d > m THEN d - m ELSE 0
         IN  /\ Orderly(ls, o, c)' /\ Later(f, ls, o) /\ (c # 0 => d # 0 /\ d # 1)
             /\ \A k \in 1..Len(ls) : o[k] = org[k + m] /\ k + m \in 2..Len(lines)
PROOF
  <1> DEFINE n == Len(lines)
             h == Len(ls)
             s == Len(sent)
             o == [k \in 1..h |-> org[k + m]]
             c == IF d > m THEN d - m ELSE 0
  <1>1. /\ n \in Nat /\ s \in Nat /\ \A k \in 1..n : org[k] \in 0..s
    BY Counts
  <1>2. /\ m \in 1..n /\ h = n - m /\ \A k \in 1..h : ls[k] = lines[k + m]
    BY DEF DropFirst
  <1>3. /\ d \in 0..n
        /\ \A k \in 1..n : k # d => Whole(lines[k], org[k])
        /\ d # 0 => noise # 0 /\ \E g, j : Whole(g, org[d]) /\ Without(lines[d], g, j)
        /\ \A j, k \in 1..n : j < k /\ org[j] # 0 /\ org[k] # 0 => org[j] < org[k]
    BY DEF Orderly
  <1>4. sent' = sent /\ noise' = noise /\ Len(sent') = s
    OBVIOUS
  <1>5. \A k \in 1..h : o[k] = org[k + m]
    OBVIOUS
  <1> HIDE DEF n, h, s, o
  <1>6. h \in Nat /\ \A k \in 1..h : k + m \in 2..n /\ k + m \in 1..n
    BY <1>1, <1>2
  <1>7. o \in [1..h -> 0..s]
    <2>1. \A k \in 1..h : org[k + m] \in 0..s
      BY <1>1, <1>6
    <2> QED BY <2>1 DEF o
  <1>8. c \in 0..h /\ (\A k \in 1..h : k # c => k + m # d)
        /\ (c # 0 => c + m = d /\ d # 0 /\ d # 1 /\ c \in 1..h)
    BY <1>1, <1>2, <1>3
  <1> HIDE DEF c
  <1>9. ASSUME NEW k \in 1..h, k # c PROVE Whole(ls[k], o[k])'
    <2>1. Whole(lines[k + m], org[k + m])
      BY <1>3, <1>6, <1>8, <1>9
    <2>2. Whole(ls[k], o[k])
      BY <1>2, <1>5, <2>1
    <2> QED BY <1>4, <2>2 DEF Whole
  <1>10. ASSUME c # 0 PROVE noise' # 0 /\ \E g, j : Whole(g, o[c])' /\ Without(ls[c], g, j)
    <2>1. PICK g, j : Whole(g, org[d]) /\ Without(lines[d], g, j)
      BY <1>3, <1>8, <1>10
    <2>2. ls[c] = lines[d] /\ o[c] = org[d]
      BY <1>2, <1>5, <1>8, <1>10
    <2>3. Whole(g, o[c])'
      BY <1>4, <2>1, <2>2 DEF Whole
    <2> QED BY <1>3, <1>4, <1>8, <1>10, <2>1, <2>2, <2>3
  <1>11. ASSUME NEW j \in 1..h, NEW k \in 1..h, j < k, o[j] # 0, o[k] # 0 PROVE o[j] < o[k]
    <2>1. j + m \in 1..n /\ k + m \in 1..n
      BY <1>6
    <2>2. j + m < k + m
      BY <1>1, <1>2, <1>11
    <2> QED BY <1>3, <1>5, <1>11, <2>1, <2>2
  <1>12. Orderly(ls, o, c)'
    BY <1>4, <1>7, <1>8, <1>9, <1>10, <1>11 DEF Orderly, h
  <1>13. ASSUME NEW i \in 1..Len(got), NEW k \in 1..h, o[k] # 0 PROVE f[i] < o[k]
    <2>1. org[k + m] # 0 /\ k + m \in 1..n /\ o[k] = org[k + m]
      BY <1>5, <1>6, <1>13
    <2> QED BY <2>1 DEF Later, n
  <1>14. Later(f, ls, o)
    BY <1>13 DEF Later, h
  <1> QED BY <1>5, <1>6, <1>8, <1>12, <1>14 DEF o, c, h, n

\* A peer sends a payload.
LEMMA PeerSendsHeld ==
  ASSUME LinkTypeOK, Held, NEW data \in Payloads, NEW signal \in Signals,
         PeerSends(data, signal)
  PROVE  Held'
PROOF
  <1> DEFINE e == [from |-> signal.from, data |-> data,
                   rssi |-> signal.rssi, snr |-> signal.snr]
             l == RcvLine(data, signal)
             s == Len(sent)
  <1>1. /\ sent' = Append(sent, e) /\ wire' = wire \o l /\ UNCHANGED <<rx, got, noise>>
    BY DEF PeerSends
  <1>2. signal \in Signal /\ l \in Seq(Byte) /\ data \in Seq(Byte)
    BY WireBytes
  <1>3. e \in Event
    BY <1>2 DEF Signal, Event
  <1>4. signal = [from |-> signal.from, rssi |-> signal.rssi, snr |-> signal.snr]
    BY <1>2 DEF Signal
  <1>5. SignalOf(e) = signal /\ e.data = data
    BY <1>4 DEF SignalOf
  <1>6. Transmitted(e) /\ LineOf(e) = l
    BY <1>5 DEF Transmitted, LineOf
  <1>7. sent \in Seq(Event) /\ s \in Nat
    BY LenProperties DEF LinkTypeOK
  <1> HIDE DEF e, l, s
  <1>8. Len(sent') = s + 1 /\ sent'[s + 1] = e /\ \A i \in 1..s : sent'[i] = sent[i]
    BY <1>1, <1>3, <1>7, AppendProperties DEF s
  <1>9. ASSUME NEW i \in 1..Len(sent') PROVE Transmitted(sent'[i])
    <2>1. i = s + 1 \/ i \in 1..s
      BY <1>7, <1>8
    <2>2. \A j \in 1..s : Transmitted(sent[j])
      BY DEF Held, s
    <2> QED BY <1>6, <1>8, <2>1, <2>2
  <1>10. PICK lines, org, d, f, hit :
          /\ Orderly(lines, org, d) /\ Returned(f, hit) /\ Later(f, lines, org)
          /\ OneLost(d, hit)
    BY DEF Held
  <1>11. PICK a : a = s + 1
    OBVIOUS
  <1>12. /\ Len(sent') \in Nat /\ s <= Len(sent') /\ a \in 0..Len(sent') /\ a > s /\ a # 0
         /\ sent'[a] = e
    BY <1>7, <1>8, <1>11
  <1>13. Whole(l, a)'
    BY <1>6, <1>12 DEF Whole
  <1>14. /\ Len(sent) <= Len(sent') /\ (a # 0 => a > Len(sent))
         /\ \A i \in 1..Len(sent) : sent'[i] = sent[i]
    BY <1>8, <1>12 DEF s
  <1>15. \E ls, o : (Orderly(ls, o, d) /\ Returned(f, hit) /\ Later(f, ls, o) /\ OneLost(d, hit))'
    BY <1>1, <1>2, <1>10, <1>12, <1>13, <1>14, LineSent
  <1> QED BY <1>9, <1>15 DEF Held

\* The host sets a value and asks for it.
LEMMA HostAsksHeld ==
  ASSUME LinkTypeOK, Held, NEW s \in Settings, HostSetsAndAsks(s)
  PROVE  Held'
PROOF
  <1> DEFINE l == AnswerLine(s)
             m == Len(sent)
  <1>1. wire' = wire \o l /\ UNCHANGED <<rx, sent, got, noise>>
    BY DEF HostSetsAndAsks
  <1>2. l \in Seq(Byte)
    BY SettingLine
  <1>3. Whole(l, 0)'
    BY DEF Whole
  <1> HIDE DEF l
  <1>4. sent \in Seq(Event) /\ m \in Nat
    BY LenProperties DEF LinkTypeOK
  <1>5. PICK lines, org, d, f, hit :
          /\ Orderly(lines, org, d) /\ Returned(f, hit) /\ Later(f, lines, org)
          /\ OneLost(d, hit)
    BY DEF Held
  <1>6. Len(sent') \in Nat /\ m <= Len(sent') /\ 0 \in 0..Len(sent')
    <2>1. Len(sent') = m
      BY <1>1
    <2> HIDE DEF m
    <2> QED BY <1>4, <2>1
  <1>7. \E ls, o : (Orderly(ls, o, d) /\ Returned(f, hit) /\ Later(f, ls, o) /\ OneLost(d, hit))'
    BY <1>1, <1>2, <1>3, <1>5, <1>6, LineSent
  <1> QED BY <1>1, <1>7 DEF Held

\* The wire loses a byte, and none before.
LEMMA WireLosesHeld ==
  ASSUME MaxNoise <= 1, LinkTypeOK, Held, NEW i \in DOMAIN wire, WireLosesByte(i)
  PROVE  Held'
PROOF
  <1>1. wire' = RemoveAt(wire, i) /\ noise < MaxNoise /\ noise' = noise + 1
        /\ UNCHANGED <<rx, sent, got>>
    BY DEF WireLosesByte
  <1>2. noise = 0 /\ noise' # 0
    <2>1. noise \in Nat /\ MaxNoise \in Nat
      BY LinkAssumption DEF LinkTypeOK
    <2> QED BY <1>1, <2>1
  <1>3. rx \in Seq(Byte) /\ wire \in Seq(Byte) /\ i \in 1..Len(wire)
    BY LenProperties DEF LinkTypeOK
  <1>4. PICK lines, org, d, f, hit :
          /\ Orderly(lines, org, d) /\ Returned(f, hit) /\ Later(f, lines, org)
          /\ OneLost(d, hit)
    BY DEF Held
  <1>5. /\ Framed(rx \o wire, lines) /\ org \in [1..Len(lines) -> 0..Len(sent)]
        /\ \A k \in 1..Len(lines) : Whole(lines[k], org[k])
        /\ \A j, k \in 1..Len(lines) : j < k /\ org[j] # 0 /\ org[k] # 0 => org[j] < org[k]
    <2>1. d = 0
      BY <1>2, <1>4 DEF Orderly
    <2>2. Len(lines) \in Nat
      BY <1>4, Counts
    <2>3. \A k \in 1..Len(lines) : k # d
      BY <2>1, <2>2
    <2> QED BY <1>4, <2>3 DEF Orderly
  <1>6. Without(wire', wire, i)
    BY <1>1, <1>3, RemoveIs
  <1>7. Without(rx \o wire', rx \o wire, Len(rx) + i)
    BY <1>3, <1>6, LostBehind
  <1>8. PICK ls, c, j : Shortened(rx \o wire', lines, ls, c, j)
    BY <1>5, <1>7, FramedRemove
  <1>9. /\ Framed(rx' \o wire', ls) /\ Len(ls) = Len(lines) /\ c \in 1..Len(lines)
        /\ Without(ls[c], lines[c], j)
        /\ \A k \in 1..Len(lines) : k # c => ls[k] = lines[k]
    BY <1>1, <1>8 DEF Shortened
  <1>10. \A k \in 1..Len(lines) : Whole(lines[k], org[k])'
    BY <1>1, <1>5 DEF Whole
  <1>11. c \in 0..Len(ls)
    <2>1. Len(lines) \in Nat
      BY <1>4, Counts
    <2> QED BY <1>9, <2>1
  <1>12. Orderly(ls, org, c)'
    BY <1>1, <1>2, <1>5, <1>9, <1>10, <1>11 DEF Orderly
  <1>13. Returned(f, hit)' /\ Later(f, ls, org)' /\ OneLost(c, hit)'
    <2>1. hit = 0
      BY <1>2, <1>4 DEF OneLost
    <2>2. OneLost(c, hit)'
      BY <2>1 DEF OneLost
    <2> QED BY <1>1, <1>4, <1>9, <2>2 DEF Returned, Later
  <1>14. \A k \in 1..Len(sent') : Transmitted(sent'[k])
    BY <1>1 DEF Held
  <1> QED BY <1>12, <1>13, <1>14 DEF Held

\* A read for all of which rx has room.
LEMMA HostReadsHeld ==
  ASSUME LinkTypeOK, Held, NEW n \in ReadSizes, HostReads(n), Len(rx) + n <= RX_BUF
  PROVE  Held'
PROOF
  <1> DEFINE fits == Min({n, RX_BUF - Len(rx)})
  <1>1. /\ rx \in Seq(Byte) /\ wire \in Seq(Byte) /\ n \in Nat /\ n <= Len(wire)
        /\ Len(rx) <= RX_BUF
    BY LinkAssumption DEF LinkTypeOK, HostReads
  <1>2. fits = n
    BY <1>1, ReadType
  <1>3. /\ rx' = rx \o SubSeq(wire, 1, fits) /\ wire' = SubSeq(wire, n + 1, Len(wire))
        /\ UNCHANGED <<sent, got, noise>>
    BY DEF HostReads
  <1> HIDE DEF fits
  <1>4. n \in 0..Len(wire)
    <2> DEFINE w == Len(wire)
    <2>1. w \in Nat /\ n <= w
      BY <1>1, LenProperties
    <2> HIDE DEF w
    <2>2. n \in 0..w
      BY <1>1, <2>1
    <2> QED BY <2>2 DEF w
  <1>5. (rx \o SubSeq(wire, 1, n)) \o SubSeq(wire, n + 1, Len(wire)) = rx \o wire
    BY <1>1, <1>4, MoveBytes
  <1>6. rx' \o wire' = rx \o wire
    BY <1>2, <1>3, <1>5
  <1>7. PICK lines, org, d, f, hit :
          /\ Orderly(lines, org, d) /\ Returned(f, hit) /\ Later(f, lines, org)
          /\ OneLost(d, hit)
    BY DEF Held
  <1>8. Orderly(lines, org, d)'
    <2>1. \A l, i : Whole(l, i) => Whole(l, i)'
      BY <1>3 DEF Whole
    <2> QED BY <1>3, <1>6, <1>7, <2>1 DEF Orderly
  <1>9. Returned(f, hit)' /\ Later(f, lines, org)' /\ OneLost(d, hit)'
    BY <1>3, <1>7 DEF Returned, Later, OneLost
  <1>10. \A k \in 1..Len(sent') : Transmitted(sent'[k])
    BY <1>3 DEF Held
  <1> QED BY <1>8, <1>9, <1>10 DEF Held

\* poll takes a line for the answer.
LEMMA HostAnswerHeld ==
  ASSUME \A data \in Payloads : EndsNoLine(data), LinkTypeOK, Held,
         NEW r \in DOMAIN rx, HostPollsAnswer(r)
  PROVE  Held'
PROOF
  <1>1. /\ LineEnd(r) /\ rx' = SubSeq(rx, r + 2, Len(rx)) /\ UNCHANGED <<wire, sent, got, noise>>
    BY DEF HostPollsAnswer, Drain
  <1>2. \A k \in 1..Len(sent) : Transmitted(sent[k])
    BY DEF Held
  <1>3. PICK lines, org, d, f, hit :
          /\ Orderly(lines, org, d) /\ Returned(f, hit) /\ Later(f, lines, org)
          /\ OneLost(d, hit)
    BY DEF Held
  <1>4. Taken(r, lines, org, d)
    BY <1>1, <1>2, <1>3, PolledIsTaken
  <1>5. PICK ls, m : DropFirst(ls, lines, m) /\ Framed(SubSeq(rx, r + 2, Len(rx)) \o wire, ls)
    BY <1>4 DEF Taken
  <1>6. Framed(rx' \o wire', ls)
    BY <1>1, <1>5
  <1> DEFINE o == [k \in 1..Len(ls) |-> org[k + m]]
             c == IF d > m THEN d - m ELSE 0
  <1>7. Orderly(ls, o, c)' /\ Later(f, ls, o) /\ (c # 0 => d # 0 /\ d # 1)
    BY <1>1, <1>3, <1>5, <1>6, LinesDropped
  <1> HIDE DEF o, c
  <1>8. Returned(f, hit)' /\ Later(f, ls, o)' /\ OneLost(c, hit)'
    BY <1>1, <1>3, <1>7 DEF Returned, Later, OneLost
  <1>9. \A k \in 1..Len(sent') : Transmitted(sent'[k])
    BY <1>1, <1>2
  <1> QED BY <1>7, <1>8, <1>9 DEF Held

\* poll takes a line for an event.
LEMMA HostEventHeld ==
  ASSUME \A data \in Payloads : EndsNoLine(data), LinkTypeOK, Held,
         NEW r \in DOMAIN rx, HostPollsEvent(r)
  PROVE  Held'
PROOF
  <1> DEFINE event == ParseRcv(LineUpTo(r))
             e == event.val
             s == Len(sent)
  <1>1. /\ LineEnd(r) /\ StartsWith(LineUpTo(r), "+RCV") /\ rx' = SubSeq(rx, r + 2, Len(rx))
        /\ got' = (IF event.ok THEN Append(got, e) ELSE got)
        /\ UNCHANGED <<wire, sent, noise>>
    BY DEF HostPollsEvent, Drain
  <1>2. \A k \in 1..s : Transmitted(sent[k])
    BY DEF Held
  <1>3. PICK lines, org, d, f, hit :
          /\ Orderly(lines, org, d) /\ Returned(f, hit) /\ Later(f, lines, org)
          /\ OneLost(d, hit)
    BY DEF Held
  <1>4. lines # <<>> /\ Taken(r, lines, org, d)
    BY <1>1, <1>2, <1>3, PolledIsTaken
  <1>5. PICK ls, m : DropFirst(ls, lines, m) /\ Framed(SubSeq(rx, r + 2, Len(rx)) \o wire, ls)
    BY <1>4 DEF Taken
  <1>6. Framed(rx' \o wire', ls)
    BY <1>1, <1>5
  <1> DEFINE o == [k \in 1..Len(ls) |-> org[k + m]]
             c == IF d > m THEN d - m ELSE 0
  <1>7. /\ Orderly(ls, o, c)' /\ Later(f, ls, o) /\ (c # 0 => d # 0 /\ d # 1)
        /\ \A k \in 1..Len(ls) : o[k] = org[k + m] /\ k + m \in 2..Len(lines)
    BY <1>1, <1>3, <1>5, <1>6, LinesDropped
  <1>8. \A k \in 1..Len(sent') : Transmitted(sent'[k])
    BY <1>1, <1>2
  <1>9. event.ok \in BOOLEAN /\ (event.ok => e \in Event)
    <2>1. LineUpTo(r) \in Seq(Byte)
      BY <1>1, DrainType DEF LinkTypeOK
    <2>2. LineUpTo(r) # <<>>
      BY <1>1 DEF StartsWith
    <2> QED BY <2>1, <2>2, ParseRcvType
  <1>10. event.ok => /\ org[1] # 0 /\ (d # 1 => e = sent[org[1]])
                     /\ e = sent[org[1]] \/ Misread(e, sent[org[1]])
    BY <1>1, <1>4 DEF Taken, ReadFrom
  <1> HIDE DEF o, c, event, e, s
  <1>11. CASE event.ok = FALSE
    <2>1. got' = got
      BY <1>1, <1>11, Zenon
    <2>2. Returned(f, hit)' /\ Later(f, ls, o)' /\ OneLost(c, hit)'
      BY <1>1, <1>3, <1>7, <2>1 DEF Returned, Later, OneLost
    <2> QED BY <1>7, <1>8, <2>2 DEF Held
  <1>12. CASE event.ok = TRUE
    <2> DEFINE g == Len(got)
               n == Len(lines)
    <2>1. got' = Append(got, e)
      BY <1>1, <1>12, Zenon
    <2>2. /\ org[1] # 0 /\ (d # 1 => e = sent[org[1]])
          /\ e = sent[org[1]] \/ Misread(e, sent[org[1]])
      BY <1>10, <1>12
    <2>3. got \in Seq(Event) /\ e \in Event
      BY <1>9, <1>12 DEF LinkTypeOK
    <2>4. /\ n \in Nat /\ s \in Nat /\ g \in Nat /\ \A k \in 1..n : org[k] \in 0..s
          /\ lines \in Seq(Seq(Byte))
      BY <1>3, Counts DEF s
    <2>5. Len(got') = g + 1 /\ got'[g + 1] = e /\ \A i \in 1..g : got'[i] = got[i]
      BY <2>1, <2>3, AppendProperties
    <2>6. n # 0
      BY <1>4, <2>4, EmptySeq
    <2>7. /\ f \in [1..g -> 1..s] /\ \A i, j \in 1..g : i < j => f[i] < f[j]
          /\ \A i \in 1..g : got[i] = sent[f[i]] \/ (i = hit /\ Misread(got[i], sent[f[i]]))
          /\ hit \in 0..g
      BY <1>3 DEF Returned, s
    <2>8. \A i \in 1..g, k \in 1..n : org[k] # 0 => f[i] < org[k]
      BY <1>3 DEF Later
    <2>9. \A j, k \in 1..n : j < k /\ org[j] # 0 /\ org[k] # 0 => org[j] < org[k]
      BY <1>3 DEF Orderly
    <2>10. /\ Len(got') = g + 1 /\ Len(sent') = s
      BY <1>1, <2>5 DEF s
    <2> HIDE DEF g, n
    <2>11. 1 \in 1..n /\ org[1] \in 1..s
      BY <2>2, <2>4, <2>6
    <2>12. PICK h : h = [i \in 1..(g + 1) |-> IF i = g + 1 THEN org[1] ELSE f[i]]
      OBVIOUS
    <2>13. /\ g + 1 \in 1..(g + 1) /\ h[g + 1] = org[1]
           /\ \A i \in 1..g : i \in 1..(g + 1) /\ h[i] = f[i]
      <3>1. g + 1 \in 1..(g + 1) /\ \A i \in 1..g : i \in 1..(g + 1) /\ i # g + 1
        BY <2>4
      <3> QED BY <2>12, <3>1
    <2>14. \A i \in 1..(g + 1) : i = g + 1 \/ i \in 1..g
      BY <2>4
    <2>15. h \in [1..(g + 1) -> 1..s]
      <3>1. \A i \in 1..(g + 1) : (IF i = g + 1 THEN org[1] ELSE f[i]) \in 1..s
        BY <2>7, <2>11, <2>14
      <3> QED BY <2>12, <3>1
    <2>16. ASSUME NEW i \in 1..(g + 1), NEW j \in 1..(g + 1), i < j PROVE h[i] < h[j]
      <3>1. i \in 1..g
        BY <2>4, <2>16
      <3>2. CASE j = g + 1
        BY <2>2, <2>8, <2>11, <2>13, <3>1, <3>2
      <3>3. CASE j # g + 1
        <4>1. j \in 1..g
          BY <2>14, <3>3
        <4> QED BY <2>7, <2>13, <2>16, <3>1, <4>1
      <3> QED BY <3>2, <3>3
    <2>17. PICK late : late = IF d = 1 THEN g + 1 ELSE hit
      OBVIOUS
    <2>18. ASSUME NEW i \in 1..(g + 1)
           PROVE  got'[i] = sent[h[i]] \/ (i = late /\ Misread(got'[i], sent[h[i]]))
      <3>1. CASE i = g + 1
        BY <2>2, <2>5, <2>13, <2>17, <3>1
      <3>2. CASE i # g + 1
        <4>1. i \in 1..g
          BY <2>14, <3>2
        <4>2. d = 1 => hit = 0
          BY <1>3 DEF OneLost
        <4>3. got'[i] = got[i] /\ h[i] = f[i]
          BY <2>5, <2>13, <4>1
        <4>4. CASE d = 1
          <5>1. i # hit
            BY <4>1, <4>2, <4>4
          <5> QED BY <2>7, <4>1, <4>3, <5>1
        <4>5. CASE d # 1
          BY <2>7, <2>17, <4>1, <4>3, <4>5
        <4> QED BY <4>4, <4>5
      <3> QED BY <3>1, <3>2
    <2>19. Returned(h, late)'
      <3>1. late \in 0..(g + 1)
        BY <2>4, <2>7, <2>17
      <3> QED BY <1>1, <2>10, <2>15, <2>16, <2>18, <3>1 DEF Returned
    <2>20. OneLost(c, late)'
      <3>1. c # 0 => late = 0
        BY <1>3, <1>7, <2>17 DEF OneLost
      <3>2. late # 0 => noise # 0
        BY <1>3, <2>17 DEF OneLost, Orderly
      <3> QED BY <1>1, <3>1, <3>2 DEF OneLost
    <2>21. ASSUME NEW i \in 1..(g + 1), NEW k \in 1..Len(ls), o[k] # 0 PROVE h[i] < o[k]
      <3>1. o[k] = org[k + m] /\ k + m \in 1..n /\ 1 < k + m
        <4>1. o[k] = org[k + m] /\ k + m \in 2..n
          BY <1>7 DEF n
        <4> QED BY <4>1
      <3>2. CASE i = g + 1
        BY <2>2, <2>9, <2>11, <2>13, <2>21, <3>1, <3>2
      <3>3. CASE i # g + 1
        <4>1. i \in 1..g
          BY <2>14, <3>3
        <4> QED BY <2>8, <2>13, <2>21, <3>1, <4>1
      <3> QED BY <3>2, <3>3
    <2>22. Later(h, ls, o)'
      BY <2>10, <2>21 DEF Later
    <2> QED BY <1>7, <1>8, <2>19, <2>20, <2>22 DEF Held
  <1> QED BY <1>9, <1>11, <1>12

\* Every read finds room in rx.
NoOverflowStep == \A n \in ReadSizes : HostReads(n) => Len(rx) + n <= RX_BUF
NoOverflow     == [][NoOverflowStep]_linkVars

LEMMA LossInvInit == LinkInit => LossInv
PROOF
  <1> SUFFICES ASSUME LinkInit PROVE LossInv
    OBVIOUS
  <1>1. LinkTypeOK
    BY LinkTypeInit
  <1>2. Len(<<>>) = 0 /\ wire = <<>> /\ rx = <<>> /\ sent = <<>> /\ got = <<>>
    BY EmptySeq DEF LinkInit
  <1>3. \A i : i \notin 1..0
    OBVIOUS
  <1>4. rx \o wire = <<>>
    <2>1. <<>> \in Seq(Byte)
      BY EmptySeq
    <2> QED BY <1>2, <2>1, ConcatEmptySeq
  <1> DEFINE none == [i \in 1..0 |-> 0]
  <1>5. none \in [1..0 -> 0..0] /\ none \in [1..0 -> 1..0] /\ 0 \in 0..0
    OBVIOUS
  <1> HIDE DEF none
  <1>6. Orderly(<<>>, none, 0)
    BY <1>2, <1>3, <1>4, <1>5, FramedEmpty DEF Orderly
  <1>7. Returned(none, 0) /\ Later(none, <<>>, none) /\ OneLost(0, 0)
    BY <1>2, <1>3, <1>5 DEF Returned, Later, OneLost
  <1>8. \A i \in 1..Len(sent) : Transmitted(sent[i])
    BY <1>2, <1>3
  <1> QED BY <1>1, <1>6, <1>7, <1>8 DEF LossInv, Held

LEMMA LossInvStep ==
  ASSUME \A data \in Payloads : EndsNoLine(data), MaxNoise <= 1, LossInv,
         [LinkNext]_linkVars, [NoOverflowStep]_linkVars
  PROVE  LossInv'
PROOF
  <1>1. LinkTypeOK /\ LinkTypeOK' /\ Held
    BY LinkTypeStep DEF LossInv
  <1>2. CASE UNCHANGED linkVars
    <2>1. UNCHANGED <<wire, rx, sent, got, noise>>
      BY <1>2 DEF linkVars
    <2>2. \A l, i : Whole(l, i) => Whole(l, i)'
      BY <2>1 DEF Whole
    <2>3. ASSUME NEW lines, NEW org, NEW d, Orderly(lines, org, d) PROVE Orderly(lines, org, d)'
      BY <2>1, <2>2, <2>3 DEF Orderly
    <2>4. \A f, hit : Returned(f, hit) => Returned(f, hit)'
      BY <2>1 DEF Returned
    <2>5. \A f, lines, org : Later(f, lines, org) => Later(f, lines, org)'
      BY <2>1 DEF Later
    <2>6. \A d, hit : OneLost(d, hit) => OneLost(d, hit)'
      BY <2>1 DEF OneLost
    <2>7. \A k \in 1..Len(sent') : Transmitted(sent'[k])
      BY <1>1, <2>1 DEF Held
    <2>8. Held'
      BY <1>1, <2>3, <2>4, <2>5, <2>6, <2>7 DEF Held
    <2> QED BY <1>1, <2>8 DEF LossInv
  <1>3. CASE LinkNext /\ NoOverflowStep
    <2>1. ASSUME NEW data \in Payloads, NEW signal \in Signals, PeerSends(data, signal)
          PROVE  Held'
      BY <1>1, <2>1, PeerSendsHeld
    <2>2. ASSUME NEW i \in DOMAIN wire, WireLosesByte(i) PROVE Held'
      BY <1>1, <2>2, WireLosesHeld
    <2>3. ASSUME NEW s \in Settings, HostSetsAndAsks(s) PROVE Held'
      BY <1>1, <2>3, HostAsksHeld
    <2>4. ASSUME NEW r \in DOMAIN rx, HostPollsEvent(r) PROVE Held'
      BY <1>1, <2>4, HostEventHeld
    <2>5. ASSUME NEW r \in DOMAIN rx, HostPollsAnswer(r) PROVE Held'
      BY <1>1, <2>5, HostAnswerHeld
    <2>6. ASSUME NEW n \in ReadSizes, HostReads(n) PROVE Held'
      <3>1. Len(rx) + n <= RX_BUF
        BY <1>3, <2>6 DEF NoOverflowStep
      <3> QED BY <1>1, <2>6, <3>1, HostReadsHeld
    <2>7. Held'
      BY <1>3, <2>1, <2>2, <2>3, <2>4, <2>5, <2>6 DEF LinkNext, HostPolls
    <2> QED BY <1>1, <2>7 DEF LossInv
  <1>4. LinkNext \/ UNCHANGED linkVars
    OBVIOUS
  <1>5. NoOverflowStep \/ UNCHANGED linkVars
    OBVIOUS
  <1> QED BY <1>2, <1>3, <1>4, <1>5

\* The events returned are transmissions in order, and if one is misread a byte was lost.
LEMMA LossInvIsWhole ==
  ASSUME LossInv
  PROVE  PayloadsWhole
PROOF
  <1>1. PICK lines, org, d, f, hit : Returned(f, hit) /\ OneLost(d, hit)
    BY DEF LossInv, Held
  <1>2. DOMAIN got = 1..Len(got) /\ DOMAIN sent = 1..Len(sent) /\ noise \in Nat
    BY LenProperties, LinkAssumption DEF LossInv, LinkTypeOK
  <1> DEFINE wrong == {i \in DOMAIN got : got[i] # sent[f[i]]}
  <1>3. \A i \in wrong : i = hit /\ i # 0
    BY <1>1, <1>2 DEF Returned
  <1>4. \A i, j \in DOMAIN got : i < j => f[i] < f[j]
    BY <1>1, <1>2 DEF Returned
  <1>5. \A i \in DOMAIN got : got[i] = sent[f[i]] \/ Misread(got[i], sent[f[i]])
    BY <1>1, <1>2 DEF Returned
  <1>6. f \in [DOMAIN got -> DOMAIN sent]
    BY <1>1, <1>2 DEF Returned
  <1>7. Cardinality(wrong) <= noise
    <2> HIDE DEF wrong
    <2>1. CASE wrong = {}
      BY <1>2, <2>1, FS_EmptySet
    <2>2. CASE wrong # {}
      <3>1. noise # 0
        BY <1>1, <1>3, <2>2 DEF OneLost
      <3>2. wrong \in SUBSET {hit}
        BY <1>3
      <3>3. IsFiniteSet({hit}) /\ Cardinality({hit}) = 1
        BY FS_Singleton
      <3>4. IsFiniteSet(wrong) /\ Cardinality(wrong) <= Cardinality({hit})
        BY <3>2, <3>3, FS_Subset
      <3>5. Cardinality(wrong) \in Nat
        BY <3>4, FS_CardinalityType
      <3> QED BY <1>2, <3>1, <3>3, <3>4, <3>5
    <2> QED BY <2>1, <2>2
  <1> QED BY <1>4, <1>5, <1>6, <1>7 DEF PayloadsWhole

\* With one byte lost anywhere on the wire the events are transmissions, each at most once
\* and in order, and one at most is misread: whatever its line lost (its prefix, a digit, a
\* comma, a byte of the payload, its CR or its LF), parse_event rejects what is left of it,
\* or reads all but one number right; only without the comma behind the sender is the
\* sender's number run into the length's, and the payload cut at its own first comma.
\* For any payloads without CR, as long as every read finds room in rx.
THEOREM PayloadsWholeCorrect ==
  ASSUME \A data \in Payloads : EndsNoLine(data), MaxNoise <= 1
  PROVE  LinkSpec /\ NoOverflow => []PayloadsWhole
PROOF
  <1>1. LinkInit => LossInv
    BY LossInvInit
  <1>2. LossInv /\ [LinkNext]_linkVars /\ [NoOverflowStep]_linkVars => LossInv'
    BY LossInvStep
  <1>3. LossInv => PayloadsWhole
    BY LossInvIsWhole
  <1> QED BY <1>1, <1>2, <1>3, PTL DEF LinkSpec, NoOverflow
=============================================================================
