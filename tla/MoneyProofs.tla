----------------------------- MODULE MoneyProofs -----------------------------
(***************************************************************************)
(* pkg/money for every amount and every number of decimals: what is typed  *)
(* survives ParseAmount and String, and what is stored survives String and *)
(* ParseAmount.                                                            *)
(*                                                                         *)
(* Powers of ten are a recursive function, so that they need induction.    *)
(* Induction is used in the form of sets (a set of naturals with zero and  *)
(* every successor has all of them), which needs no operator to be         *)
(* instantiated; it comes from the least element of a set of naturals.     *)
(***************************************************************************)
EXTENDS Money, WellFoundedInduction, TLAPS

-----------------------------------------------------------------------------
(* Induction.                                                              *)

LEMMA LeastNatural ==
    ASSUME NEW T, T \subseteq Nat, T # {}
    PROVE  \E n \in T : \A m \in T : n <= m
<1> DEFINE R == OpToRel(<, Nat)
<1>1. IsWellFoundedOn(R, Nat)
  BY NatLessThanWellFounded, Zenon
<1>2. \A x, y \in Nat : x < y => <<x, y>> \in R
  BY DEF OpToRel
<1> HIDE DEF R
<1>3. PICK n \in T : \A m \in T : ~(<<m, n>> \in R)
  BY <1>1, WFMin
<1>4. ASSUME NEW m \in T
      PROVE  n <= m
  <2>1. m \in Nat /\ n \in Nat
    OBVIOUS
  <2>2. ~(m < n)
    BY <1>2, <1>3, <2>1
  <2> QED
    BY <2>1, <2>2
<1> QED
  BY <1>4

LEMMA InductiveSet ==
    ASSUME NEW S, 0 \in S, \A n \in Nat : n \in S => n + 1 \in S
    PROVE  \A n \in Nat : n \in S
<1> DEFINE T == Nat \ S
<1> SUFFICES ASSUME T # {} PROVE FALSE
  OBVIOUS
<1>1. PICK n \in T : \A m \in T : n <= m
  BY LeastNatural
<1>2. n \in Nat /\ n # 0 /\ n - 1 \in Nat
  BY <1>1
<1>3. n - 1 \in S
  BY <1>1, <1>2
<1>4. (n - 1) + 1 = n
  BY <1>2
<1> QED
  BY <1>1, <1>2, <1>3, <1>4

-----------------------------------------------------------------------------
(* The recursion of Pow10 defines a function: finite tables exist, agree,  *)
(* and their diagonal is one.                                              *)

Table(g, n) ==
    /\ g \in [0 .. n -> Nat]
    /\ g[0] = 1
    /\ \A i \in 1 .. n : g[i] = 10 * g[i - 1]

LEMMA TablesExist == \A n \in Nat : \E g : Table(g, n)
<1> DEFINE S == {n \in Nat : \E g : Table(g, n)}
<1>1. 0 \in S
  <2>1. Table([i \in 0 .. 0 |-> 1], 0)
    BY DEF Table
  <2> QED
    BY <2>1
<1>2. ASSUME NEW n \in Nat, n \in S
      PROVE  n + 1 \in S
  <2>1. PICK g : Table(g, n)
    BY <1>2
  <2> DEFINE h == [i \in 0 .. (n + 1) |-> IF i = n + 1 THEN 10 * g[n] ELSE g[i]]
  <2>2. g \in [0 .. n -> Nat] /\ g[0] = 1 /\ \A i \in 1 .. n : g[i] = 10 * g[i - 1]
    BY <2>1 DEF Table
  <2>3. h \in [0 .. (n + 1) -> Nat] /\ h[0] = 1
    BY <2>2
  <2>4. ASSUME NEW i \in 1 .. (n + 1)
        PROVE  h[i] = 10 * h[i - 1]
    BY <2>2
  <2>5. Table(h, n + 1)
    BY <2>3, <2>4 DEF Table
  <2> QED
    BY <2>5
<1> HIDE DEF S
<1>3. \A n \in Nat : n \in S
  BY <1>1, <1>2, InductiveSet
<1> QED
  BY <1>3 DEF S

LEMMA TablesAgree ==
    ASSUME NEW n \in Nat, NEW g, NEW h, Table(g, n + 1), Table(h, n)
    PROVE  g[n] = h[n]
<1> DEFINE S == {i \in Nat : i <= n => g[i] = h[i]}
<1>1. 0 \in S
  BY DEF Table
<1>2. ASSUME NEW i \in Nat, i \in S
      PROVE  i + 1 \in S
  <2> SUFFICES ASSUME i + 1 <= n PROVE g[i + 1] = h[i + 1]
    OBVIOUS
  <2>1. g[i] = h[i] /\ i + 1 \in 1 .. n /\ i + 1 \in 1 .. (n + 1) /\ (i + 1) - 1 = i
    BY <1>2
  <2> QED
    BY <2>1 DEF Table
<1> HIDE DEF S
<1>3. n \in S
  BY <1>1, <1>2, InductiveSet
<1> QED
  BY <1>3 DEF S

LEMMA PowUnfolds == Pow10 = [n \in Nat |-> IF n = 0 THEN 1 ELSE 10 * Pow10[n - 1]]
<1> DEFINE T(n) == CHOOSE g : Table(g, n)
           f == [n \in Nat |-> T(n)[n]]
<1>1. \A n \in Nat : Table(T(n), n)
  BY TablesExist
<1>2. ASSUME NEW n \in Nat
      PROVE  f[n] = IF n = 0 THEN 1 ELSE 10 * f[n - 1]
  <2> HIDE DEF T
  <2>1. CASE n = 0
    BY <1>1, <2>1 DEF Table
  <2>2. CASE n # 0
    <3>1. n - 1 \in Nat /\ (n - 1) + 1 = n /\ n \in 1 .. n
      BY <2>2
    <3>2. Table(T(n), (n - 1) + 1) /\ Table(T(n - 1), n - 1)
      BY <1>1, <3>1
    <3>3. T(n)[n - 1] = T(n - 1)[n - 1]
      BY <3>1, <3>2, TablesAgree
    <3>4. T(n)[n] = 10 * T(n)[n - 1]
      BY <1>1, <3>1 DEF Table
    <3> QED
      BY <2>2, <3>1, <3>3, <3>4
  <2> QED
    BY <2>1, <2>2
<1> HIDE DEF T
<1>3. f = [n \in Nat |-> IF n = 0 THEN 1 ELSE 10 * f[n - 1]]
  <2>1. f = [n \in Nat |-> f[n]]
    OBVIOUS
  <2> HIDE DEF f
  <2> QED
    BY <1>2, <2>1
<1> HIDE DEF f
<1>4. \E g : g = [n \in Nat |-> IF n = 0 THEN 1 ELSE 10 * g[n - 1]]
  BY <1>3
<1> QED
  BY <1>4 DEF Pow10

LEMMA PowSteps ==
    /\ Pow10[0] = 1
    /\ \A n \in Nat : Pow10[n + 1] = 10 * Pow10[n]
<1>1. Pow10[0] = 1
  BY PowUnfolds
<1>2. ASSUME NEW n \in Nat
      PROVE  Pow10[n + 1] = 10 * Pow10[n]
  <2>1. n + 1 \in Nat /\ n + 1 # 0 /\ (n + 1) - 1 = n
    OBVIOUS
  <2> QED
    BY <2>1, PowUnfolds
<1> QED
  BY <1>1, <1>2

LEMMA PowPositive == \A n \in Nat : Pow10[n] \in Nat /\ Pow10[n] > 0
<1> DEFINE S == {n \in Nat : Pow10[n] \in Nat /\ Pow10[n] > 0}
<1>1. 0 \in S
  BY PowSteps
<1>2. ASSUME NEW n \in Nat, n \in S
      PROVE  n + 1 \in S
  BY <1>2, PowSteps
<1> HIDE DEF S
<1>3. \A n \in Nat : n \in S
  BY <1>1, <1>2, InductiveSet
<1> QED
  BY <1>3 DEF S

LEMMA PowAdds ==
    ASSUME NEW a \in Nat, NEW b \in Nat
    PROVE  Pow10[a] * Pow10[b] = Pow10[a + b]
<1> DEFINE S == {n \in Nat : Pow10[a] * Pow10[n] = Pow10[a + n]}
<1>1. 0 \in S
  BY PowSteps, PowPositive
<1>2. ASSUME NEW n \in Nat, n \in S
      PROVE  n + 1 \in S
  <2>1. Pow10[a] * Pow10[n] = Pow10[a + n]
    BY <1>2
  <2>2. Pow10[n + 1] = 10 * Pow10[n] /\ Pow10[(a + n) + 1] = 10 * Pow10[a + n] /\ (a + n) + 1 = a + (n + 1)
    BY PowSteps
  <2>3. Pow10[a] \in Nat /\ Pow10[n] \in Nat
    BY PowPositive
  <2>4. Pow10[a] * (10 * Pow10[n]) = 10 * (Pow10[a] * Pow10[n])
    BY <2>3
  <2> QED
    BY <2>1, <2>2, <2>4
<1> HIDE DEF S
<1>3. b \in S
  BY <1>1, <1>2, InductiveSet
<1> QED
  BY <1>3 DEF S

-----------------------------------------------------------------------------
(* The two conversions.                                                    *)

LEMMA DivMod ==
    ASSUME NEW n \in Nat, NEW m \in Nat, m > 0
    PROVE  /\ n \div m \in Nat /\ n % m \in Nat /\ n % m < m
           /\ (n \div m) * m + (n % m) = n
  OBVIOUS

(* The raw amount of a text, before its sign.                              *)
Magnitude(t, d) == t.whole * Pow10[d] + t.frac * Pow10[d - t.digits]

LEMMA MagnitudeFacts ==
    ASSUME NEW t \in Texts, NEW d \in Nat, Parses(t, d)
    PROVE  /\ Magnitude(t, d) \in Nat
           /\ Magnitude(t, d) * Pow10[t.digits] = Scaled(t, d)
           /\ ParseAmount(t, d) = IF t.neg THEN -Magnitude(t, d) ELSE Magnitude(t, d)
<1>1. /\ t.whole \in Nat /\ t.frac \in Nat /\ t.digits \in Nat /\ t.neg \in BOOLEAN
      /\ d - t.digits \in Nat
  BY DEF Texts, Parses
<1> DEFINE P == Pow10[d]
           Q == Pow10[d - t.digits]
           D == Pow10[t.digits]
<1>2. P \in Nat /\ Q \in Nat /\ D \in Nat
  BY <1>1, PowPositive
<1>3. Q * D = P
  <2>1. (d - t.digits) + t.digits = d
    BY <1>1
  <2> QED
    BY <1>1, <2>1, PowAdds
<1>4. Magnitude(t, d) = t.whole * P + t.frac * Q
  BY DEF Magnitude
<1>5. Scaled(t, d) = (t.whole * D + t.frac) * P
  BY DEF Scaled
<1>6. ParseAmount(t, d) = IF t.neg THEN -Magnitude(t, d) ELSE Magnitude(t, d)
  BY DEF ParseAmount, Magnitude
<1> HIDE DEF P, Q, D
<1>7. (t.whole * P + t.frac * Q) * D = t.whole * P * D + t.frac * (Q * D)
  BY <1>1, <1>2
<1>8. (t.whole * D + t.frac) * P = t.whole * P * D + t.frac * P
  BY <1>1, <1>2
<1>9. t.whole * P + t.frac * Q \in Nat
  BY <1>1, <1>2
<1> QED
  BY <1>3, <1>4, <1>5, <1>6, <1>7, <1>8, <1>9 DEF D

LEMMA StringFacts ==
    ASSUME NEW raw \in Int, NEW d \in Nat
    PROVE  LET u == String(raw, d)
               abs == IF raw < 0 THEN -raw ELSE raw
           IN  /\ u \in Texts /\ u.digits = d /\ (u.neg <=> raw < 0)
               /\ u.whole * Pow10[d] + u.frac = abs
<1> DEFINE u == String(raw, d)
           abs == IF raw < 0 THEN -raw ELSE raw
<1>1. abs \in Nat /\ Pow10[d] \in Nat /\ Pow10[d] > 0
  BY PowPositive
<1>2. u = [neg |-> raw < 0, whole |-> abs \div Pow10[d], frac |-> abs % Pow10[d], digits |-> d]
  BY DEF String, Text
<1>3. /\ abs \div Pow10[d] \in Nat /\ abs % Pow10[d] \in Nat /\ abs % Pow10[d] < Pow10[d]
      /\ (abs \div Pow10[d]) * Pow10[d] + (abs % Pow10[d]) = abs
  BY <1>1, DivMod
<1>4. u.neg = (raw < 0) /\ u.whole = abs \div Pow10[d] /\ u.frac = abs % Pow10[d] /\ u.digits = d
  BY <1>2
<1>5. u \in Texts
  <2>1. (raw < 0) \in BOOLEAN
    OBVIOUS
  <2> HIDE DEF abs
  <2> QED
    BY <1>2, <1>3, <1>4, <2>1 DEF Texts
<1>6. u.neg <=> raw < 0
  BY <1>4
<1>7. u.whole * Pow10[d] + u.frac = abs
  BY <1>3, <1>4
<1> HIDE DEF u, abs
<1>8. u \in Texts /\ u.digits = d /\ (u.neg <=> raw < 0) /\ u.whole * Pow10[d] + u.frac = abs
  BY <1>4, <1>5, <1>6, <1>7
<1> QED
  BY <1>8 DEF u, abs

(* ParseAmount, then String (WithdrawPaymentXDR): the text that comes out  *)
(* names the number that was typed, for every text that is not refused;    *)
(* only "-0" loses its sign.                                               *)
THEOREM TypedAmountSurvives ==
    ASSUME NEW t \in Texts, NEW d \in Nat, Parses(t, d)
    PROVE  SameValue(t, String(ParseAmount(t, d), d))
<1> DEFINE raw == ParseAmount(t, d)
           u == String(raw, d)
           m == Magnitude(t, d)
<1>1. m \in Nat /\ m * Pow10[t.digits] = Scaled(t, d) /\ raw = (IF t.neg THEN -m ELSE m)
  BY MagnitudeFacts
<1>2. t.neg \in BOOLEAN /\ t.digits \in Nat /\ t.whole \in Nat /\ t.frac \in Nat
  BY DEF Texts
<1>3. raw \in Int
  BY <1>1, <1>2
<1>4. (IF raw < 0 THEN -raw ELSE raw) = m
  BY <1>1, <1>2
<1>5. u.digits = d /\ u.neg \in BOOLEAN /\ (u.neg <=> raw < 0) /\ u.whole * Pow10[d] + u.frac = m
  BY <1>3, <1>4, StringFacts DEF Texts
<1>6. Scaled(t, u.digits) = Scaled(u, t.digits)
  BY <1>1, <1>5 DEF Scaled
<1>7. t.neg = u.neg \/ Scaled(t, 0) = 0
  <2>1. CASE m = 0
    <3>1. Scaled(t, d) = 0
      BY <1>1, <2>1, <1>2, PowPositive
    <3> DEFINE n == t.whole * Pow10[t.digits] + t.frac
    <3>2. n \in Nat /\ Pow10[d] \in Nat /\ Pow10[d] > 0 /\ Pow10[0] = 1
      <4>1. Pow10[t.digits] \in Nat
        BY <1>2, PowPositive
      <4>2. t.whole * Pow10[t.digits] \in Nat
        BY <1>2, <4>1
      <4> QED
        BY <1>2, <4>2, PowPositive, PowSteps
    <3>3. n * Pow10[d] = 0 /\ Scaled(t, 0) = n * 1
      BY <3>1, <3>2 DEF Scaled
    <3> HIDE DEF n
    <3>4. n = 0
      BY <3>2, <3>3
    <3> QED
      BY <3>3, <3>4
  <2>2. CASE m # 0 /\ t.neg
    <3>1. raw < 0
      BY <1>1, <2>2
    <3>2. u.neg = TRUE /\ t.neg = TRUE
      BY <1>2, <1>5, <2>2, <3>1
    <3> QED
      BY <3>2
  <2>3. CASE m # 0 /\ ~t.neg
    <3>1. ~(raw < 0)
      BY <1>1, <2>3
    <3>2. u.neg = FALSE /\ t.neg = FALSE
      BY <1>2, <1>5, <2>3, <3>1
    <3> QED
      BY <3>2
  <2> QED
    BY <2>1, <2>2, <2>3
<1> QED
  BY <1>6, <1>7 DEF SameValue

(* String, then ParseAmount (every API boundary): an amount that is stored *)
(* as an integer and sent as text comes back as itself, negative ones      *)
(* included, and the text is never refused.                                *)
THEOREM StoredAmountSurvives ==
    ASSUME NEW raw \in Int, NEW d \in Nat
    PROVE  Parses(String(raw, d), d) /\ ParseAmount(String(raw, d), d) = raw
<1> DEFINE u == String(raw, d)
           abs == IF raw < 0 THEN -raw ELSE raw
<1>1. /\ u \in Texts /\ u.digits = d /\ (u.neg <=> raw < 0)
      /\ u.whole * Pow10[d] + u.frac = abs
  BY StringFacts
<1>2. Parses(u, d)
  BY <1>1 DEF Parses
<1>3. ParseAmount(u, d) = IF u.neg THEN -Magnitude(u, d) ELSE Magnitude(u, d)
  BY <1>1, <1>2, MagnitudeFacts
<1>4. Magnitude(u, d) = abs
  <2>1. d - u.digits = 0 /\ Pow10[0] = 1 /\ u.frac \in Nat
    BY <1>1, PowSteps DEF Texts
  <2>2. u.frac * Pow10[d - u.digits] = u.frac
    BY <2>1
  <2> QED
    BY <1>1, <2>2 DEF Magnitude
<1>5. ParseAmount(u, d) = raw
  <2> HIDE DEF u
  <2>1. CASE raw < 0
    BY <1>1, <1>3, <1>4, <2>1
  <2>2. CASE ~(raw < 0)
    BY <1>1, <1>3, <1>4, <2>2
  <2> QED
    BY <2>1, <2>2
<1> QED
  BY <1>2, <1>5
=============================================================================
