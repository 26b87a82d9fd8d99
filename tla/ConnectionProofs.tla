---------------------------- MODULE ConnectionProofs ----------------------------
(***************************************************************************)
(* The two ends of a connection implement PacketLink, for any versions,     *)
(* any bodies and any window: an end publishes what the other one was given *)
(* to send, frame by frame, and ends as PacketLink says.                    *)
(***************************************************************************)
EXTENDS Connection, SequenceTheorems, WellFoundedInduction, TLAPS

(***************************************************************************)
(* Functions that are defined from smaller arguments.                       *)
(***************************************************************************)
Less == {pair \in Nat \X Nat : pair[1] < pair[2]}

LEMMA LeastIsThere ==
  ASSUME NEW S, S \subseteq Nat, S # {}
  PROVE  \E m \in S : \A b \in S : m <= b
<1>1. IsWellFoundedOn(Less, Nat)
  BY NatLessThanWellFounded DEF OpToRel, Less
<1>2. PICK m \in S : \A b \in S : ~ (<<b, m>> \in Less)
  BY <1>1, WFMin, Zenon
<1>3. \A b \in S : m <= b
  <2> SUFFICES ASSUME NEW b \in S, b < m PROVE FALSE
    OBVIOUS
  <2>1. <<b, m>> \in Nat \X Nat /\ <<b, m>>[1] = b /\ <<b, m>>[2] = m
    OBVIOUS
  <2>2. <<b, m>> \in Less
    BY <2>1, Zenon DEF Less
  <2> QED BY <1>2, <2>2
<1> QED BY <1>3

(* v is defined up to n, each value from that of a smaller argument.        *)
Defined(v, S, base, prev, step, n) ==
  /\ v \in [0..n -> S]
  /\ v[0] = base
  /\ \A i \in 1..n : v[i] = step[<<i, v[prev[i]]>>]

LEMMA DefinedUpTo ==
  ASSUME NEW S, NEW base \in S, NEW prev \in [Nat -> Nat], NEW step \in [Nat \X S -> S],
         \A i \in Nat \ {0} : prev[i] < i,
         NEW n \in Nat
  PROVE  \E v : Defined(v, S, base, prev, step, n)
<1> DEFINE Without == {m \in Nat : ~ \E v : Defined(v, S, base, prev, step, m)}
<1>1. SUFFICES ASSUME Without # {} PROVE FALSE
  OBVIOUS
<1>2. PICK m \in Without : \A b \in Without : m <= b
  <2>1. Without \subseteq Nat
    OBVIOUS
  <2> QED BY <1>1, <2>1, LeastIsThere
<1>3. m \in Nat
  BY <1>2
<1>4. CASE m = 0
  <2> DEFINE v == [i \in 0..0 |-> base]
  <2>1. Defined(v, S, base, prev, step, 0)
    BY DEF Defined
  <2> QED BY <1>4, <2>1, <1>2
<1>5. CASE m # 0
  <2>1. m - 1 \in Nat /\ m - 1 \notin Without
    BY <1>2, <1>3, <1>5
  <2>2. PICK w : Defined(w, S, base, prev, step, m - 1)
    BY <2>1
  <2>3. PICK x : x = step[<<m, w[prev[m]]>>]
    OBVIOUS
  <2>4. prev[m] \in 0..(m - 1) /\ w[prev[m]] \in S /\ x \in S
    <3>1. prev[m] \in Nat /\ prev[m] < m
      BY <1>3, <1>5
    <3>2. prev[m] \in 0..(m - 1)
      BY <3>1, <1>3
    <3>3. w[prev[m]] \in S
      BY <3>2, <2>2 DEF Defined
    <3>4. <<m, w[prev[m]]>> \in Nat \X S
      BY <3>3, <1>3
    <3> QED BY <3>2, <3>3, <3>4, <2>3
  <2> DEFINE v == [i \in 0..m |-> IF i = m THEN x ELSE w[i]]
  <2>5. /\ v \in [0..m -> S]
        /\ v[m] = x
        /\ \A i \in 0..(m - 1) : v[i] = w[i]
    BY <2>2, <2>4, <1>3, <1>5 DEF Defined
  <2> HIDE DEF v
  <2>6. \A i \in 1..m : v[i] = step[<<i, v[prev[i]]>>]
    <3> SUFFICES ASSUME NEW i \in 1..m PROVE v[i] = step[<<i, v[prev[i]]>>]
      OBVIOUS
    <3>1. prev[i] \in Nat /\ prev[i] < i
      BY <1>3
    <3>2. prev[i] \in 0..(m - 1) /\ v[prev[i]] = w[prev[i]]
      BY <3>1, <2>5, <1>3
    <3>3. CASE i = m
      BY <3>2, <3>3, <2>3, <2>5
    <3>4. CASE i # m
      <4>1. i \in 1..(m - 1) /\ i \in 0..(m - 1)
        BY <3>4, <1>3
      <4>2. w[i] = step[<<i, w[prev[i]]>>]
        BY <4>1, <2>2 DEF Defined
      <4> QED BY <4>1, <4>2, <3>2, <2>5
    <3> QED BY <3>3, <3>4
  <2>7. v[0] = base
    BY <2>2, <2>5, <1>3, <1>5 DEF Defined
  <2>8. Defined(v, S, base, prev, step, m)
    BY <2>5, <2>6, <2>7 DEF Defined
  <2> QED BY <2>8, <1>2
<1> QED BY <1>4, <1>5

LEMMA DefinedAlike ==
  ASSUME NEW S, NEW base, NEW prev \in [Nat -> Nat], NEW step,
         \A i \in Nat \ {0} : prev[i] < i,
         NEW v, NEW w, NEW m \in Nat, NEW n \in Nat, m <= n,
         Defined(v, S, base, prev, step, m), Defined(w, S, base, prev, step, n),
         NEW k \in 0..m
  PROVE  v[k] = w[k]
<1> DEFINE Odd == {i \in 0..m : v[i] # w[i]}
<1>1. SUFFICES ASSUME Odd # {} PROVE FALSE
  OBVIOUS
<1>2. PICK i \in Odd : \A b \in Odd : i <= b
  <2>1. Odd \subseteq Nat
    OBVIOUS
  <2> QED BY <1>1, <2>1, LeastIsThere
<1>3. i \in 0..m /\ v[i] # w[i]
  BY <1>2
<1>4. i # 0
  BY <1>3 DEF Defined
<1>5. prev[i] \in Nat /\ prev[i] < i
  BY <1>3, <1>4
<1>6. prev[i] \in 0..m /\ prev[i] \notin Odd
  BY <1>2, <1>3, <1>5
<1>7. v[prev[i]] = w[prev[i]]
  BY <1>6
<1>8. i \in 1..m /\ i \in 1..n
  BY <1>3, <1>4
<1>9. v[i] = step[<<i, v[prev[i]]>>] /\ w[i] = step[<<i, w[prev[i]]>>]
  BY <1>8 DEF Defined
<1> QED BY <1>3, <1>7, <1>9

(* What defines a function on Nat: its value at 0, and how each other one   *)
(* follows from that of a smaller argument.                                 *)
IsRecursion(S, base, prev, step) ==
  /\ base \in S
  /\ prev \in [Nat -> Nat] /\ \A i \in Nat \ {0} : prev[i] < i
  /\ step \in [Nat \X S -> S]

LEMMA Recursion ==
  ASSUME NEW S, NEW base, NEW prev, NEW step, IsRecursion(S, base, prev, step)
  PROVE  \E v \in [Nat -> S] :
           v[0] = base /\ \A i \in Nat \ {0} : v[i] = step[<<i, v[prev[i]]>>]
<1> USE DEF IsRecursion
<1> DEFINE Def(w, n) == Defined(w, S, base, prev, step, n)
           upTo == [n \in Nat |-> CHOOSE w : Def(w, n)]
           v == [n \in Nat |-> upTo[n][n]]
<1>1. \A n \in Nat : Def(upTo[n], n)
  <2> SUFFICES ASSUME NEW n \in Nat PROVE Def(upTo[n], n)
    OBVIOUS
  <2>1. \E w : Def(w, n)
    BY DefinedUpTo
  <2>2. upTo[n] = CHOOSE w : Def(w, n)
    OBVIOUS
  <2> HIDE DEF Def, upTo
  <2> QED BY <2>1, <2>2, Zenon
<1> HIDE DEF upTo
<1>2. \A n \in Nat : v[n] = upTo[n][n]
  OBVIOUS
<1>3. v \in [Nat -> S]
  <2>1. \A n \in Nat : upTo[n][n] \in S
    BY <1>1 DEF Defined
  <2> QED BY <2>1
<1>4. \A n \in Nat : \A m \in 0..n : v[m] = upTo[n][m]
  <2> SUFFICES ASSUME NEW n \in Nat, NEW m \in 0..n PROVE v[m] = upTo[n][m]
    OBVIOUS
  <2>1. m \in Nat /\ m <= n /\ m \in 0..m /\ Def(upTo[m], m) /\ Def(upTo[n], n)
    BY <1>1
  <2>2. PICK x, y : x = upTo[m] /\ y = upTo[n]
    OBVIOUS
  <2>3. Defined(x, S, base, prev, step, m) /\ Defined(y, S, base, prev, step, n)
    BY <2>1, <2>2
  <2>4. x[m] = y[m]
    BY <2>1, <2>3, DefinedAlike
  <2> QED BY <2>1, <2>2, <2>4, <1>2
<1> HIDE DEF v
<1>5. v[0] = base
  <2>1. upTo[0][0] = base
    BY <1>1 DEF Defined
  <2> QED BY <2>1, <1>2
<1>6. \A i \in Nat \ {0} : v[i] = step[<<i, v[prev[i]]>>]
  <2> SUFFICES ASSUME NEW i \in Nat \ {0} PROVE v[i] = step[<<i, v[prev[i]]>>]
    OBVIOUS
  <2>1. prev[i] \in Nat /\ prev[i] < i /\ prev[i] \in 0..i /\ i \in 1..i /\ i \in 0..i
    OBVIOUS
  <2>2. upTo[i][i] = step[<<i, upTo[i][prev[i]]>>]
    BY <1>1, <2>1 DEF Defined
  <2> QED BY <2>1, <2>2, <1>4
<1> QED BY <1>3, <1>5, <1>6

-------------------------------------------------------------------------------
(***************************************************************************)
(* The numeral of a length, and its value.                                  *)
(***************************************************************************)
LEMMA ConstantTypes ==
  /\ Radix \in Nat /\ Radix > 1 /\ UsizeMax \in Nat
  /\ Digits \subseteq Nat /\ Digits \subseteq Byte /\ Byte \subseteq Nat
  /\ LF \in Byte /\ LF \notin Digits
  /\ \A d \in Nat : d < Radix => d \in Digits
  BY DecoderAssumption DEF Digits

(* What Value computes, digit by digit.                                     *)
ValueOf(v, ds) ==
  /\ v \in [0..Len(ds) -> Nat]
  /\ v[0] = 0
  /\ \A i \in 1..Len(ds) : v[i] = Radix * v[i - 1] + ds[i]

Values(ds) ==
  CHOOSE v : v = [n \in 0..Len(ds) |-> IF n = 0 THEN 0 ELSE Radix * v[n - 1] + ds[n]]

LEMMA ValueIs ==
  ASSUME NEW ds \in Seq(Nat)
  PROVE  ValueOf(Values(ds), ds) /\ Value(ds) = Values(ds)[Len(ds)]
<1> DEFINE prev == [i \in Nat |-> IF i = 0 THEN 0 ELSE i - 1]
           step == [p \in Nat \X Nat |-> Radix * p[2] + IF p[1] \in 1..Len(ds) THEN ds[p[1]] ELSE 0]
           Is(v) == v = [n \in 0..Len(ds) |-> IF n = 0 THEN 0 ELSE Radix * v[n - 1] + ds[n]]
<1>0. Len(ds) \in Nat /\ \A i \in 1..Len(ds) : ds[i] \in Nat
  OBVIOUS
<1>1. prev \in [Nat -> Nat] /\ \A i \in Nat \ {0} : prev[i] = i - 1 /\ prev[i] < i
  OBVIOUS
<1>2. step \in [Nat \X Nat -> Nat]
  <2> SUFFICES ASSUME NEW p \in Nat \X Nat
               PROVE  Radix * p[2] + (IF p[1] \in 1..Len(ds) THEN ds[p[1]] ELSE 0) \in Nat
    OBVIOUS
  <2>1. p[2] \in Nat /\ (IF p[1] \in 1..Len(ds) THEN ds[p[1]] ELSE 0) \in Nat
    BY <1>0
  <2>2. Radix * p[2] \in Nat
    BY <2>1, ConstantTypes
  <2> QED BY <2>1, <2>2
<1>3. \A i \in 1..Len(ds) : \A x \in Nat : step[<<i, x>>] = Radix * x + ds[i]
  BY <1>0
<1> HIDE DEF prev, step
<1>4. PICK f \in [Nat -> Nat] :
        f[0] = 0 /\ \A i \in Nat \ {0} : f[i] = step[<<i, f[prev[i]]>>]
  <2>1. IsRecursion(Nat, 0, prev, step)
    BY <1>1, <1>2 DEF IsRecursion
  <2> QED BY <2>1, Recursion
<1> DEFINE g == [n \in 0..Len(ds) |-> f[n]]
<1>5. ValueOf(g, ds)
  <2>1. \A i \in 1..Len(ds) : f[i] = Radix * f[i - 1] + ds[i]
    <3> SUFFICES ASSUME NEW i \in 1..Len(ds) PROVE f[i] = Radix * f[i - 1] + ds[i]
      OBVIOUS
    <3>1. i \in Nat \ {0} /\ i - 1 \in Nat
      BY <1>0
    <3>2. f[i - 1] \in Nat
      BY <3>1
    <3> QED BY <3>1, <3>2, <1>1, <1>3, <1>4
  <2>2. \A n \in 0..Len(ds) : g[n] = f[n]
    OBVIOUS
  <2>3. g \in [0..Len(ds) -> Nat]
    BY <1>0
  <2> HIDE DEF g
  <2>4. \A i \in 1..Len(ds) : i \in 0..Len(ds) /\ i - 1 \in 0..Len(ds)
    BY <1>0
  <2>5. g[0] = 0
    BY <2>2, <1>4, <1>0
  <2>6. \A i \in 1..Len(ds) : g[i] = Radix * g[i - 1] + ds[i]
    BY <2>1, <2>2, <2>4
  <2> QED BY <2>3, <2>5, <2>6 DEF ValueOf
<1>6. Is(g)
  <2> HIDE DEF g
  <2>1. g = [n \in 0..Len(ds) |-> g[n]]
    BY <1>5 DEF ValueOf
  <2>2. \A n \in 0..Len(ds) : g[n] = IF n = 0 THEN 0 ELSE Radix * g[n - 1] + ds[n]
    BY <1>5, <1>0 DEF ValueOf
  <2> QED BY <2>1, <2>2, Zenon
<1> HIDE DEF g
<1>7. Is(Values(ds))
  <2>1. \E v : Is(v)
    BY <1>6
  <2> QED BY <2>1, Zenon DEF Values
<1>8. \A n \in 0..Len(ds) :
        Values(ds)[n] = IF n = 0 THEN 0 ELSE Radix * Values(ds)[n - 1] + ds[n]
  BY <1>7, Zenon
<1> DEFINE Odd == {n \in 0..Len(ds) : Values(ds)[n] # g[n]}
<1>9. Odd = {}
  <2> SUFFICES ASSUME Odd # {} PROVE FALSE
    OBVIOUS
  <2>1. Odd \subseteq Nat
    BY <1>0
  <2>2. PICK m \in Odd : \A b \in Odd : m <= b
    BY <2>1, LeastIsThere
  <2>3. m \in 0..Len(ds) /\ Values(ds)[m] # g[m]
    BY <2>2
  <2>4. m # 0
    BY <2>3, <1>8, <1>5, <1>0 DEF ValueOf
  <2>5. m - 1 \in 0..Len(ds) /\ m - 1 \notin Odd /\ m \in 1..Len(ds)
    <3>1. m \in Nat /\ m - 1 \in 0..Len(ds) /\ m \in 1..Len(ds) /\ ~ (m <= m - 1)
      BY <2>3, <2>4, <1>0
    <3> HIDE DEF Odd
    <3> QED BY <3>1, <2>2
  <2>6. Values(ds)[m - 1] = g[m - 1]
    BY <2>5
  <2>7. g[m] = Radix * g[m - 1] + ds[m]
    BY <2>5, <1>5 DEF ValueOf
  <2>8. Values(ds)[m] = Radix * Values(ds)[m - 1] + ds[m]
    BY <2>3, <2>4, <1>8
  <2> QED BY <2>3, <2>6, <2>7, <2>8
<1>10. Values(ds) = g
  <2>1. Values(ds) = [n \in 0..Len(ds) |-> Values(ds)[n]]
    <3>1. DOMAIN Values(ds) = 0..Len(ds) /\ Values(ds) = [n \in DOMAIN Values(ds) |-> Values(ds)[n]]
      <4>1. PICK v : v = Values(ds)
        OBVIOUS
      <4>2. Is(v)
        BY <4>1, <1>7
      <4>3. DOMAIN v = 0..Len(ds) /\ v = [n \in DOMAIN v |-> v[n]]
        BY <4>2
      <4> QED BY <4>1, <4>3
    <3> QED BY <3>1
  <2>2. g = [n \in 0..Len(ds) |-> g[n]]
    BY <1>5 DEF ValueOf
  <2>3. \A n \in 0..Len(ds) : Values(ds)[n] = g[n]
    BY <1>9
  <2> QED BY <2>1, <2>2, <2>3, Zenon
<1>11. Value(ds) = Values(ds)[Len(ds)]
  BY DEF Value, Values
<1> QED BY <1>5, <1>10, <1>11

LEMMA AppendIs ==
  ASSUME NEW S, NEW s \in Seq(S), NEW e \in S
  PROVE  /\ Append(s, e) \in Seq(S) /\ Len(Append(s, e)) = Len(s) + 1
         /\ Append(s, e)[Len(s) + 1] = e
         /\ \A i \in 1..Len(s) : Append(s, e)[i] = s[i]
  OBVIOUS

LEMMA ValueOfOne == ASSUME NEW d \in Nat PROVE Value(<<d>>) = d
<1>1. <<d>> \in Seq(Nat) /\ Len(<<d>>) = 1 /\ <<d>>[1] = d
  OBVIOUS
<1>2. PICK v : v = Values(<<d>>)
  OBVIOUS
<1>3. Value(<<d>>) = v[1] /\ v[0] = 0 /\ v[1] = Radix * v[0] + d
  <2>1. PICK s : s = <<d>>
    OBVIOUS
  <2>2. s \in Seq(Nat) /\ Len(s) = 1 /\ s[1] = d
    BY <1>1, <2>1
  <2>3. ValueOf(v, s) /\ Value(s) = v[Len(s)]
    BY <1>2, <2>1, <2>2, ValueIs
  <2>4. v[0] = 0 /\ \A i \in 1..1 : v[i] = Radix * v[i - 1] + s[i]
    BY <2>2, <2>3 DEF ValueOf
  <2>5. v[1] = Radix * v[0] + d
    BY <2>2, <2>4
  <2> QED BY <2>1, <2>2, <2>3, <2>4, <2>5
<1> QED BY <1>3, ConstantTypes

LEMMA ValueOfAppend ==
  ASSUME NEW ds \in Seq(Nat), NEW d \in Nat
  PROVE  Value(Append(ds, d)) = Radix * Value(ds) + d /\ Value(ds) \in Nat
<1>1. PICK es : es = Append(ds, d)
  OBVIOUS
<1>2. /\ es \in Seq(Nat) /\ Len(ds) \in Nat /\ Len(es) = Len(ds) + 1 /\ es[Len(ds) + 1] = d
      /\ \A i \in 1..Len(ds) : es[i] = ds[i]
  BY <1>1, AppendIs
<1>3. PICK v, w : v = Values(ds) /\ w = Values(es)
  OBVIOUS
<1>4. ValueOf(v, ds) /\ ValueOf(w, es) /\ Value(ds) = v[Len(ds)] /\ Value(es) = w[Len(es)]
  BY <1>2, <1>3, ValueIs
<1> DEFINE Odd == {n \in 0..Len(ds) : v[n] # w[n]}
<1>5. Odd = {}
  <2> SUFFICES ASSUME Odd # {} PROVE FALSE
    OBVIOUS
  <2>1. Odd \subseteq Nat
    BY <1>2
  <2>2. PICK m \in Odd : \A b \in Odd : m <= b
    BY <2>1, LeastIsThere
  <2>3. m \in 0..Len(ds) /\ v[m] # w[m]
    BY <2>2
  <2>4. m # 0
    BY <2>3, <1>4 DEF ValueOf
  <2>5. m - 1 \in 0..Len(ds) /\ m - 1 \notin Odd /\ m \in 1..Len(ds) /\ m \in 1..Len(es)
    BY <2>2, <2>3, <2>4, <1>2
  <2>6. v[m - 1] = w[m - 1]
    BY <2>5
  <2>7. v[m] = Radix * v[m - 1] + ds[m] /\ w[m] = Radix * w[m - 1] + es[m] /\ es[m] = ds[m]
    BY <2>5, <1>2, <1>4 DEF ValueOf
  <2> QED BY <2>3, <2>6, <2>7
<1>6. v[Len(ds)] = w[Len(ds)] /\ v[Len(ds)] \in Nat
  <2>1. Len(ds) \in 0..Len(ds)
    BY <1>2
  <2> QED BY <2>1, <1>5, <1>4 DEF ValueOf
<1>7. w[Len(es)] = Radix * w[Len(ds)] + d
  <2>1. Len(es) \in 1..Len(es) /\ Len(es) - 1 = Len(ds)
    BY <1>2
  <2> QED BY <2>1, <1>2, <1>4 DEF ValueOf
<1> QED BY <1>1, <1>4, <1>6, <1>7

LEMMA DivisionIs ==
  ASSUME NEW n \in Nat
  PROVE  /\ n \div Radix \in Nat /\ n % Radix \in Digits
         /\ n = Radix * (n \div Radix) + (n % Radix)
         /\ n # 0 => n \div Radix < n
<1>1. Radix \in Nat /\ Radix > 1
  BY ConstantTypes
<1>2. PICK q, r : q = n \div Radix /\ r = n % Radix
  OBVIOUS
<1>3. q \in Int /\ r \in 0..(Radix - 1) /\ n = Radix * q + r
  BY <1>1, <1>2
<1>4. q \in Nat
  <2> SUFFICES ASSUME q < 0 PROVE FALSE
    BY <1>3
  <2>1. Radix * q <= Radix * (-1)
    BY <1>1, <1>3
  <2> QED BY <1>1, <1>3, <2>1
<1>5. q # 0 => q < Radix * q
  BY <1>1, <1>4
<1>6. n # 0 => q < n
  BY <1>1, <1>3, <1>4, <1>5
<1> QED BY <1>2, <1>3, <1>4, <1>6 DEF Digits

(* format! writes the digits of a length in front of its last one.          *)
LEMMA NumeralIs ==
  /\ Numeral \in [Nat -> Seq(Digits)]
  /\ \A n \in Nat :
       Numeral[n] = IF n < Radix THEN <<n>> ELSE Append(Numeral[n \div Radix], n % Radix)
<1> DEFINE prev == [n \in Nat |-> n \div Radix]
           step == [p \in Nat \X Seq(Digits) |->
                      IF p[1] < Radix THEN <<p[1]>> ELSE Append(p[2], p[1] % Radix)]
           Is(v) == v = [n \in Nat |-> IF n < Radix THEN <<n>> ELSE Append(v[n \div Radix], n % Radix)]
<1>1. IsRecursion(Seq(Digits), <<0>>, prev, step)
  <2>1. prev \in [Nat -> Nat] /\ \A i \in Nat \ {0} : prev[i] < i
    BY DivisionIs
  <2>2. step \in [Nat \X Seq(Digits) -> Seq(Digits)]
    <3> SUFFICES ASSUME NEW n \in Nat, NEW ds \in Seq(Digits)
                 PROVE  (IF n < Radix THEN <<n>> ELSE Append(ds, n % Radix)) \in Seq(Digits)
      OBVIOUS
    <3>1. CASE n < Radix
      BY <3>1, ConstantTypes
    <3>2. CASE ~ (n < Radix)
      BY <3>2, DivisionIs, AppendIs
    <3> QED BY <3>1, <3>2
  <2>3. <<0>> \in Seq(Digits)
    BY ConstantTypes
  <2> QED BY <2>1, <2>2, <2>3 DEF IsRecursion
<1>2. \A n \in Nat : prev[n] = n \div Radix /\ n \div Radix \in Nat
  BY DivisionIs
<1>3. \A n \in Nat : \A ds \in Seq(Digits) :
        step[<<n, ds>>] = IF n < Radix THEN <<n>> ELSE Append(ds, n % Radix)
  OBVIOUS
<1> HIDE DEF prev, step
<1>4. PICK f \in [Nat -> Seq(Digits)] :
        f[0] = <<0>> /\ \A i \in Nat \ {0} : f[i] = step[<<i, f[prev[i]]>>]
  <2>1. PICK S, base : S = Seq(Digits) /\ base = <<0>>
    OBVIOUS
  <2>2. IsRecursion(S, base, prev, step)
    BY <1>1, <2>1
  <2>3. \E f \in [Nat -> S] :
          f[0] = base /\ \A i \in Nat \ {0} : f[i] = step[<<i, f[prev[i]]>>]
    BY <2>2, Recursion
  <2> QED BY <2>1, <2>3
<1>5. \A n \in Nat : f[n] = IF n < Radix THEN <<n>> ELSE Append(f[n \div Radix], n % Radix)
  <2> SUFFICES ASSUME NEW n \in Nat
               PROVE  f[n] = IF n < Radix THEN <<n>> ELSE Append(f[n \div Radix], n % Radix)
    OBVIOUS
  <2>1. CASE n = 0
    BY <2>1, <1>4, ConstantTypes
  <2>2. CASE n # 0
    <3>1. f[n] = step[<<n, f[prev[n]]>>] /\ prev[n] = n \div Radix /\ f[n \div Radix] \in Seq(Digits)
      BY <2>2, <1>2, <1>4
    <3> QED BY <3>1, <1>3
  <2> QED BY <2>1, <2>2
<1>6. Is(f)
  <2>1. f = [n \in Nat |-> f[n]]
    OBVIOUS
  <2> QED BY <2>1, <1>5, Zenon
<1>7. Is(Numeral)
  <2>1. \E v : Is(v)
    BY <1>6
  <2> QED BY <2>1, Zenon DEF Numeral
<1>8. \A n \in Nat :
        Numeral[n] = IF n < Radix THEN <<n>> ELSE Append(Numeral[n \div Radix], n % Radix)
  BY <1>7, Zenon
<1> DEFINE Odd == {n \in Nat : Numeral[n] # f[n]}
<1>9. Odd = {}
  <2> SUFFICES ASSUME Odd # {} PROVE FALSE
    OBVIOUS
  <2>1. Odd \subseteq Nat
    OBVIOUS
  <2>2. PICK m \in Odd : \A b \in Odd : m <= b
    BY <2>1, LeastIsThere
  <2>3. m \in Nat /\ Numeral[m] # f[m]
    BY <2>2
  <2>4. ~ (m < Radix)
    BY <2>3, <1>8, <1>5
  <2>5. PICK k : k = m \div Radix
    OBVIOUS
  <2>6. k \in Nat /\ k < m
    <3>1. m # 0
      BY <2>3, <2>4, ConstantTypes
    <3> QED BY <2>3, <2>5, <3>1, DivisionIs
  <2>7. Numeral[k] = f[k]
    <3>1. k \notin Odd
      <4> HIDE DEF Odd
      <4> QED BY <2>2, <2>3, <2>6
    <3> QED BY <2>6, <3>1
  <2>8. Numeral[m] = Append(Numeral[k], m % Radix) /\ f[m] = Append(f[k], m % Radix)
    BY <2>3, <2>4, <2>5, <1>8, <1>5
  <2> QED BY <2>3, <2>7, <2>8
<1>10. Numeral \in [Nat -> Seq(Digits)]
  <2>1. \A n \in Nat : Numeral[n] \in Seq(Digits)
    BY <1>9
  <2>2. Numeral = [n \in Nat |-> Numeral[n]]
    <3>1. PICK v : v = Numeral
      OBVIOUS
    <3>2. Is(v)
      BY <3>1, <1>7
    <3>3. v = [n \in Nat |-> v[n]]
      BY <3>2
    <3> QED BY <3>1, <3>3
  <2> QED BY <2>1, <2>2
<1> QED BY <1>8, <1>10

(* parse reads the length that format! wrote.                               *)
LEMMA NumeralRoundtrip ==
  ASSUME NEW n \in Nat
  PROVE  /\ Numeral[n] \in Seq(Digits) /\ Len(Numeral[n]) \in Nat \ {0}
         /\ Value(Numeral[n]) = n
<1>1. \A m \in Nat : Numeral[m] \in Seq(Digits) /\ Len(Numeral[m]) \in Nat \ {0}
  <2> SUFFICES ASSUME NEW m \in Nat
               PROVE  Numeral[m] \in Seq(Digits) /\ Len(Numeral[m]) \in Nat \ {0}
    OBVIOUS
  <2>1. Numeral[m] \in Seq(Digits)
    BY NumeralIs
  <2>2. CASE m < Radix
    <3>1. Numeral[m] = <<m>>
      BY <2>2, NumeralIs
    <3> QED BY <2>1, <3>1
  <2>3. CASE ~ (m < Radix)
    <3>1. PICK ds : ds = Numeral[m \div Radix]
      OBVIOUS
    <3>2. ds \in Seq(Digits) /\ m % Radix \in Digits
      BY <3>1, NumeralIs, DivisionIs
    <3>3. Len(Append(ds, m % Radix)) = Len(ds) + 1 /\ Len(ds) \in Nat
      BY <3>2, AppendIs
    <3>4. Numeral[m] = Append(ds, m % Radix)
      BY <2>3, <3>1, NumeralIs
    <3> QED BY <2>1, <3>3, <3>4
  <2> QED BY <2>2, <2>3
<1> DEFINE Odd == {m \in Nat : Value(Numeral[m]) # m}
<1>2. Odd = {}
  <2> SUFFICES ASSUME Odd # {} PROVE FALSE
    OBVIOUS
  <2>1. Odd \subseteq Nat
    OBVIOUS
  <2>2. PICK m \in Odd : \A b \in Odd : m <= b
    BY <2>1, LeastIsThere
  <2>3. m \in Nat /\ Value(Numeral[m]) # m
    BY <2>2
  <2>4. ~ (m < Radix)
    <3> SUFFICES ASSUME m < Radix PROVE FALSE
      OBVIOUS
    <3>1. Numeral[m] = <<m>>
      BY <2>3, NumeralIs
    <3>2. Value(<<m>>) = m
      BY <2>3, ValueOfOne
    <3> QED BY <2>3, <3>1, <3>2
  <2>5. PICK k, d : k = m \div Radix /\ d = m % Radix
    OBVIOUS
  <2>6. k \in Nat /\ k < m /\ d \in Digits /\ d \in Nat /\ m = Radix * k + d
    BY <2>3, <2>4, <2>5, DivisionIs, ConstantTypes
  <2>7. PICK ds : ds = Numeral[k]
    OBVIOUS
  <2>8. Value(ds) = k
    BY <2>2, <2>3, <2>6, <2>7
  <2>9. Numeral[m] = Append(ds, d)
    BY <2>3, <2>4, <2>5, <2>7, NumeralIs
  <2>10. ds \in Seq(Nat)
    <3>1. ds \in Seq(Digits)
      BY <2>6, <2>7, <1>1
    <3> QED BY <3>1, ConstantTypes, SeqMonotonic
  <2>11. Value(Append(ds, d)) = Radix * Value(ds) + d
    BY <2>6, <2>10, ValueOfAppend
  <2> QED BY <2>3, <2>6, <2>8, <2>9, <2>11
<1> QED BY <1>1, <1>2

-------------------------------------------------------------------------------
(***************************************************************************)
(* Bytes in a row.                                                          *)
(***************************************************************************)
LEMMA SameSeq ==
  ASSUME NEW S, NEW s \in Seq(S), NEW t \in Seq(S),
         Len(s) = Len(t), \A i \in 1..Len(s) : s[i] = t[i]
  PROVE  s = t
  OBVIOUS

LEMMA PieceOf ==
  ASSUME NEW S, NEW s \in Seq(S), NEW m \in Nat, m > 0, NEW n \in Nat, n <= Len(s)
  PROVE  /\ SubSeq(s, m, n) \in Seq(S)
         /\ Len(SubSeq(s, m, n)) = IF m <= n THEN n - m + 1 ELSE 0
         /\ \A i \in 1..(n - m + 1) : SubSeq(s, m, n)[i] = s[m + i - 1]
  OBVIOUS

LEMMA Concat ==
  ASSUME NEW a \in Seq(Byte), NEW b \in Seq(Byte)
  PROVE  /\ a \o b \in Seq(Byte) /\ Len(a \o b) = Len(a) + Len(b)
         /\ \A i \in 1..Len(a) : (a \o b)[i] = a[i]
         /\ \A i \in 1..Len(b) : (a \o b)[Len(a) + i] = b[i]
<1>1. PICK c : c = a \o b
  OBVIOUS
<1>2. /\ c \in Seq(Byte) /\ Len(c) = Len(a) + Len(b)
      /\ \A i \in 1..(Len(a) + Len(b)) : c[i] = IF i <= Len(a) THEN a[i] ELSE b[i - Len(a)]
  BY <1>1, ConcatProperties
<1>3. Len(a) \in Nat /\ Len(b) \in Nat
  OBVIOUS
<1>4. \A i \in 1..Len(a) : c[i] = a[i]
  BY <1>2, <1>3
<1>5. \A i \in 1..Len(b) : c[Len(a) + i] = b[i]
  <2> SUFFICES ASSUME NEW i \in 1..Len(b) PROVE c[Len(a) + i] = b[i]
    OBVIOUS
  <2>1. /\ Len(a) + i \in 1..(Len(a) + Len(b)) /\ ~ (Len(a) + i <= Len(a))
        /\ Len(a) + i - Len(a) = i
    BY <1>3
  <2> QED BY <1>2, <2>1
<1> QED BY <1>1, <1>2, <1>4, <1>5

(* x is what whole holds behind its first k bytes, as far as x goes.        *)
Piece(x, whole, k) ==
  /\ k + Len(x) <= Len(whole)
  /\ \A i \in 1..Len(x) : x[i] = whole[k + i]

LEMMA PieceGrows ==
  ASSUME NEW x \in Seq(Byte), NEW whole \in Seq(Byte), NEW k \in Nat,
         Piece(x, whole, k), NEW more \in Seq(Byte), Piece(whole, more, 0)
  PROVE  Piece(x, more, k)
<1>1. Len(x) \in Nat /\ Len(whole) \in Nat /\ Len(more) \in Nat
      /\ k + Len(x) <= Len(whole) /\ Len(whole) <= Len(more)
  BY DEF Piece
<1>2. \A i \in 1..Len(x) : k + i \in 1..Len(whole) /\ whole[k + i] = more[0 + (k + i)]
  BY <1>1 DEF Piece
<1> QED BY <1>1, <1>2 DEF Piece

LEMMA PieceTail ==
  ASSUME NEW x \in Seq(Byte), x # <<>>, NEW whole \in Seq(Byte), NEW k \in Nat,
         Piece(x, whole, k)
  PROVE  /\ Tail(x) \in Seq(Byte) /\ Len(Tail(x)) = Len(x) - 1 /\ Len(x) \in Nat \ {0}
         /\ Head(x) \in Byte /\ Head(x) = whole[k + 1]
         /\ Piece(Tail(x), whole, k + 1)
<1>1. PICK y : y = Tail(x)
  OBVIOUS
<1>2. /\ y \in Seq(Byte) /\ Len(y) = Len(x) - 1 /\ Len(x) \in Nat \ {0}
      /\ \A i \in 1..Len(y) : y[i] = x[i + 1]
      /\ Head(x) = x[1] /\ x[1] \in Byte
  BY <1>1
<1>3. 1 \in 1..Len(x) /\ \A i \in 1..Len(y) : i + 1 \in 1..Len(x)
  BY <1>2
<1>4. Piece(y, whole, k + 1)
  <2>1. k + 1 + Len(y) <= Len(whole)
    BY <1>2 DEF Piece
  <2>2. \A i \in 1..Len(y) : y[i] = whole[k + 1 + i]
    <3> SUFFICES ASSUME NEW i \in 1..Len(y) PROVE y[i] = whole[k + 1 + i]
      OBVIOUS
    <3>1. x[i + 1] = whole[k + (i + 1)]
      BY <1>3 DEF Piece
    <3>2. k + (i + 1) = k + 1 + i
      BY <1>2
    <3> QED BY <1>2, <3>1, <3>2
  <2> QED BY <2>1, <2>2 DEF Piece
<1>5. Head(x) = whole[k + 1]
  BY <1>2, <1>3 DEF Piece
<1> QED BY <1>1, <1>2, <1>4, <1>5

LEMMA PieceAppend ==
  ASSUME NEW x \in Seq(Byte), NEW whole \in Seq(Byte), NEW k \in Nat, Piece(x, whole, k),
         k + Len(x) < Len(whole), NEW e, e = whole[k + Len(x) + 1]
  PROVE  /\ Append(x, e) \in Seq(Byte) /\ Len(Append(x, e)) = Len(x) + 1
         /\ Piece(Append(x, e), whole, k)
<1>1. Len(x) \in Nat /\ Len(whole) \in Nat /\ k + Len(x) + 1 \in 1..Len(whole)
  OBVIOUS
<1>2. e \in Byte
  BY <1>1
<1>3. PICK y : y = Append(x, e)
  OBVIOUS
<1>4. /\ y \in Seq(Byte) /\ Len(y) = Len(x) + 1 /\ y[Len(x) + 1] = e
      /\ \A i \in 1..Len(x) : y[i] = x[i]
  BY <1>2, <1>3, AppendIs
<1>5. \A i \in 1..Len(y) : y[i] = whole[k + i]
  <2> SUFFICES ASSUME NEW i \in 1..Len(y) PROVE y[i] = whole[k + i]
    OBVIOUS
  <2>1. CASE i = Len(x) + 1
    <3>1. k + i = k + Len(x) + 1
      BY <1>1, <2>1
    <3> QED BY <1>4, <2>1, <3>1
  <2>2. CASE i # Len(x) + 1
    <3>1. i \in 1..Len(x)
      BY <1>1, <1>4, <2>2
    <3> QED BY <1>4, <3>1 DEF Piece
  <2> QED BY <2>1, <2>2
<1>6. k + Len(y) <= Len(whole)
  BY <1>1, <1>4
<1> QED BY <1>3, <1>4, <1>5, <1>6 DEF Piece

LEMMA PiecePrefix ==
  ASSUME NEW x \in Seq(Byte), NEW whole \in Seq(Byte), NEW k \in Nat,
         Piece(x, whole, k), NEW y \in Prefixes(x)
  PROVE  y \in Seq(Byte) /\ Len(y) <= Len(x) /\ Piece(y, whole, k)
<1>1. PICK n \in 0..Len(x) : y = SubSeq(x, 1, n)
  BY DEF Prefixes
<1>2. n \in Nat /\ n <= Len(x) /\ Len(x) \in Nat /\ Len(whole) \in Nat
  BY <1>1
<1>3. /\ y \in Seq(Byte) /\ Len(y) = IF 1 <= n THEN n - 1 + 1 ELSE 0
      /\ \A i \in 1..(n - 1 + 1) : y[i] = x[1 + i - 1]
  BY <1>1, <1>2, PieceOf
<1>4. Len(y) = n /\ \A i \in 1..n : y[i] = x[i] /\ i \in 1..Len(x)
  BY <1>2, <1>3
<1> QED BY <1>2, <1>3, <1>4 DEF Piece

LEMMA PieceConcat ==
  ASSUME NEW a \in Seq(Byte), NEW b \in Seq(Byte)
  PROVE  Piece(a, a \o b, 0) /\ Piece(b, a \o b, Len(a))
<1>1. PICK c : c = a \o b
  OBVIOUS
<1>2. /\ c \in Seq(Byte) /\ Len(c) = Len(a) + Len(b)
      /\ \A i \in 1..Len(a) : c[i] = a[i]
      /\ \A i \in 1..Len(b) : c[Len(a) + i] = b[i]
  BY <1>1, Concat
<1>3. Len(a) \in Nat /\ Len(b) \in Nat /\ 0 + Len(a) = Len(a) /\ \A i \in 1..Len(a) : 0 + i = i
  OBVIOUS
<1> QED BY <1>1, <1>2, <1>3 DEF Piece

-------------------------------------------------------------------------------
(***************************************************************************)
(* A frame, byte by byte, and the bytes of all frames that a program sends. *)
(***************************************************************************)
Content == {body \in Seq(Byte) : Len(body) <= UsizeMax}

(* Where the length of the frame of body ends.                              *)
LengthEnd(h, body) == Len(h) + Len(Numeral[Len(body)])

LEMMA FrameIs ==
  ASSUME NEW h \in Seq(Byte), NEW body \in Seq(Byte)
  PROVE  LET t == Frame(h, body)
             a == Numeral[Len(body)]
             n == LengthEnd(h, body)
         IN  /\ t \in Seq(Byte) /\ Len(t) = n + 2 + Len(body)
             /\ n \in Nat /\ Len(h) < n
             /\ \A i \in 1..Len(h) : t[i] = h[i]
             /\ \A i \in 1..Len(a) : t[Len(h) + i] = a[i]
             /\ t[n + 1] = LF /\ t[n + 2] = LF
             /\ \A i \in 1..Len(body) : t[n + 2 + i] = body[i]
<1> DEFINE a == Numeral[Len(body)]
<1> PICK n : n = LengthEnd(h, body)
  OBVIOUS
<1>a. a \in Seq(Digits) /\ a \in Seq(Byte) /\ Len(a) \in Nat \ {0} /\ n = Len(h) + Len(a)
  <2>1. a \in Seq(Digits) /\ Len(a) \in Nat \ {0}
    BY NumeralRoundtrip
  <2> HIDE DEF a
  <2>2. a \in Seq(Byte)
    BY <2>1, ConstantTypes, SeqMonotonic
  <2>3. n = Len(h) + Len(a)
    BY DEF LengthEnd, a
  <2> QED BY <2>1, <2>2, <2>3
<1>b. Frame(h, body) = h \o a \o <<LF, LF>> \o body
  BY DEF Frame
<1> HIDE DEF a
<1>0. /\ <<LF, LF>> \in Seq(Byte) /\ Len(<<LF, LF>>) = 2
      /\ <<LF, LF>>[1] = LF /\ <<LF, LF>>[2] = LF
      /\ Len(h) \in Nat /\ Len(a) \in Nat /\ Len(body) \in Nat
      /\ n \in Nat /\ n + 2 \in Nat /\ Len(h) < n
  BY ConstantTypes, <1>a
<1> DEFINE u == h \o a
           v == u \o <<LF, LF>>
           t == v \o body
<1>1. t = Frame(h, body)
  BY <1>b
<1>4. /\ u \in Seq(Byte) /\ Len(u) = n
      /\ \A i \in 1..Len(h) : u[i] = h[i]
      /\ \A i \in 1..Len(a) : u[Len(h) + i] = a[i]
  BY <1>0, <1>a, Concat
<1> HIDE DEF u
<1>5. /\ v \in Seq(Byte) /\ Len(v) = n + 2
      /\ \A i \in 1..n : v[i] = u[i]
      /\ v[n + 1] = LF /\ v[n + 2] = LF
  <2>1. /\ v \in Seq(Byte) /\ Len(v) = Len(u) + Len(<<LF, LF>>)
        /\ \A i \in 1..Len(u) : v[i] = u[i]
        /\ \A i \in 1..Len(<<LF, LF>>) : v[Len(u) + i] = <<LF, LF>>[i]
    BY <1>0, <1>4, Concat
  <2> HIDE DEF v
  <2> QED BY <2>1, <1>0, <1>4
<1> HIDE DEF v
<1>6. /\ t \in Seq(Byte) /\ Len(t) = n + 2 + Len(body)
      /\ \A i \in 1..(n + 2) : t[i] = v[i]
      /\ \A i \in 1..Len(body) : t[n + 2 + i] = body[i]
  <2>1. /\ t \in Seq(Byte) /\ Len(t) = Len(v) + Len(body)
        /\ \A i \in 1..Len(v) : t[i] = v[i]
        /\ \A i \in 1..Len(body) : t[Len(v) + i] = body[i]
    BY <1>5, Concat
  <2> HIDE DEF t
  <2> QED BY <2>1, <1>0, <1>5
<1> HIDE DEF t
<1>7. /\ \A i \in 1..Len(a) : Len(h) + i \in 1..n /\ Len(h) + i \in 1..(n + 2)
      /\ \A i \in 1..Len(h) : i \in 1..n /\ i \in 1..(n + 2)
      /\ n + 1 \in 1..(n + 2) /\ n + 2 \in 1..(n + 2)
  BY <1>0, <1>a
<1>8. /\ \A i \in 1..Len(h) : t[i] = h[i]
      /\ \A i \in 1..Len(a) : t[Len(h) + i] = a[i]
      /\ t[n + 1] = LF /\ t[n + 2] = LF
  BY <1>4, <1>5, <1>6, <1>7
<1> QED BY <1>0, <1>1, <1>6, <1>8 DEF a

(* f[n] is the bytes of the first n frames.                                 *)
IsFlow(f, h, bodies) ==
  /\ f \in [0..Len(bodies) -> Seq(Byte)]
  /\ f[0] = <<>>
  /\ \A n \in 1..Len(bodies) : f[n] = f[n - 1] \o Frame(h, bodies[n])

Flow(h, bodies) == CHOOSE f : IsFlow(f, h, bodies)

LEMMA FlowIs ==
  ASSUME NEW h \in Seq(Byte), NEW bodies \in Seq(Seq(Byte))
  PROVE  IsFlow(Flow(h, bodies), h, bodies)
<1> DEFINE prev == [i \in Nat |-> IF i = 0 THEN 0 ELSE i - 1]
           step == [p \in Nat \X Seq(Byte) |->
                      IF p[1] \in 1..Len(bodies) THEN p[2] \o Frame(h, bodies[p[1]]) ELSE <<>>]
<1>0. /\ Len(bodies) \in Nat
      /\ \A i \in 1..Len(bodies) : Frame(h, bodies[i]) \in Seq(Byte)
  <2> SUFFICES ASSUME NEW i \in 1..Len(bodies) PROVE Frame(h, bodies[i]) \in Seq(Byte)
    OBVIOUS
  <2>1. bodies[i] \in Seq(Byte)
    OBVIOUS
  <2> QED BY <2>1, FrameIs
<1>1. IsRecursion(Seq(Byte), <<>>, prev, step)
  <2>1. prev \in [Nat -> Nat] /\ \A i \in Nat \ {0} : prev[i] < i
    OBVIOUS
  <2>2. step \in [Nat \X Seq(Byte) -> Seq(Byte)]
    <3> SUFFICES ASSUME NEW n \in Nat, NEW s \in Seq(Byte)
                 PROVE  (IF n \in 1..Len(bodies) THEN s \o Frame(h, bodies[n]) ELSE <<>>) \in Seq(Byte)
      OBVIOUS
    <3>1. CASE n \in 1..Len(bodies)
      BY <3>1, <1>0, Concat
    <3>2. CASE n \notin 1..Len(bodies)
      BY <3>2
    <3> QED BY <3>1, <3>2
  <2>3. <<>> \in Seq(Byte)
    OBVIOUS
  <2> QED BY <2>1, <2>2, <2>3 DEF IsRecursion
<1>2. \A n \in Nat \ {0} : prev[n] = n - 1
  OBVIOUS
<1>3. \A n \in 1..Len(bodies) : \A s \in Seq(Byte) :
        step[<<n, s>>] = s \o Frame(h, bodies[n])
  <2> SUFFICES ASSUME NEW n \in 1..Len(bodies), NEW s \in Seq(Byte)
               PROVE  step[<<n, s>>] = s \o Frame(h, bodies[n])
    OBVIOUS
  <2>1. <<n, s>> \in Nat \X Seq(Byte) /\ <<n, s>>[1] = n /\ <<n, s>>[2] = s
    BY <1>0
  <2> QED BY <2>1
<1> HIDE DEF prev, step
<1>4. PICK f \in [Nat -> Seq(Byte)] :
        f[0] = <<>> /\ \A i \in Nat \ {0} : f[i] = step[<<i, f[prev[i]]>>]
  <2>1. PICK S, base : S = Seq(Byte) /\ base = <<>>
    OBVIOUS
  <2>2. IsRecursion(S, base, prev, step)
    BY <1>1, <2>1
  <2>3. \E f \in [Nat -> S] :
          f[0] = base /\ \A i \in Nat \ {0} : f[i] = step[<<i, f[prev[i]]>>]
    BY <2>2, Recursion
  <2> QED BY <2>1, <2>3
<1> DEFINE g == [n \in 0..Len(bodies) |-> f[n]]
<1>5. IsFlow(g, h, bodies)
  <2>1. \A n \in 1..Len(bodies) : f[n] = f[n - 1] \o Frame(h, bodies[n])
    <3> SUFFICES ASSUME NEW n \in 1..Len(bodies) PROVE f[n] = f[n - 1] \o Frame(h, bodies[n])
      OBVIOUS
    <3>1. n \in Nat \ {0} /\ n - 1 \in Nat
      BY <1>0
    <3>2. f[n - 1] \in Seq(Byte)
      BY <3>1
    <3>3. f[n] = step[<<n, f[n - 1]>>]
      BY <3>1, <1>2, <1>4
    <3> QED BY <3>2, <3>3, <1>3
  <2>2. /\ g \in [0..Len(bodies) -> Seq(Byte)]
        /\ \A n \in 0..Len(bodies) : g[n] = f[n]
    BY <1>0
  <2> HIDE DEF g
  <2>3. 0 \in 0..Len(bodies) /\ \A n \in 1..Len(bodies) : n \in 0..Len(bodies) /\ n - 1 \in 0..Len(bodies)
    BY <1>0
  <2>4. g[0] = <<>> /\ \A n \in 1..Len(bodies) : g[n] = f[n] /\ g[n - 1] = f[n - 1]
    BY <2>2, <2>3, <1>4
  <2> QED BY <2>1, <2>2, <2>4 DEF IsFlow
<1> HIDE DEF g
<1> QED BY <1>5, Zenon DEF Flow

LEMMA FlowStep ==
  ASSUME NEW h \in Seq(Byte), NEW bodies \in Seq(Seq(Byte)), NEW n \in 1..Len(bodies)
  PROVE  LET f == Flow(h, bodies)
         IN  /\ f[n] \in Seq(Byte) /\ f[n - 1] \in Seq(Byte)
             /\ f[n] = f[n - 1] \o Frame(h, bodies[n])
             /\ Len(f[n]) = Len(f[n - 1]) + Len(Frame(h, bodies[n]))
             /\ Len(f[n - 1]) \in Nat /\ Len(f[n - 1]) < Len(f[n])
             /\ Piece(f[n - 1], f[n], 0)
             /\ Piece(Frame(h, bodies[n]), f[n], Len(f[n - 1]))
<1>1. PICK f : f = Flow(h, bodies)
  OBVIOUS
<1>2. /\ f \in [0..Len(bodies) -> Seq(Byte)]
      /\ f[n] = f[n - 1] \o Frame(h, bodies[n])
  BY <1>1, FlowIs DEF IsFlow
<1>3. n \in 0..Len(bodies) /\ n - 1 \in 0..Len(bodies) /\ bodies[n] \in Seq(Byte)
  OBVIOUS
<1>4. PICK a, b : a = f[n - 1] /\ b = Frame(h, bodies[n])
  OBVIOUS
<1>5. a \in Seq(Byte) /\ f[n] = a \o b
  BY <1>2, <1>3, <1>4
<1>6. b \in Seq(Byte) /\ Len(b) \in Nat \ {0}
  <2>1. LET m == LengthEnd(h, bodies[n])
        IN  b \in Seq(Byte) /\ Len(b) = m + 2 + Len(bodies[n]) /\ m \in Nat
    BY <1>3, <1>4, FrameIs
  <2> QED BY <2>1, <1>3
<1>7. /\ a \o b \in Seq(Byte) /\ Len(a \o b) = Len(a) + Len(b)
      /\ Piece(a, a \o b, 0) /\ Piece(b, a \o b, Len(a)) /\ Len(a) \in Nat
  BY <1>5, <1>6, Concat, PieceConcat
<1>8. Len(a) < Len(a \o b)
  BY <1>6, <1>7
<1> HIDE DEF Piece
<1> QED BY <1>1, <1>4, <1>5, <1>7, <1>8

(* Fewer frames are the beginning of more.                                  *)
LEMMA FlowGrows ==
  ASSUME NEW h \in Seq(Byte), NEW bodies \in Seq(Seq(Byte)),
         NEW n \in 0..Len(bodies), NEW m \in 0..n
  PROVE  LET f == Flow(h, bodies)
         IN  f[m] \in Seq(Byte) /\ f[n] \in Seq(Byte) /\ Piece(f[m], f[n], 0)
<1>1. PICK f : f = Flow(h, bodies)
  OBVIOUS
<1>2. \A k \in 0..Len(bodies) : f[k] \in Seq(Byte)
  BY <1>1, FlowIs DEF IsFlow
<1>3. m \in Nat /\ n \in Nat /\ m <= n /\ n <= Len(bodies) /\ Len(bodies) \in Nat
  OBVIOUS
<1> DEFINE Odd == {k \in m..n : ~Piece(f[m], f[k], 0)}
<1>4. SUFFICES ASSUME Odd # {} PROVE FALSE
  BY <1>1, <1>2, <1>3
<1>5. PICK k \in Odd : \A b \in Odd : k <= b
  <2>1. Odd \subseteq Nat
    BY <1>3
  <2> QED BY <1>4, <2>1, LeastIsThere
<1>6. k \in m..n /\ k \in Nat /\ ~Piece(f[m], f[k], 0)
  BY <1>3, <1>5
<1>7. k # m
  <2>1. PICK x : x = f[m]
    OBVIOUS
  <2>2. x \in Seq(Byte) /\ Len(x) \in Nat /\ \A i \in 1..Len(x) : 0 + i = i
    BY <2>1, <1>2, <1>3
  <2>3. Piece(x, x, 0)
    BY <2>2 DEF Piece
  <2> QED BY <2>1, <2>3, <1>6
<1>8. k - 1 \in m..n /\ k - 1 \notin Odd /\ k \in 1..Len(bodies)
  <2>1. k - 1 \in m..n /\ ~ (k <= k - 1) /\ k \in 1..Len(bodies)
    BY <1>3, <1>6, <1>7
  <2> HIDE DEF Odd
  <2> QED BY <2>1, <1>5
<1>9. Piece(f[m], f[k - 1], 0) /\ Piece(f[k - 1], f[k], 0)
  BY <1>1, <1>8, FlowStep
<1>10. f[m] \in Seq(Byte) /\ f[k - 1] \in Seq(Byte) /\ f[k] \in Seq(Byte)
  <2>1. m \in 0..Len(bodies) /\ k - 1 \in 0..Len(bodies) /\ k \in 0..Len(bodies)
    BY <1>3, <1>6, <1>8
  <2> QED BY <2>1, <1>2
<1>11. Piece(f[m], f[k], 0)
  BY <1>9, <1>10, PieceGrows
<1> QED BY <1>6, <1>11

-------------------------------------------------------------------------------
(***************************************************************************)
(* The parser, one byte after the other.  At is what it has when it read    *)
(* buf, and before parse looks at the last byte of it index is one less.    *)
(***************************************************************************)
Parser ==
  [state : {"HeaderStart", "ContentLength", "Newline", "Body"},
   buffer : Seq(Byte), current_index : Nat, body_length : Nat, content : Seq(Digits),
   occured_times : Nat, body : Seq(Byte), out : {"None", "Some", "Err"}]

At(p, state, buf, index, length, ds, newlines) ==
  /\ p \in Parser /\ p.out = "None" /\ p.state = state
  /\ p.buffer = buf /\ p.current_index = index /\ p.body_length = length
  /\ p.content = ds /\ p.occured_times = newlines

LEMMA NewAt == At(NewParser, "HeaderStart", <<>>, 0, 0, <<>>, 0)
  BY DEF At, Parser, NewParser

LEMMA MinOfTwo ==
  ASSUME NEW a \in Nat, NEW b \in Nat
  PROVE  Min({a, b}) = IF a <= b THEN a ELSE b
<1>1. \E x \in {a, b} : \A y \in {a, b} : x <= y
  OBVIOUS
<1>2. Min({a, b}) \in {a, b} /\ Min({a, b}) <= a /\ Min({a, b}) <= b
  BY <1>1 DEF Min
<1> QED BY <1>2

HeaderFails(p) == p.out = "Err" /\ p.state = "HeaderStart"

(* The header, as long as it agrees.                                        *)
LEMMA HeaderByte ==
  ASSUME NEW h \in Seq(Byte), NEW buf \in Seq(Byte), NEW k \in Nat,
         Len(buf) = k + 1, k < Len(h), \A i \in 1..k : buf[i] = h[i],
         NEW p, At(p, "HeaderStart", buf, k, 0, <<>>, 0)
  PROVE  LET q == ParseHeaderStart(h, p)
         IN  /\ buf[k + 1] = h[k + 1] =>
                  At(q, IF k + 1 = Len(h) THEN "ContentLength" ELSE "HeaderStart",
                     buf, k + 1, 0, <<>>, 0)
             /\ buf[k + 1] # h[k + 1] => HeaderFails(q)
<1>1. /\ p.buffer = buf /\ p.current_index = k /\ p.state = "HeaderStart" /\ p \in Parser
      /\ HeaderFails(Err(p))
  BY DEF At, Err, Parser, HeaderFails
<1>2. Min({Len(p.buffer), Len(h)}) = k + 1
  BY <1>1, MinOfTwo
<1>3. Ahead(p, k + 1) = {k + 1}
  BY <1>1 DEF Ahead
<1>4. PICK state : state = IF k + 1 = Len(h) THEN "ContentLength" ELSE "HeaderStart"
  OBVIOUS
<1> DEFINE q == [p EXCEPT !.current_index = k + 1, !.state = state]
<1>5. ParseHeaderStart(h, p) = IF buf[k + 1] # h[k + 1] THEN Err(p) ELSE q
  BY <1>1, <1>2, <1>3, <1>4 DEF ParseHeaderStart
<1>6. At(q, state, buf, k + 1, 0, <<>>, 0)
  <2>1. state \in {"HeaderStart", "ContentLength"} /\ k + 1 \in Nat
    BY <1>4
  <2> QED BY <2>1, <1>1 DEF At, Parser
<1> HIDE DEF q
<1> QED BY <1>1, <1>4, <1>5, <1>6

(* The length: nothing yet, a digit, or the newline behind it.              *)
Stops(p) == {i \in Ahead(p, Len(p.buffer)) : p.buffer[i] \notin Digits}

LEMMA LengthByte ==
  ASSUME NEW p \in Parser, NEW stop \in Nat,
         Min(Stops(p) \cup {Len(p.buffer) + 1}) = stop + 1,
         NEW ds \in Seq(Digits), p.content \o SubSeq(p.buffer, p.current_index + 1, stop) = ds
  PROVE  ParseContentLengthInHeader(p) =
           IF Stops(p) = {} THEN [p EXCEPT !.content = ds, !.current_index = stop]
           ELSE IF p.buffer[stop + 1] = LF /\ Parses(ds)
             THEN [p EXCEPT !.content = ds, !.current_index = stop,
                            !.body_length = Value(ds), !.state = "Newline"]
             ELSE [p EXCEPT !.content = ds, !.current_index = stop, !.out = "Err"]
<1> DEFINE stops == {i \in Ahead(p, Len(p.buffer)) : p.buffer[i] \notin Digits}
           last == Min(stops \cup {Len(p.buffer) + 1})
           es == p.content \o SubSeq(p.buffer, p.current_index + 1, last - 1)
           q0 == [p EXCEPT !.content = es, !.current_index = last - 1]
           q == ParseContentLengthInHeader(p)
<1>1. q = IF stops = {} THEN q0
          ELSE IF p.buffer[last] = LF /\ Parses(es)
            THEN [q0 EXCEPT !.body_length = Value(es), !.state = "Newline"]
            ELSE Err(q0)
  BY DEF ParseContentLengthInHeader
<1>2. stops = Stops(p)
  BY DEF Stops
<1> HIDE DEF stops
<1>3. last = stop + 1 /\ last - 1 = stop
  BY <1>2
<1> HIDE DEF last
<1>4. es = ds
  BY <1>3
<1> HIDE DEF es
<1>5. q0 = [p EXCEPT !.content = ds, !.current_index = stop]
  BY <1>3, <1>4
<1>6. /\ [[p EXCEPT !.content = ds, !.current_index = stop]
            EXCEPT !.body_length = Value(ds), !.state = "Newline"]
           = [p EXCEPT !.content = ds, !.current_index = stop,
                       !.body_length = Value(ds), !.state = "Newline"]
      /\ Err([p EXCEPT !.content = ds, !.current_index = stop])
           = [p EXCEPT !.content = ds, !.current_index = stop, !.out = "Err"]
  BY DEF Err
<1> HIDE DEF q0, q
<1>7. q = IF Stops(p) = {} THEN q0
          ELSE IF p.buffer[stop + 1] = LF /\ Parses(ds)
            THEN [q0 EXCEPT !.body_length = Value(ds), !.state = "Newline"]
            ELSE Err(q0)
  BY <1>1, <1>2, <1>3, <1>4
<1> QED BY <1>5, <1>6, <1>7 DEF q

LEMMA NoLengthByte ==
  ASSUME NEW buf \in Seq(Byte), NEW ds \in Seq(Digits),
         NEW p, At(p, "ContentLength", buf, Len(buf), 0, ds, 0)
  PROVE  At(ParseContentLengthInHeader(p), "ContentLength", buf, Len(buf), 0, ds, 0)
<1> PICK k : k = Len(buf)
  OBVIOUS
<1>0. k \in Nat
  OBVIOUS
<1>1. p.buffer = buf /\ p.current_index = k /\ p.content = ds /\ p \in Parser
  BY DEF At
<1>2. Stops(p) = {}
  BY <1>0, <1>1 DEF Stops, Ahead
<1>3. Min(Stops(p) \cup {Len(p.buffer) + 1}) = k + 1
  <2>1. Stops(p) \cup {Len(p.buffer) + 1} = {k + 1, k + 1}
    BY <1>1, <1>2
  <2> QED BY <2>1, <1>0, MinOfTwo
<1>4. PICK es \in Seq(Digits) : es = ds /\ p.content \o SubSeq(p.buffer, p.current_index + 1, k) = es
  <2>1. SubSeq(p.buffer, p.current_index + 1, k) = <<>>
    BY <1>0, <1>1
  <2>2. ds \o <<>> = ds
    OBVIOUS
  <2> QED BY <1>1, <2>1, <2>2, Zenon
<1>5. ParseContentLengthInHeader(p) = [p EXCEPT !.content = es, !.current_index = k]
  <2>1. PICK m \in Nat : m = k
    BY <1>0
  <2>2. /\ p \in Parser /\ Min(Stops(p) \cup {Len(p.buffer) + 1}) = m + 1
        /\ p.content \o SubSeq(p.buffer, p.current_index + 1, m) = es
    BY <1>1, <1>3, <1>4, <2>1
  <2>3. ParseContentLengthInHeader(p) = [p EXCEPT !.content = es, !.current_index = m]
    BY <1>2, <2>2, LengthByte
  <2> QED BY <2>1, <2>3
<1>6. At([p EXCEPT !.content = ds, !.current_index = k], "ContentLength", buf, k, 0, ds, 0)
  BY <1>0 DEF At, Parser
<1> QED BY <1>4, <1>5, <1>6

LEMMA DigitByte ==
  ASSUME NEW buf \in Seq(Byte), NEW k \in Nat, Len(buf) = k + 1, NEW ds \in Seq(Digits),
         buf[k + 1] \in Digits, NEW p, At(p, "ContentLength", buf, k, 0, ds, 0)
  PROVE  At(ParseContentLengthInHeader(p),
            "ContentLength", buf, k + 1, 0, Append(ds, buf[k + 1]), 0)
<1>a. PICK es : es = Append(ds, buf[k + 1])
  OBVIOUS
<1>b. PICK m : m = k + 1
  OBVIOUS
<1>0. es \in Seq(Digits) /\ m \in Nat
  BY <1>a, <1>b, AppendIs
<1>1. p.buffer = buf /\ p.current_index = k /\ p.content = ds /\ p \in Parser
  BY DEF At
<1>2. Stops(p) = {}
  BY <1>1 DEF Stops, Ahead
<1>3. Min(Stops(p) \cup {Len(p.buffer) + 1}) = m + 1
  <2>1. Stops(p) \cup {Len(p.buffer) + 1} = {m + 1, m + 1}
    BY <1>1, <1>2, <1>b
  <2>2. Min({m + 1, m + 1}) = m + 1
    BY <1>0, MinOfTwo
  <2> QED BY <2>1, <2>2
<1>4. p.content \o SubSeq(p.buffer, p.current_index + 1, m) = es
  <2>1. PICK piece : piece = SubSeq(buf, k + 1, k + 1)
    OBVIOUS
  <2>2. piece \in Seq(Byte) /\ Len(piece) = 1 /\ piece[1] = buf[k + 1]
    BY <2>1
  <2>3. <<buf[k + 1]>> \in Seq(Byte) /\ Len(<<buf[k + 1]>>) = 1 /\ <<buf[k + 1]>>[1] = buf[k + 1]
    OBVIOUS
  <2>4. piece = <<buf[k + 1]>>
    BY <2>2, <2>3, SameSeq
  <2>5. ds \o <<buf[k + 1]>> = Append(ds, buf[k + 1])
    OBVIOUS
  <2> QED BY <1>1, <1>a, <1>b, <2>1, <2>4, <2>5
<1>5. ParseContentLengthInHeader(p) = [p EXCEPT !.content = es, !.current_index = m]
  BY <1>0, <1>1, <1>2, <1>3, <1>4, LengthByte
<1>6. At([p EXCEPT !.content = es, !.current_index = m], "ContentLength", buf, m, 0, es, 0)
  BY <1>0 DEF At, Parser
<1> QED BY <1>5, <1>6, <1>a, <1>b

LEMMA LengthEndByte ==
  ASSUME NEW buf \in Seq(Byte), NEW k \in Nat, Len(buf) = k + 1, NEW ds \in Seq(Digits),
         buf[k + 1] = LF, Parses(ds), Value(ds) \in Nat,
         NEW p, At(p, "ContentLength", buf, k, 0, ds, 0)
  PROVE  At(ParseContentLengthInHeader(p), "Newline", buf, k, Value(ds), ds, 0)
<1>a. PICK n : n = Value(ds)
  OBVIOUS
<1>1. p.buffer = buf /\ p.current_index = k /\ p.content = ds /\ p \in Parser
  BY DEF At
<1>2. Stops(p) = {k + 1}
  BY <1>1, ConstantTypes DEF Stops, Ahead
<1>3. Min(Stops(p) \cup {Len(p.buffer) + 1}) = k + 1
  <2>1. Stops(p) \cup {Len(p.buffer) + 1} = {k + 1, k + 2}
    BY <1>1, <1>2
  <2>2. k + 1 \in Nat /\ k + 2 \in Nat /\ k + 1 <= k + 2
    OBVIOUS
  <2>3. Min({k + 1, k + 2}) = k + 1
    BY <2>2, MinOfTwo
  <2> QED BY <2>1, <2>3
<1>4. PICK es \in Seq(Digits) : es = ds /\ p.content \o SubSeq(p.buffer, p.current_index + 1, k) = es
  <2>1. SubSeq(p.buffer, p.current_index + 1, k) = <<>>
    BY <1>1
  <2>2. ds \o <<>> = ds
    OBVIOUS
  <2> QED BY <1>1, <2>1, <2>2, Zenon
<1> DEFINE q == [p EXCEPT !.content = es, !.current_index = k,
                          !.body_length = Value(es), !.state = "Newline"]
<1>5. ParseContentLengthInHeader(p) = q
  <2>1. PICK m \in Nat : m = k
    OBVIOUS
  <2>2. Stops(p) # {} /\ p.buffer[m + 1] = LF /\ Parses(es)
    BY <1>1, <1>2, <1>4, <2>1
  <2>3. /\ p \in Parser /\ Min(Stops(p) \cup {Len(p.buffer) + 1}) = m + 1
        /\ p.content \o SubSeq(p.buffer, p.current_index + 1, m) = es
    BY <1>1, <1>3, <1>4, <2>1
  <2>4. ParseContentLengthInHeader(p) =
          [p EXCEPT !.content = es, !.current_index = m,
                    !.body_length = Value(es), !.state = "Newline"]
    BY <2>2, <2>3, LengthByte
  <2> QED BY <2>1, <2>4
<1>6. At(q, "Newline", buf, k, n, es, 0)
  BY <1>a, <1>4 DEF At, Parser
<1> QED BY <1>4, <1>5, <1>6, <1>a

LEMMA NewlineByte ==
  ASSUME NEW buf \in Seq(Byte), NEW k \in Nat, Len(buf) = k + 1, NEW ds, NEW length,
         NEW newlines \in {0, 1}, buf[k + 1] = LF,
         NEW p, At(p, "Newline", buf, k, length, ds, newlines)
  PROVE  At(ParseNewlineBetweenHeaderAndBody(p), IF newlines = 1 THEN "Body" ELSE "Newline",
            buf, k + 1, length, ds, newlines + 1)
<1>1. p.buffer = buf /\ p.current_index = k /\ p.occured_times = newlines
  BY DEF At
<1>2. Min({2 - p.occured_times, Len(p.buffer) - p.current_index}) = 1
  <2>1. 2 - p.occured_times \in Nat /\ 2 - p.occured_times >= 1
        /\ Len(p.buffer) - p.current_index = 1
    BY <1>1
  <2> QED BY <2>1, MinOfTwo
<1>3. Ahead(p, p.current_index + 1) = {k + 1}
  BY <1>1 DEF Ahead
<1> DEFINE q == [p EXCEPT !.current_index = k + 1, !.occured_times = newlines + 1,
                          !.state = IF newlines = 1 THEN "Body" ELSE "Newline"]
<1>4. ParseNewlineBetweenHeaderAndBody(p) = q
  <2>1. p.occured_times + 1 = 2 <=> newlines = 1
    BY <1>1
  <2>2. p.state = "Newline"
    BY DEF At
  <2> QED BY <1>1, <1>2, <1>3, <2>1, <2>2 DEF ParseNewlineBetweenHeaderAndBody
<1>5. At(q, IF newlines = 1 THEN "Body" ELSE "Newline", buf, k + 1, length, ds, newlines + 1)
  <2>1. PICK state, m, n : /\ state = IF newlines = 1 THEN "Body" ELSE "Newline"
                           /\ m = k + 1 /\ n = newlines + 1
    OBVIOUS
  <2>2. state \in {"Body", "Newline"} /\ m \in Nat /\ n \in Nat
    BY <2>1
  <2>3. At([p EXCEPT !.current_index = m, !.occured_times = n, !.state = state],
           state, buf, m, length, ds, n)
    BY <2>2 DEF At, Parser
  <2> QED BY <2>1, <2>3
<1> HIDE DEF q
<1> QED BY <1>4, <1>5

(* The body, when all of it is there or before.                             *)
LEMMA BodyByte ==
  ASSUME NEW buf \in Seq(Byte), NEW n \in Nat, n <= Len(buf), NEW length \in Nat, NEW ds,
         NEW p, At(p, "Body", buf, n, length, ds, 2)
  PROVE  IF Len(buf) < n + length
           THEN ParseBody(p) = p
           ELSE ParseBody(p).out = "Some" /\ ParseBody(p).body = SubSeq(buf, n + 1, n + length)
<1>1. p.buffer = buf /\ p.current_index = n /\ p.body_length = length /\ Len(buf) \in Nat
  BY DEF At
<1>2. Len(buf) - n >= length <=> ~ (Len(buf) < n + length)
  BY <1>1
<1> DEFINE q == [p EXCEPT !.body = SubSeq(buf, n + 1, n + length),
                          !.current_index = n + length,
                          !.buffer = SubSeq(buf, n + length + 1, Len(buf)),
                          !.out = "Some"]
<1>3. ParseBody(p) = IF Len(buf) < n + length THEN p ELSE q
  BY <1>1, <1>2 DEF ParseBody
<1>4. q.out = "Some" /\ q.body = SubSeq(buf, n + 1, n + length)
  BY DEF At, Parser
<1> HIDE DEF q
<1> QED BY <1>3, <1>4

(* add_char_to_buffer                                                       *)
LEMMA Added ==
  ASSUME NEW p, NEW state, NEW buf \in Seq(Byte), NEW index, NEW length, NEW ds, NEW newlines,
         At(p, state, buf, index, length, ds, newlines), NEW b \in Byte
  PROVE  At(AddToBuffer(p, <<b>>), state, Append(buf, b), index, length, ds, newlines)
<1>a. PICK more : more = Append(buf, b)
  OBVIOUS
<1>1. more \in Seq(Byte) /\ buf \o <<b>> = more
  BY <1>a
<1>2. p.buffer = buf
  BY DEF At
<1>3. AddToBuffer(p, <<b>>) = [p EXCEPT !.buffer = more]
  BY <1>1, <1>2 DEF AddToBuffer
<1>4. At([p EXCEPT !.buffer = more], state, more, index, length, ds, newlines)
  BY <1>1 DEF At, Parser
<1> QED BY <1>a, <1>3, <1>4

(* p has read the first bytes of the frame of body, not all of them.        *)
FrameStage(p, h, body) ==
  LET k == Len(p.buffer)
      a == Numeral[Len(body)]
      n == LengthEnd(h, body)
  IN  \/ k < Len(h) /\ At(p, "HeaderStart", p.buffer, k, 0, <<>>, 0)
      \/ /\ k \in Len(h)..n
         /\ At(p, "ContentLength", p.buffer, k, 0, SubSeq(a, 1, k - Len(h)), 0)
      \/ k = n + 1 /\ At(p, "Newline", p.buffer, k, Len(body), a, 1)
      \/ k >= n + 2 /\ At(p, "Body", p.buffer, n + 2, Len(body), a, 2)

InFrame(p, h, body) ==
  /\ p.buffer \in Seq(Byte) /\ Len(p.buffer) < Len(Frame(h, body))
  /\ Piece(p.buffer, Frame(h, body), 0)
  /\ FrameStage(p, h, body)

LEMMA NewInFrame ==
  ASSUME NEW h \in Seq(Byte), h # <<>>, NEW body \in Seq(Byte)
  PROVE  InFrame(NewParser, h, body)
<1>1. NewParser.buffer = <<>> /\ <<>> \in Seq(Byte) /\ Len(<<>>) = 0 /\ 0 < Len(h) /\ Len(h) \in Nat
  BY DEF NewParser
<1>2. Len(Frame(h, body)) \in Nat /\ Len(Frame(h, body)) > 0
  <2>1. LET n == LengthEnd(h, body)
        IN  Len(Frame(h, body)) = n + 2 + Len(body) /\ n \in Nat
    BY FrameIs
  <2> QED BY <2>1
<1>3. Piece(NewParser.buffer, Frame(h, body), 0)
  BY <1>1, <1>2 DEF Piece
<1>4. FrameStage(NewParser, h, body)
  BY <1>1, NewAt DEF FrameStage
<1> QED BY <1>1, <1>2, <1>3, <1>4 DEF InFrame

(* In which of its loop's turns parse does what.                            *)
LEMMA ParseTurns ==
  ASSUME NEW h, NEW p
  PROVE  LET p1 == ParseHeaderStart(h, p)
             p2 == ParseContentLengthInHeader(p)
             p3 == ParseNewlineBetweenHeaderAndBody(p)
         IN  /\ p.state = "HeaderStart" /\ p1.state = "HeaderStart" => Parse(h, p) = p1
             /\ p.state = "HeaderStart" /\ p1.state = "ContentLength" =>
                  Parse(h, p) = Parse(h, p1)
             /\ p.state = "ContentLength" /\ p2.state = "ContentLength" => Parse(h, p) = p2
             /\ p.state = "ContentLength" /\ p2.state = "Newline" /\ p2.out = "None" =>
                  Parse(h, p) = Parse(h, p2)
             /\ p.state = "Newline" /\ p.out = "None" /\ p3.state = "Newline" => Parse(h, p) = p3
             /\ p.state = "Newline" /\ p.out = "None" /\ p3.state = "Body" /\ p3.out = "None" =>
                  Parse(h, p) = ParseBody(p3)
             /\ p.state = "Body" /\ p.out = "None" => Parse(h, p) = ParseBody(p)
  BY DEF Parse

LEMMA BodyEnds ==
  ASSUME NEW h \in Seq(Byte), NEW body \in Seq(Byte), NEW buf \in Seq(Byte),
         Piece(buf, Frame(h, body), 0), Len(buf) >= LengthEnd(h, body) + 2,
         NEW ds, NEW p, At(p, "Body", buf, LengthEnd(h, body) + 2, Len(body), ds, 2)
  PROVE  IF Len(buf) < Len(Frame(h, body))
           THEN ParseBody(p) = p
           ELSE ParseBody(p).out = "Some" /\ ParseBody(p).body = body
<1> DEFINE t == Frame(h, body)
<1>a. PICK n : n = LengthEnd(h, body)
  OBVIOUS
<1>1. /\ t \in Seq(Byte) /\ Len(t) = n + 2 + Len(body) /\ n \in Nat
      /\ \A i \in 1..Len(body) : t[n + 2 + i] = body[i]
  BY <1>a, FrameIs
<1> HIDE DEF t
<1>2. Len(buf) \in Nat /\ Len(body) \in Nat /\ Len(buf) <= Len(t) /\ n + 2 \in Nat /\ n + 2 <= Len(buf)
      /\ \A i \in 1..Len(buf) : buf[i] = t[i]
  <2>1. 0 + Len(buf) <= Len(t) /\ \A i \in 1..Len(buf) : buf[i] = t[0 + i]
    BY DEF t, Piece
  <2>2. Len(buf) \in Nat /\ Len(body) \in Nat
    OBVIOUS
  <2>3. Len(buf) <= Len(t) /\ n + 2 \in Nat /\ n + 2 <= Len(buf)
    BY <1>a, <1>1, <2>1, <2>2
  <2>4. \A i \in 1..Len(buf) : buf[i] = t[i]
    BY <2>1, <2>2
  <2> QED BY <2>2, <2>3, <2>4
<1>3. IF Len(buf) < n + 2 + Len(body)
        THEN ParseBody(p) = p
        ELSE ParseBody(p).out = "Some" /\ ParseBody(p).body = SubSeq(buf, n + 2 + 1, n + 2 + Len(body))
  <2>1. PICK m \in Nat : m = n + 2
    BY <1>2
  <2>2. m <= Len(buf) /\ At(p, "Body", buf, m, Len(body), ds, 2)
    BY <1>a, <1>2, <2>1
  <2>3. IF Len(buf) < m + Len(body)
          THEN ParseBody(p) = p
          ELSE ParseBody(p).out = "Some" /\ ParseBody(p).body = SubSeq(buf, m + 1, m + Len(body))
    BY <1>2, <2>2, BodyByte
  <2> QED BY <2>1, <2>3
<1>4. CASE Len(buf) < n + 2 + Len(body)
  BY <1>1, <1>3, <1>4 DEF t
<1>5. CASE ~ (Len(buf) < n + 2 + Len(body))
  <2>1. Len(buf) = n + 2 + Len(body)
    BY <1>1, <1>2, <1>5
  <2>2. PICK c, d : c = n + 2 + 1 /\ d = n + 2 + Len(body)
    OBVIOUS
  <2>3. PICK piece : piece = SubSeq(buf, c, d)
    OBVIOUS
  <2>4. c \in Nat /\ d \in Nat /\ c > 0 /\ d <= Len(buf) /\ d - c + 1 = Len(body)
        /\ (c <= d <=> Len(body) > 0)
    BY <1>1, <1>2, <2>1, <2>2
  <2>6. /\ piece \in Seq(Byte)
        /\ Len(piece) = IF c <= d THEN d - c + 1 ELSE 0
        /\ \A i \in 1..(d - c + 1) : piece[i] = buf[c + i - 1]
    BY <2>3, <2>4, PieceOf
  <2>7. Len(piece) = Len(body)
    BY <1>2, <2>4, <2>6
  <2>8. ASSUME NEW i \in 1..Len(body) PROVE piece[i] = body[i]
    <3>1. i \in 1..(d - c + 1) /\ c + i - 1 = n + 2 + i /\ n + 2 + i \in 1..Len(buf)
      BY <1>1, <1>2, <2>1, <2>2, <2>4
    <3> QED BY <1>1, <1>2, <2>6, <3>1
  <2>5. piece = body
    BY <2>6, <2>7, <2>8, SameSeq
  <2> QED BY <1>1, <1>3, <1>5, <2>1, <2>2, <2>3, <2>5 DEF t
<1> QED BY <1>4, <1>5

(* b is the byte behind buf in whole; q is p when it has parsed b.          *)
Follows(b, buf, whole) == b = whole[Len(buf) + 1]
HasRead(q, p, h, b)    == q = Parse(h, AddToBuffer(p, <<b>>))

(* One byte more of the frame: parse goes on, or returns its body.          *)
LEMMA FrameByte ==
  ASSUME NEW h \in Seq(Byte), NEW body \in Content, NEW p, InFrame(p, h, body),
         NEW b, Follows(b, p.buffer, Frame(h, body)), NEW parsed, HasRead(parsed, p, h, b)
  PROVE  /\ Len(p.buffer) + 1 < Len(Frame(h, body)) =>
              InFrame(parsed, h, body) /\ parsed.out = "None" /\ parsed.buffer = Append(p.buffer, b)
         /\ ~ (Len(p.buffer) + 1 < Len(Frame(h, body))) => parsed.out = "Some" /\ parsed.body = body
<1> DEFINE t == Frame(h, body)
           a == Numeral[Len(body)]
<1>a. PICK n : n = LengthEnd(h, body)
  OBVIOUS
<1>b. PICK k : k = Len(p.buffer)
  OBVIOUS
<1>c. PICK buf : buf = Append(p.buffer, b)
  OBVIOUS
<1>0. body \in Seq(Byte) /\ Len(body) <= UsizeMax /\ Len(body) \in Nat /\ p.buffer \in Seq(Byte)
      /\ Len(h) \in Nat
  BY DEF Content, InFrame
<1>1. /\ t \in Seq(Byte) /\ Len(t) = n + 2 + Len(body) /\ n \in Nat /\ Len(h) < n
      /\ \A i \in 1..Len(h) : t[i] = h[i]
      /\ \A i \in 1..Len(a) : t[Len(h) + i] = a[i]
      /\ t[n + 1] = LF /\ t[n + 2] = LF
  BY <1>0, <1>a, FrameIs
<1>2. /\ a \in Seq(Digits) /\ Len(a) \in Nat /\ n = Len(h) + Len(a) /\ a # <<>>
      /\ Value(a) = Len(body) /\ Parses(a)
  <2>1. a \in Seq(Digits) /\ Len(a) \in Nat \ {0} /\ Value(a) = Len(body)
    BY <1>0, NumeralRoundtrip
  <2>2. n = Len(h) + Len(a)
    BY <1>a DEF LengthEnd
  <2> HIDE DEF a
  <2> QED BY <1>0, <2>1, <2>2 DEF Parses
<1>3. k \in Nat /\ k < Len(t) /\ Piece(p.buffer, t, 0) /\ b = t[k + 1] /\ b \in Byte
  <2>1. k \in Nat /\ k < Len(t) /\ Piece(p.buffer, t, 0) /\ b = t[k + 1]
    BY <1>0, <1>b DEF InFrame, Follows
  <2> HIDE DEF t
  <2>2. k + 1 \in 1..Len(t)
    BY <1>1, <2>1
  <2> QED BY <1>1, <2>1, <2>2
<1> HIDE DEF t, a
<1>4. /\ buf \in Seq(Byte) /\ Len(buf) = k + 1 /\ buf[k + 1] = b
      /\ Piece(buf, t, 0) /\ \A i \in 1..k : buf[i] = t[i]
  <2>1. /\ buf \in Seq(Byte) /\ Len(buf) = k + 1 /\ buf[k + 1] = b
        /\ \A i \in 1..k : buf[i] = p.buffer[i]
    <3>1. /\ buf \in Seq(Byte) /\ Len(buf) = Len(p.buffer) + 1 /\ buf[Len(p.buffer) + 1] = b
          /\ \A i \in 1..Len(p.buffer) : buf[i] = p.buffer[i]
      BY <1>0, <1>3, <1>c, AppendIs
    <3> QED BY <1>b, <3>1
  <2>2. \A i \in 1..k : p.buffer[i] = t[i]
    <3>1. \A i \in 1..Len(p.buffer) : p.buffer[i] = t[0 + i]
      BY <1>3 DEF Piece
    <3> QED BY <1>b, <1>3, <3>1
  <2>3. \A i \in 1..(k + 1) : buf[i] = t[i]
    <3> SUFFICES ASSUME NEW i \in 1..(k + 1) PROVE buf[i] = t[i]
      OBVIOUS
    <3>1. i = k + 1 \/ i \in 1..k
      BY <1>3
    <3> QED BY <1>3, <2>1, <2>2, <3>1
  <2>4. 0 + Len(buf) <= Len(t) /\ \A i \in 1..Len(buf) : buf[i] = t[0 + i]
    BY <1>1, <1>3, <2>1, <2>3
  <2> QED BY <1>3, <2>1, <2>3, <2>4 DEF Piece
<1>d. PICK p0 : p0 = AddToBuffer(p, <<b>>)
  OBVIOUS
<1>5. ASSUME NEW q, At(q, "HeaderStart", buf, k + 1, 0, <<>>, 0), k + 1 < Len(h)
      PROVE  InFrame(q, h, body) /\ q.out = "None" /\ q.buffer = buf
  <2>1. q.buffer = buf /\ q.out = "None" /\ k + 1 < Len(t)
    BY <1>5, <1>0, <1>1, <1>3 DEF At
  <2>2. FrameStage(q, h, body)
    BY <1>4, <1>5, <2>1 DEF FrameStage
  <2> QED BY <1>4, <2>1, <2>2 DEF InFrame, t
<1>6. ASSUME NEW q, NEW m \in Nat, m = k + 1, m \in Len(h)..n,
             At(q, "ContentLength", buf, m, 0, SubSeq(a, 1, m - Len(h)), 0)
      PROVE  InFrame(q, h, body) /\ q.out = "None" /\ q.buffer = buf
  <2>1. q.buffer = buf /\ q.out = "None" /\ k + 1 < Len(t) /\ Len(q.buffer) = m
    BY <1>6, <1>0, <1>1, <1>3, <1>4 DEF At
  <2>2. FrameStage(q, h, body)
    <3>1. At(q, "ContentLength", q.buffer, m, 0, SubSeq(a, 1, m - Len(h)), 0)
      BY <1>6, <2>1, Zenon
    <3> QED BY <1>6, <1>a, <2>1, <3>1 DEF FrameStage, a
  <2> QED BY <1>4, <2>1, <2>2 DEF InFrame, t
<1>7. ASSUME NEW q, k = n, At(q, "Newline", buf, k + 1, Len(body), a, 1)
      PROVE  InFrame(q, h, body) /\ q.out = "None" /\ q.buffer = buf
  <2>1. q.buffer = buf /\ q.out = "None" /\ k + 1 < Len(t)
    BY <1>7, <1>0, <1>1, <1>3 DEF At
  <2>2. FrameStage(q, h, body)
    BY <1>4, <1>7, <1>a, <2>1 DEF FrameStage, a
  <2> QED BY <1>4, <2>1, <2>2 DEF InFrame, t
<1>8. ASSUME NEW q, k >= n + 1, At(q, "Body", buf, n + 2, Len(body), a, 2)
      PROVE  IF k + 1 < Len(t)
               THEN InFrame(ParseBody(q), h, body) /\ ParseBody(q).out = "None" /\ ParseBody(q).buffer = buf
               ELSE ParseBody(q).out = "Some" /\ ParseBody(q).body = body
  <2>1. Len(buf) >= n + 2
    BY <1>1, <1>3, <1>4, <1>8
  <2>2. IF Len(buf) < Len(t) THEN ParseBody(q) = q
        ELSE ParseBody(q).out = "Some" /\ ParseBody(q).body = body
    BY <1>0, <1>4, <1>8, <1>a, <2>1, BodyEnds DEF t
  <2>3. ASSUME k + 1 < Len(t)
        PROVE  InFrame(q, h, body) /\ q.out = "None" /\ q.buffer = buf
    <3>1. q.buffer = buf /\ q.out = "None"
      BY <1>8 DEF At
    <3>2. FrameStage(q, h, body)
      BY <1>1, <1>3, <1>4, <1>8, <1>a, <3>1 DEF FrameStage, a
    <3> QED BY <1>4, <2>3, <3>1, <3>2 DEF InFrame, t
  <2> QED BY <1>4, <2>2, <2>3
<1>9. FrameStage(p, h, body)
  BY DEF InFrame
<1> SUFFICES IF k + 1 < Len(t)
               THEN InFrame(Parse(h, p0), h, body) /\ Parse(h, p0).out = "None"
                    /\ Parse(h, p0).buffer = buf
               ELSE Parse(h, p0).out = "Some" /\ Parse(h, p0).body = body
  BY <1>b, <1>c, <1>d DEF t, HasRead
<1>10. CASE k < Len(h) /\ At(p, "HeaderStart", p.buffer, k, 0, <<>>, 0)
  <2>1. At(p0, "HeaderStart", buf, k, 0, <<>>, 0)
    BY <1>0, <1>3, <1>10, <1>c, <1>d, Added
  <2>2. \A i \in 1..k : buf[i] = h[i]
    BY <1>0, <1>1, <1>3, <1>4, <1>10
  <2>3. buf[k + 1] = h[k + 1]
    <3>1. k + 1 \in 1..Len(h)
      BY <1>0, <1>3, <1>10
    <3> QED BY <3>1, <1>1, <1>3, <1>4
  <2> DEFINE q == ParseHeaderStart(h, p0)
  <2>4. At(q, IF k + 1 = Len(h) THEN "ContentLength" ELSE "HeaderStart", buf, k + 1, 0, <<>>, 0)
    BY <1>3, <1>4, <1>10, <2>1, <2>2, <2>3, HeaderByte
  <2>5. p0.state = "HeaderStart"
    BY <2>1 DEF At
  <2>6. k + 1 < Len(t)
    BY <1>0, <1>1, <1>3, <1>10
  <2>7. CASE k + 1 = Len(h)
    <3> DEFINE r == ParseContentLengthInHeader(q)
    <3>1. At(q, "ContentLength", buf, k + 1, 0, <<>>, 0)
      BY <2>4, <2>7
    <3> HIDE DEF q
    <3>2. At(r, "ContentLength", buf, k + 1, 0, <<>>, 0)
      <4>1. <<>> \in Seq(Digits)
        OBVIOUS
      <4>2. At(q, "ContentLength", buf, Len(buf), 0, <<>>, 0)
        BY <1>4, <3>1
      <4>3. At(r, "ContentLength", buf, Len(buf), 0, <<>>, 0)
        BY <1>4, <4>1, <4>2, NoLengthByte
      <4> QED BY <1>4, <4>3
    <3>3. q.state = "ContentLength" /\ r.state = "ContentLength"
      BY <3>1, <3>2 DEF At
    <3>4. Parse(h, p0) = r
      <4>1. Parse(h, p0) = Parse(h, q)
        BY <2>5, <3>3, ParseTurns DEF q
      <4>2. Parse(h, q) = r
        BY <3>3, ParseTurns
      <4> QED BY <4>1, <4>2
    <3>5. SubSeq(a, 1, 0) = <<>> /\ k + 1 \in Len(h)..n
      BY <1>0, <1>1, <1>2, <1>3, <2>7
    <3>6. InFrame(r, h, body) /\ r.out = "None" /\ r.buffer = buf
      <4> HIDE DEF r
      <4>1. PICK m \in Nat : m = k + 1
        BY <1>3
      <4>2. m \in Len(h)..n /\ m - Len(h) = 0
        BY <1>0, <2>7, <3>5, <4>1
      <4>3. At(r, "ContentLength", buf, m, 0, SubSeq(a, 1, m - Len(h)), 0)
        BY <3>2, <3>5, <4>1, <4>2
      <4> QED BY <1>6, <4>1, <4>2, <4>3
    <3> QED BY <2>6, <3>4, <3>6
  <2>8. CASE k + 1 # Len(h)
    <3>1. At(q, "HeaderStart", buf, k + 1, 0, <<>>, 0) /\ k + 1 < Len(h)
      BY <1>0, <1>3, <1>10, <2>4, <2>8
    <3>2. q.state = "HeaderStart"
      BY <3>1 DEF At
    <3>3. Parse(h, p0) = q
      BY <2>5, <3>2, ParseTurns
    <3> HIDE DEF q
    <3> QED BY <1>5, <2>6, <3>1, <3>3
  <2> QED BY <2>7, <2>8
<1>11. CASE k \in Len(h)..n /\ At(p, "ContentLength", p.buffer, k, 0, SubSeq(a, 1, k - Len(h)), 0)
  <2>a. PICK ds : ds = SubSeq(a, 1, k - Len(h))
    OBVIOUS
  <2>1. ds \in Seq(Digits) /\ k - Len(h) \in 0..Len(a) /\ Len(ds) = k - Len(h)
        /\ \A i \in 1..(k - Len(h)) : ds[i] = a[i]
    <3>1. k - Len(h) \in 0..Len(a)
      BY <1>0, <1>1, <1>2, <1>3, <1>11
    <3> QED BY <1>2, <2>a, <3>1
  <2>2. At(p0, "ContentLength", buf, k, 0, ds, 0)
    BY <1>0, <1>3, <1>11, <1>c, <1>d, <2>a, Added
  <2>3. p0.state = "ContentLength"
    BY <2>2 DEF At
  <2> DEFINE q == ParseContentLengthInHeader(p0)
  <2>4. CASE k < n
    <3>1. buf[k + 1] = a[k + 1 - Len(h)] /\ k + 1 - Len(h) \in 1..Len(a)
      <4>1. k + 1 - Len(h) \in 1..Len(a) /\ Len(h) + (k + 1 - Len(h)) = k + 1
        BY <1>0, <1>1, <1>2, <1>3, <1>11, <2>4
      <4> QED BY <4>1, <1>1, <1>3, <1>4
    <3>2. buf[k + 1] \in Digits
      BY <1>2, <3>1
    <3>3. At(q, "ContentLength", buf, k + 1, 0, Append(ds, buf[k + 1]), 0)
      BY <1>3, <1>4, <2>1, <2>2, <3>2, DigitByte
    <3> HIDE DEF q
    <3>a. PICK m \in Nat : m = k + 1
      BY <1>3
    <3>4. Append(ds, buf[k + 1]) = SubSeq(a, 1, m - Len(h))
      <4>a. PICK j : j = m - Len(h)
        OBVIOUS
      <4>b. PICK es, piece : es = Append(ds, buf[k + 1]) /\ piece = SubSeq(a, 1, j)
        OBVIOUS
      <4>1. j \in 1..Len(a) /\ j \in Nat /\ Len(ds) = j - 1
        <5>1. j = k + 1 - Len(h) /\ Len(h) \in Nat /\ k \in Nat
          BY <1>0, <1>3, <3>a, <4>a
        <5>2. Len(ds) = k - Len(h)
          BY <2>1
        <5>3. k + 1 - Len(h) \in 1..Len(a)
          BY <3>1
        <5> QED BY <1>2, <5>1, <5>2, <5>3
      <4>2. /\ es \in Seq(Digits) /\ Len(es) = j /\ es[j] = a[j]
            /\ \A i \in 1..(j - 1) : es[i] = a[i]
        <5>1. /\ es \in Seq(Digits) /\ Len(es) = Len(ds) + 1 /\ es[Len(ds) + 1] = buf[k + 1]
              /\ \A i \in 1..Len(ds) : es[i] = ds[i]
          BY <2>1, <3>2, <4>b, AppendIs
        <5>2. j = k + 1 - Len(h) /\ Len(h) \in Nat
          BY <1>0, <1>3, <3>a, <4>a
        <5>3. buf[k + 1] = a[j]
          BY <3>1, <5>2
        <5>4. \A i \in 1..Len(ds) : ds[i] = a[i]
          BY <2>1
        <5>5. Len(ds) + 1 = j
          BY <4>1
        <5> QED BY <4>1, <5>1, <5>3, <5>4, <5>5
      <4>3. piece \in Seq(Digits) /\ Len(piece) = j /\ \A i \in 1..j : piece[i] = a[i]
        BY <1>2, <4>1, <4>b
      <4>4. \A i \in 1..Len(es) : es[i] = piece[i]
        <5> SUFFICES ASSUME NEW i \in 1..j PROVE es[i] = piece[i]
          BY <4>2
        <5>1. i = j \/ i \in 1..(j - 1)
          BY <4>1
        <5> QED BY <4>2, <4>3, <5>1
      <4>5. es = piece
        BY <4>2, <4>3, <4>4, SameSeq
      <4> QED BY <4>5, <4>a, <4>b
    <3>5. q.state = "ContentLength"
      BY <3>3 DEF At
    <3>6. Parse(h, p0) = q
      BY <2>3, <3>5, ParseTurns DEF q
    <3>7. InFrame(q, h, body) /\ q.out = "None" /\ q.buffer = buf
      <4>1. m \in Len(h)..n
        BY <1>0, <1>1, <1>3, <1>11, <2>4, <3>a
      <4>2. At(q, "ContentLength", buf, m, 0, SubSeq(a, 1, m - Len(h)), 0)
        BY <3>3, <3>4, <3>a
      <4> QED BY <1>6, <3>a, <4>1, <4>2
    <3>8. k + 1 < Len(t)
      BY <1>0, <1>1, <1>3, <2>4
    <3> QED BY <3>6, <3>7, <3>8
  <2>5. CASE k = n
    <3>1. ds = a
      <4>1. k - Len(h) = Len(a)
        BY <1>0, <1>2, <2>5
      <4> QED BY <1>2, <2>1, <4>1, SameSeq
    <3>2. buf[k + 1] = LF
      BY <1>1, <1>3, <1>4, <2>5
    <3>3. At(q, "Newline", buf, k, Len(body), a, 0)
      BY <1>0, <1>2, <1>3, <1>4, <2>2, <3>1, <3>2, LengthEndByte
    <3> HIDE DEF q
    <3> DEFINE r == ParseNewlineBetweenHeaderAndBody(q)
    <3>4. At(r, "Newline", buf, k + 1, Len(body), a, 1)
      <4>1. At(r, IF 0 = 1 THEN "Body" ELSE "Newline", buf, k + 1, Len(body), a, 0 + 1)
        <5>1. PICK z \in {0, 1} : z = 0
          OBVIOUS
        <5>2. At(q, "Newline", buf, k, Len(body), a, z)
          BY <3>3, <5>1
        <5>3. At(r, IF z = 1 THEN "Body" ELSE "Newline", buf, k + 1, Len(body), a, z + 1)
          BY <1>3, <1>4, <3>2, <5>2, NewlineByte
        <5> QED BY <5>1, <5>3
      <4> QED BY <4>1
    <3>5. q.state = "Newline" /\ q.out = "None" /\ r.state = "Newline"
      BY <3>3, <3>4 DEF At
    <3>6. Parse(h, p0) = r
      <4>1. Parse(h, p0) = Parse(h, q)
        BY <2>3, <3>5, ParseTurns DEF q
      <4>2. Parse(h, q) = r
        BY <3>5, ParseTurns
      <4> QED BY <4>1, <4>2
    <3> HIDE DEF r
    <3>7. InFrame(r, h, body) /\ r.out = "None" /\ r.buffer = buf
      BY <1>7, <2>5, <3>4
    <3>8. k + 1 < Len(t)
      BY <1>0, <1>1, <1>3, <2>5
    <3> QED BY <3>6, <3>7, <3>8
  <2> QED BY <1>1, <1>3, <1>11, <2>4, <2>5
<1>12. CASE k = n + 1 /\ At(p, "Newline", p.buffer, k, Len(body), a, 1)
  <2>1. At(p0, "Newline", buf, k, Len(body), a, 1)
    BY <1>0, <1>3, <1>12, <1>c, <1>d, Added
  <2>2. buf[k + 1] = LF
    <3>1. k + 1 = n + 2
      BY <1>1, <1>12
    <3> QED BY <1>1, <1>3, <1>4, <3>1
  <2> DEFINE q == ParseNewlineBetweenHeaderAndBody(p0)
  <2>3. At(q, "Body", buf, n + 2, Len(body), a, 2)
    <3>1. PICK z \in {0, 1} : z = 1
      OBVIOUS
    <3>2. At(p0, "Newline", buf, k, Len(body), a, z)
      BY <2>1, <3>1
    <3>3. At(q, IF z = 1 THEN "Body" ELSE "Newline", buf, k + 1, Len(body), a, z + 1)
      BY <1>3, <1>4, <2>2, <3>2, NewlineByte
    <3>4. k + 1 = n + 2 /\ z + 1 = 2
      BY <1>1, <1>12, <3>1
    <3> QED BY <3>1, <3>3, <3>4
  <2>4. p0.state = "Newline" /\ p0.out = "None" /\ q.state = "Body" /\ q.out = "None"
    BY <2>1, <2>3 DEF At
  <2>5. Parse(h, p0) = ParseBody(q)
    BY <2>4, ParseTurns
  <2> HIDE DEF q
  <2>6. k >= n + 1
    BY <1>1, <1>12
  <2> QED BY <1>8, <2>3, <2>5, <2>6
<1>13. CASE k >= n + 2 /\ At(p, "Body", p.buffer, n + 2, Len(body), a, 2)
  <2>1. At(p0, "Body", buf, n + 2, Len(body), a, 2)
    BY <1>0, <1>3, <1>13, <1>c, <1>d, Added
  <2>2. p0.state = "Body" /\ p0.out = "None"
    BY <2>1 DEF At
  <2>3. Parse(h, p0) = ParseBody(p0)
    BY <2>2, ParseTurns
  <2>4. k >= n + 1
    BY <1>1, <1>3, <1>13
  <2> QED BY <1>8, <2>1, <2>3, <2>4
<1>14. \/ k < Len(h) /\ At(p, "HeaderStart", p.buffer, k, 0, <<>>, 0)
       \/ k \in Len(h)..n /\ At(p, "ContentLength", p.buffer, k, 0, SubSeq(a, 1, k - Len(h)), 0)
       \/ k = n + 1 /\ At(p, "Newline", p.buffer, k, Len(body), a, 1)
       \/ k >= n + 2 /\ At(p, "Body", p.buffer, n + 2, Len(body), a, 2)
  BY <1>9, <1>a, <1>b DEF FrameStage, a
<1> QED BY <1>10, <1>11, <1>12, <1>13, <1>14

-------------------------------------------------------------------------------
(***************************************************************************)
(* One direction of a connection: h and g are the versions of the end that  *)
(* sends and of the one that reads, bodies what the first one sends and n   *)
(* how many of them it has begun to write; the other one has published rc   *)
(* and its parser is p; str are the bytes in between.                       *)
(***************************************************************************)
Handed(h, g, bodies, n, rc) ==
  /\ n \in 0..Len(bodies) /\ rc \in Seq(Seq(Byte)) /\ Len(rc) <= n
  /\ IF g = h THEN \A i \in 1..Len(rc) : rc[i] = bodies[i] ELSE rc = <<>>

InHeader(p, g) ==
  /\ p.buffer \in Seq(Byte) /\ Len(p.buffer) < Len(g) /\ Piece(p.buffer, g, 0)
  /\ At(p, "HeaderStart", p.buffer, Len(p.buffer), 0, <<>>, 0)

Decoding(h, g, bodies, n, rc, p) ==
  IF g # h THEN InHeader(p, g) /\ Piece(p.buffer, Flow(h, bodies)[n], 0)
  ELSE IF Len(rc) < n THEN InFrame(p, h, bodies[Len(rc) + 1])
  ELSE p = NewParser

(* Behind the first k bytes come those of str, and out is left to write:    *)
(* all the rest, as long as the end that sends has not ended (how).         *)
Coming(all, k, str, out, how) ==
  /\ Piece(str, all, k) /\ Piece(out, all, k + Len(str))
  /\ how = "none" => k + Len(str) + Len(out) = Len(all)

OnTheWay(h, bodies, n, rc, p, str, out, how) ==
  Coming(Flow(h, bodies)[n], Len(Flow(h, bodies)[Len(rc)]) + Len(p.buffer), str, out, how)

LEMMA ComingMoves ==
  ASSUME NEW all \in Seq(Byte), NEW k \in Nat, NEW str \in Seq(Byte), NEW out \in Seq(Byte),
         NEW how, Coming(all, k, str, out, how)
  PROVE  /\ str # <<>> => /\ Tail(str) \in Seq(Byte) /\ Len(str) > 0
                          /\ Len(Tail(str)) = Len(str) - 1
                          /\ Head(str) \in Byte /\ Head(str) = all[k + 1] /\ k < Len(all)
                          /\ Coming(all, k + 1, Tail(str), out, how)
         /\ out # <<>> => /\ Tail(out) \in Seq(Byte) /\ Append(str, Head(out)) \in Seq(Byte)
                          /\ Len(Append(str, Head(out))) = Len(str) + 1
                          /\ k + Len(str) < Len(all)
                          /\ Coming(all, k, Append(str, Head(out)), Tail(out), how)
<1>1. /\ Piece(str, all, k) /\ Piece(out, all, k + Len(str)) /\ Len(str) \in Nat /\ Len(out) \in Nat
      /\ Len(all) \in Nat /\ k + Len(str) <= Len(all) /\ k + Len(str) + Len(out) <= Len(all)
      /\ (how = "none" => k + Len(str) + Len(out) = Len(all))
  BY DEF Coming, Piece
<1>2. ASSUME str # <<>>
      PROVE  /\ Tail(str) \in Seq(Byte) /\ Len(str) > 0 /\ Len(Tail(str)) = Len(str) - 1
             /\ Head(str) \in Byte /\ Head(str) = all[k + 1] /\ k < Len(all)
             /\ Coming(all, k + 1, Tail(str), out, how)
  <2>a. PICK y : y = Tail(str)
    OBVIOUS
  <2>1. /\ y \in Seq(Byte) /\ Len(y) = Len(str) - 1 /\ Len(str) \in Nat \ {0}
        /\ Head(str) \in Byte /\ Head(str) = all[k + 1] /\ Piece(y, all, k + 1)
    BY <1>1, <1>2, <2>a, PieceTail
  <2>2. k + 1 + Len(y) = k + Len(str)
    BY <2>1
  <2>3. Coming(all, k + 1, y, out, how)
    BY <1>1, <2>1, <2>2 DEF Coming
  <2> QED BY <1>1, <2>1, <2>3, <2>a
<1>3. ASSUME out # <<>>
      PROVE  /\ Tail(out) \in Seq(Byte) /\ Append(str, Head(out)) \in Seq(Byte)
             /\ Len(Append(str, Head(out))) = Len(str) + 1 /\ k + Len(str) < Len(all)
             /\ Coming(all, k, Append(str, Head(out)), Tail(out), how)
  <2>a. PICK y, e : y = Tail(out) /\ e = Head(out)
    OBVIOUS
  <2>b. PICK x : x = Append(str, e)
    OBVIOUS
  <2>c. PICK j \in Nat : j = k + Len(str)
    BY <1>1
  <2>1. /\ y \in Seq(Byte) /\ Len(y) = Len(out) - 1 /\ Len(out) \in Nat \ {0}
        /\ e \in Byte /\ e = all[j + 1] /\ Piece(y, all, j + 1)
    BY <1>1, <1>3, <2>a, <2>c, PieceTail
  <2>2. k + Len(str) < Len(all)
    BY <1>1, <2>1
  <2>3. e = all[k + Len(str) + 1]
    BY <2>1, <2>c
  <2>4. x \in Seq(Byte) /\ Len(x) = Len(str) + 1 /\ Piece(x, all, k)
    BY <1>1, <2>2, <2>3, <2>b, PieceAppend
  <2>5. k + Len(x) = j + 1 /\ k + Len(x) + Len(y) = k + Len(str) + Len(out)
    BY <1>1, <2>1, <2>4, <2>c
  <2>6. Piece(y, all, k + Len(x))
    BY <2>1, <2>5
  <2>7. Coming(all, k, x, y, how)
    BY <1>1, <2>4, <2>5, <2>6 DEF Coming
  <2> QED BY <2>1, <2>2, <2>4, <2>7, <2>a, <2>b
<1> QED BY <1>2, <1>3

(* What is cut off stays cut off.                                           *)
LEMMA ComingCut ==
  ASSUME NEW all \in Seq(Byte), NEW k \in Nat, NEW str \in Seq(Byte), NEW out, NEW how,
         Coming(all, k, str, out, how), NEW rest \in Prefixes(str), NEW end1, end1 # "none"
  PROVE  rest \in Seq(Byte) /\ Len(rest) <= Len(str) /\ Coming(all, k, rest, <<>>, end1)
<1>1. rest \in Seq(Byte) /\ Len(rest) <= Len(str) /\ Piece(rest, all, k)
  BY PiecePrefix DEF Coming
<1>2. Len(rest) \in Nat /\ Len(all) \in Nat /\ Len(<<>>) = 0
  BY <1>1
<1>3. Piece(<<>>, all, k + Len(rest))
  BY <1>1, <1>2 DEF Piece
<1> QED BY <1>1, <1>3 DEF Coming

LEMMA PrefixOfItself ==
  ASSUME NEW s \in Seq(Byte)
  PROVE  s \in Prefixes(s) /\ <<>> \in Prefixes(s)
<1>1. Len(s) \in 0..Len(s) /\ 0 \in 0..Len(s)
  OBVIOUS
<1>2. SubSeq(s, 1, Len(s)) = s /\ SubSeq(s, 1, 0) = <<>>
  OBVIOUS
<1> QED BY <1>1, <1>2 DEF Prefixes

IsNext(j, m) == m \in Nat /\ j \in Nat /\ j = m + 1

(* The next frame in the flow.                                              *)
LEMMA NextFrame ==
  ASSUME NEW h \in Seq(Byte), NEW bodies \in Seq(Seq(Byte)),
         NEW n \in 1..Len(bodies), NEW m \in 0..(n - 1), NEW j, IsNext(j, m)
  PROVE  LET f == Flow(h, bodies)
             t == Frame(h, bodies[j])
         IN  /\ f[m] \in Seq(Byte) /\ f[j] \in Seq(Byte) /\ f[n] \in Seq(Byte)
             /\ t \in Seq(Byte) /\ Len(f[j]) = Len(f[m]) + Len(t)
             /\ Len(f[m]) \in Nat /\ Len(t) \in Nat
             /\ Len(f[j]) <= Len(f[n]) /\ Piece(t, f[n], Len(f[m]))
<1>a. PICK f, t : f = Flow(h, bodies) /\ t = Frame(h, bodies[j])
  OBVIOUS
<1>1. j \in 1..Len(bodies) /\ j - 1 = m /\ n \in 0..Len(bodies) /\ j \in 0..n
  BY DEF IsNext
<1>2. bodies[j] \in Seq(Byte)
  BY <1>1
<1>3. t \in Seq(Byte)
  BY <1>2, <1>a, FrameIs
<1>4. /\ f[j] \in Seq(Byte) /\ f[m] \in Seq(Byte) /\ Len(f[j]) = Len(f[m]) + Len(t)
      /\ Len(f[m]) \in Nat /\ Piece(t, f[j], Len(f[m]))
  <2>1. /\ f[j] \in Seq(Byte) /\ f[j - 1] \in Seq(Byte) /\ Len(f[j]) = Len(f[j - 1]) + Len(t)
        /\ Len(f[j - 1]) \in Nat /\ Piece(t, f[j], Len(f[j - 1]))
    BY <1>1, <1>a, FlowStep
  <2> QED BY <1>1, <2>1
<1>5. f[n] \in Seq(Byte) /\ Piece(f[j], f[n], 0)
  BY <1>1, <1>a, FlowGrows
<1>6. Len(f[j]) <= Len(f[n])
  <2>1. 0 + Len(f[j]) <= Len(f[n]) /\ Len(f[j]) \in Nat
    BY <1>4, <1>5 DEF Piece
  <2> QED BY <2>1
<1>7. Piece(t, f[n], Len(f[m]))
  BY <1>3, <1>4, <1>5, PieceGrows
<1>8. Len(t) \in Nat
  BY <1>3
<1> QED BY <1>3, <1>4, <1>5, <1>6, <1>7, <1>8, <1>a, Zenon

LEMMA ContentIs ==
  ASSUME NEW bodies \in Seq(Content)
  PROVE  bodies \in Seq(Seq(Byte)) /\ \A i \in 1..Len(bodies) : bodies[i] \in Content
<1>1. Content \subseteq Seq(Byte)
  BY DEF Content
<1>2. \A i \in 1..Len(bodies) : bodies[i] \in Content
  BY SMT
<1> HIDE DEF Content
<1> QED BY <1>1, <1>2, SeqMonotonic

(* A packet is taken from the bus: its frame joins the flow.                *)
LEMMA FrameJoins ==
  ASSUME NEW h \in Seq(Byte), h # <<>>, NEW g, NEW bodies \in Seq(Content),
         NEW n \in Nat, n < Len(bodies), NEW j, IsNext(j, n),
         NEW rc, Handed(h, g, bodies, n, rc), NEW p, p.buffer \in Seq(Byte), NEW str \in Seq(Byte),
         Decoding(h, g, bodies, n, rc, p), OnTheWay(h, bodies, n, rc, p, str, <<>>, "none")
  PROVE  /\ Decoding(h, g, bodies, j, rc, p)
         /\ OnTheWay(h, bodies, j, rc, p, str, Frame(h, bodies[j]), "none")
<1>a. PICK f, t : f = Flow(h, bodies) /\ t = Frame(h, bodies[j])
  OBVIOUS
<1>b. PICK m : m = Len(rc)
  OBVIOUS
<1>d. PICK c, l : c = Len(f[m]) /\ l = Len(p.buffer)
  OBVIOUS
<1>c. PICK k : k = c + l
  OBVIOUS
<1>1. bodies \in Seq(Seq(Byte)) /\ j \in 1..Len(bodies) /\ n \in 0..(j - 1) /\ bodies[j] \in Seq(Byte)
  <2>1. bodies \in Seq(Seq(Byte))
    BY ContentIs
  <2>2. j \in 1..Len(bodies) /\ n \in 0..(j - 1)
    BY DEF IsNext
  <2> QED BY <2>1, <2>2
<1>2. /\ f[n] \in Seq(Byte) /\ f[j] \in Seq(Byte) /\ t \in Seq(Byte)
      /\ Len(f[j]) = Len(f[n]) + Len(t) /\ Piece(t, f[j], Len(f[n]))
  <2>1. LET F == Flow(h, bodies)
            T == Frame(h, bodies[j])
        IN  /\ F[n] \in Seq(Byte) /\ F[j] \in Seq(Byte) /\ F[j] \in Seq(Byte)
            /\ T \in Seq(Byte) /\ Len(F[j]) = Len(F[n]) + Len(T)
            /\ Len(F[n]) \in Nat /\ Len(T) \in Nat
            /\ Len(F[j]) <= Len(F[j]) /\ Piece(T, F[j], Len(F[n]))
    BY <1>1, NextFrame, Zenon
  <2> QED BY <1>a, <2>1
<1>3. m \in 0..n /\ n \in 0..Len(bodies)
  BY <1>b DEF Handed
<1>4. f[m] \in Seq(Byte) /\ Piece(f[n], f[j], 0)
  <2>1. j \in 0..Len(bodies) /\ n \in 0..j
    BY <1>1
  <2> QED BY <1>1, <1>3, <1>a, <2>1, FlowGrows
<1>5. Coming(f[n], k, str, <<>>, "none")
  BY <1>a, <1>b, <1>c, <1>d DEF OnTheWay
<1>6. k \in Nat /\ Piece(str, f[n], k) /\ k + Len(str) = Len(f[n]) /\ Len(str) \in Nat
  <2>1. c \in Nat /\ l \in Nat /\ Len(str) \in Nat
    BY <1>4, <1>d
  <2>2. k \in Nat
    BY <1>c, <2>1
  <2> QED BY <1>5, <2>1, <2>2 DEF Coming
<1>7. Decoding(h, g, bodies, j, rc, p)
  <2>1. CASE g # h
    <3>1. InHeader(p, g) /\ Piece(p.buffer, f[n], 0)
      BY <2>1, <1>a DEF Decoding
    <3>2. Piece(p.buffer, f[j], 0)
      BY <3>1, <1>2, <1>4, PieceGrows
    <3> QED BY <2>1, <3>1, <3>2, <1>a DEF Decoding
  <2>2. CASE g = h /\ m < n
    <3>1. m < j
      BY <2>2, <1>3 DEF IsNext
    <3> QED BY <2>2, <3>1, <1>b DEF Decoding
  <2>3. CASE g = h /\ ~ (m < n)
    <3>1. m = n /\ m + 1 = j /\ m < j
      BY <2>3, <1>3 DEF IsNext
    <3>2. p = NewParser
      BY <2>3, <1>b DEF Decoding
    <3>3. InFrame(p, h, bodies[j])
      BY <1>1, <3>2, NewInFrame
    <3> QED BY <2>3, <3>1, <3>3, <1>b DEF Decoding
  <2> QED BY <2>1, <2>2, <2>3
<1>8. Coming(f[j], k, str, t, "none")
  <2>1. Piece(str, f[j], k)
    BY <1>2, <1>4, <1>6, PieceGrows
  <2>2. Piece(t, f[j], k + Len(str)) /\ k + Len(str) + Len(t) = Len(f[j])
    BY <1>2, <1>6
  <2> QED BY <2>1, <2>2 DEF Coming
<1> QED BY <1>7, <1>8, <1>a, <1>b, <1>c, <1>d DEF OnTheWay

FrameByteDone(h, bodies, n, rc, str, out, how, q, j) ==
  \/ /\ q.out = "None" /\ q \in Parser
     /\ Decoding(h, h, bodies, n, rc, q) /\ OnTheWay(h, bodies, n, rc, q, Tail(str), out, how)
  \/ /\ q.out = "Some" /\ q.body = bodies[j]
     /\ Handed(h, h, bodies, n, Append(rc, bodies[j]))
     /\ Decoding(h, h, bodies, n, Append(rc, bodies[j]), NewParser)
     /\ OnTheWay(h, bodies, n, Append(rc, bodies[j]), NewParser, Tail(str), out, how)
     /\ out # <<>> => j < n

(* Two ends of the same version: the reader decodes the next frame, and     *)
(* when that was its last byte it holds what was sent.                      *)
LEMMA FrameByteRead ==
  ASSUME NEW h \in Seq(Byte), h # <<>>, NEW bodies \in Seq(Content), NEW n,
         NEW rc, Handed(h, h, bodies, n, rc), NEW p, p.buffer \in Seq(Byte),
         NEW str \in Seq(Byte), str # <<>>, NEW out \in Seq(Byte), NEW how,
         Decoding(h, h, bodies, n, rc, p), OnTheWay(h, bodies, n, rc, p, str, out, how),
         NEW q, HasRead(q, p, h, Head(str)),
         NEW j, IsNext(j, Len(rc))
  PROVE  j <= n /\ FrameByteDone(h, bodies, n, rc, str, out, how, q, j)
<1>a. PICK f, t : f = Flow(h, bodies) /\ t = Frame(h, bodies[j])
  OBVIOUS
<1>b. PICK m : m = Len(rc)
  OBVIOUS
<1>c. PICK l : l = Len(p.buffer)
  OBVIOUS
<1>g. PICK c : c = Len(f[m])
  OBVIOUS
<1>d. PICK k : k = c + l
  OBVIOUS
<1>e. PICK b, rest : b = Head(str) /\ rest = Tail(str)
  OBVIOUS
<1>f. PICK rc1 : rc1 = Append(rc, bodies[j])
  OBVIOUS
<1>1. /\ bodies \in Seq(Seq(Byte)) /\ \A i \in 1..Len(bodies) : bodies[i] \in Content
      /\ n \in 0..Len(bodies) /\ m \in 0..n /\ l \in Nat /\ IsNext(j, m)
      /\ rc \in Seq(Seq(Byte)) /\ \A i \in 1..m : rc[i] = bodies[i]
  <2>1. bodies \in Seq(Seq(Byte)) /\ \A i \in 1..Len(bodies) : bodies[i] \in Content
    BY ContentIs
  <2> QED BY <2>1, <1>b, <1>c DEF Handed
<1>2. f[m] \in Seq(Byte) /\ f[n] \in Seq(Byte) /\ k \in Nat /\ c \in Nat
  <2>1. f[m] \in Seq(Byte) /\ f[n] \in Seq(Byte)
    BY <1>1, <1>a, FlowGrows
  <2>2. c \in Nat
    BY <1>g, <2>1
  <2> QED BY <1>1, <1>d, <2>1, <2>2
<1>3. Coming(f[n], k, str, out, how)
  BY <1>a, <1>b, <1>c, <1>d, <1>g DEF OnTheWay
<1>4. /\ rest \in Seq(Byte) /\ b \in Byte /\ b = f[n][k + 1] /\ k < Len(f[n])
      /\ Coming(f[n], k + 1, rest, out, how)
  BY <1>2, <1>3, <1>e, ComingMoves
<1>5. m < n
  <2> SUFFICES ASSUME ~ (m < n) PROVE FALSE
    OBVIOUS
  <2>1. m = n /\ p = NewParser
    BY <1>1, <1>b DEF Decoding
  <2>2. l = 0
    BY <2>1, <1>c DEF NewParser
  <2>3. k = Len(f[n])
    BY <1>2, <1>d, <1>g, <2>1, <2>2
  <2> QED BY <1>2, <1>4, <2>3
<1>6. j <= n /\ j \in 1..Len(bodies) /\ n \in 1..Len(bodies) /\ m \in 0..(n - 1)
  BY <1>1, <1>5 DEF IsNext
<1>h. j \in Nat /\ j = m + 1
  BY <1>1 DEF IsNext
<1>7. /\ t \in Seq(Byte) /\ f[j] \in Seq(Byte) /\ Len(f[j]) = c + Len(t)
      /\ Len(t) \in Nat /\ Len(f[j]) <= Len(f[n]) /\ Piece(t, f[n], c)
  <2>1. LET F == Flow(h, bodies)
            T == Frame(h, bodies[j])
        IN  /\ F[m] \in Seq(Byte) /\ F[j] \in Seq(Byte) /\ F[n] \in Seq(Byte)
            /\ T \in Seq(Byte) /\ Len(F[j]) = Len(F[m]) + Len(T)
            /\ Len(F[m]) \in Nat /\ Len(T) \in Nat
            /\ Len(F[j]) <= Len(F[n]) /\ Piece(T, F[n], Len(F[m]))
    BY <1>1, <1>6, NextFrame, Zenon
  <2> QED BY <1>a, <1>g, <2>1
<1>8. InFrame(p, h, bodies[j]) /\ l < Len(t)
  <2>1. InFrame(p, h, bodies[j])
    BY <1>1, <1>5, <1>h, <1>b DEF Decoding
  <2> QED BY <2>1, <1>a, <1>c DEF InFrame
<1>9. b = t[l + 1]
  <2>1. l + 1 \in 1..Len(t)
    BY <1>1, <1>7, <1>8
  <2>3. c + (l + 1) = k + 1
    BY <1>1, <1>2, <1>d
  <2>2. t[l + 1] = f[n][c + (l + 1)]
    BY <1>7, <2>1 DEF Piece
  <2> QED BY <1>4, <2>2, <2>3
<1>10. IF l + 1 < Len(t)
         THEN InFrame(q, h, bodies[j]) /\ q.out = "None" /\ q.buffer = Append(p.buffer, b)
         ELSE q.out = "Some" /\ q.body = bodies[j]
  <2>1. bodies[j] \in Content /\ HasRead(q, p, h, b)
    BY <1>1, <1>6, <1>e
  <2>2. Follows(b, p.buffer, Frame(h, bodies[j]))
    BY <1>9, <1>a, <1>c DEF Follows
  <2>3. IF Len(p.buffer) + 1 < Len(Frame(h, bodies[j]))
          THEN InFrame(q, h, bodies[j]) /\ q.out = "None" /\ q.buffer = Append(p.buffer, b)
          ELSE q.out = "Some" /\ q.body = bodies[j]
    <3>1. PICK body : body = bodies[j]
      OBVIOUS
    <3>2. body \in Content /\ InFrame(p, h, body) /\ Follows(b, p.buffer, Frame(h, body))
      BY <1>8, <2>1, <2>2, <3>1
    <3>3. /\ Len(p.buffer) + 1 < Len(Frame(h, body)) =>
               InFrame(q, h, body) /\ q.out = "None" /\ q.buffer = Append(p.buffer, b)
          /\ ~ (Len(p.buffer) + 1 < Len(Frame(h, body))) => q.out = "Some" /\ q.body = body
      BY <2>1, <3>2, FrameByte, Zenon
    <3> QED BY <3>1, <3>3
  <2> QED BY <1>a, <1>c, <2>3
<1>11. CASE l + 1 < Len(t)
  <2>1. InFrame(q, h, bodies[j]) /\ q.out = "None" /\ q.buffer = Append(p.buffer, b)
    BY <1>10, <1>11
  <2>2. Len(q.buffer) = l + 1
    BY <1>4, <1>c, <2>1, AppendIs
  <2>3. q \in Parser
    BY <2>1 DEF InFrame, FrameStage, At
  <2>4. Decoding(h, h, bodies, n, rc, q)
    BY <1>1, <1>5, <1>h, <1>b, <2>1 DEF Decoding
  <2>7. k + 1 = c + Len(q.buffer)
    BY <1>1, <1>2, <1>d, <2>2
  <2>5. k + 1 = Len(f[m]) + Len(q.buffer)
    BY <2>7, <1>g
  <2>6. OnTheWay(h, bodies, n, rc, q, rest, out, how)
    BY <1>4, <1>a, <1>b, <2>5 DEF OnTheWay
  <2> QED BY <1>6, <1>e, <2>1, <2>3, <2>4, <2>6 DEF FrameByteDone
<1>12. CASE ~ (l + 1 < Len(t))
  <2>1. q.out = "Some" /\ q.body = bodies[j]
    BY <1>10, <1>12
  <2>2. k + 1 = Len(f[j])
    <3>1. l + 1 = Len(t)
      BY <1>1, <1>7, <1>8, <1>12
    <3>2. l \in Nat /\ c \in Nat
      BY <1>1, <1>2
    <3>3. k + 1 = c + (l + 1)
      BY <1>d, <3>2
    <3> QED BY <1>7, <3>1, <3>3
  <2>3. /\ rc1 \in Seq(Seq(Byte)) /\ Len(rc1) = j /\ rc1[j] = bodies[j]
        /\ \A i \in 1..m : rc1[i] = bodies[i]
    <3>1. bodies[j] \in Seq(Byte)
      BY <1>1, <1>6
    <3>2. /\ rc1 \in Seq(Seq(Byte)) /\ Len(rc1) = Len(rc) + 1 /\ rc1[Len(rc) + 1] = bodies[j]
          /\ \A i \in 1..Len(rc) : rc1[i] = rc[i]
      BY <1>1, <1>f, <3>1, AppendIs
    <3> QED BY <1>1, <1>h, <1>b, <3>2
  <2>4. Handed(h, h, bodies, n, rc1)
    <3>1. \A i \in 1..j : i = j \/ i \in 1..m
      BY <1>1, <1>h
    <3> QED BY <1>1, <1>6, <2>3, <3>1 DEF Handed
  <2>5. Decoding(h, h, bodies, n, rc1, NewParser)
    <3>1. ASSUME j < n PROVE InFrame(NewParser, h, bodies[Len(rc1) + 1])
      <4>1. Len(rc1) + 1 \in 1..Len(bodies)
        BY <1>1, <1>6, <2>3, <3>1
      <4>2. bodies[Len(rc1) + 1] \in Seq(Byte)
        BY <1>1, <4>1
      <4> QED BY <4>2, NewInFrame
    <3> QED BY <2>3, <3>1 DEF Decoding
  <2>6. OnTheWay(h, bodies, n, rc1, NewParser, rest, out, how)
    <3>1. NewParser.buffer = <<>> /\ Len(<<>>) = 0
      BY DEF NewParser
    <3>2. k + 1 = Len(f[Len(rc1)]) + Len(NewParser.buffer)
      BY <1>2, <2>2, <2>3, <3>1
    <3> QED BY <1>4, <1>a, <3>2 DEF OnTheWay
  <2>7. ASSUME out # <<>> PROVE j < n
    <3>1. Len(out) \in Nat /\ Len(out) > 0 /\ Len(rest) \in Nat
      BY <1>4, <2>7
    <3>2. k + 1 + Len(rest) + Len(out) <= Len(f[n])
      BY <1>4 DEF Coming, Piece
    <3>3. ~ (j = n)
      BY <1>2, <2>2, <3>1, <3>2
    <3> QED BY <1>1, <1>6, <3>3
  <2> QED BY <1>6, <1>e, <1>f, <2>1, <2>4, <2>5, <2>6, <2>7 DEF FrameByteDone
<1> QED BY <1>11, <1>12

(* Two ends of different versions: the reader is inside its header, or it   *)
(* has come to the byte where the versions part.                            *)
LEMMA StartOfBoth ==
  ASSUME NEW g \in Seq(Byte), NEW h \in Seq(Byte), NEW all \in Seq(Byte),
         Piece(g, all, 0), Piece(h, all, 0)
  PROVE  IsPrefix(g, h) \/ IsPrefix(h, g)
<1>1. ASSUME NEW x \in Seq(Byte), NEW y \in Seq(Byte), Len(x) <= Len(y),
             Piece(x, all, 0), Piece(y, all, 0)
      PROVE  IsPrefix(x, y)
  <2>1. Len(x) \in Nat /\ Len(y) \in Nat
    OBVIOUS
  <2>2. \A i \in 1..Len(x) : i \in 1..Len(y) /\ x[i] = all[0 + i] /\ y[i] = all[0 + i]
    BY <1>1, <2>1 DEF Piece
  <2>3. PICK u, v : u = SubSeq(x, 1, Len(x)) /\ v = SubSeq(y, 1, Len(x))
    OBVIOUS
  <2>4. u \in Seq(Byte) /\ Len(u) = Len(x) /\ \A i \in 1..Len(x) : u[i] = x[i]
    BY <2>1, <2>3
  <2>5. v \in Seq(Byte) /\ Len(v) = Len(x) /\ \A i \in 1..Len(x) : v[i] = y[i]
    BY <1>1, <2>1, <2>3
  <2>6. u = v
    BY <2>2, <2>4, <2>5, SameSeq
  <2> QED BY <1>1, <2>3, <2>6 DEF IsPrefix
<1>2. Len(g) <= Len(h) \/ Len(h) <= Len(g)
  <2>1. Len(g) \in Nat /\ Len(h) \in Nat
    OBVIOUS
  <2> QED BY <2>1
<1> QED BY <1>1, <1>2

LEMMA StartOfFlow ==
  ASSUME NEW h \in Seq(Byte), NEW bodies \in Seq(Seq(Byte)), NEW n \in 0..Len(bodies)
  PROVE  /\ Flow(h, bodies)[0] = <<>> /\ Flow(h, bodies)[n] \in Seq(Byte)
         /\ n > 0 => Piece(h, Flow(h, bodies)[n], 0)
<1>a. PICK f : f = Flow(h, bodies)
  OBVIOUS
<1>1. f[0] = <<>> /\ f[n] \in Seq(Byte)
  BY <1>a, FlowIs DEF IsFlow
<1>2. ASSUME n > 0 PROVE Piece(h, f[n], 0)
  <2>a. PICK t : t = Frame(h, bodies[1])
    OBVIOUS
  <2>1. n \in 1..Len(bodies) /\ 0 \in 0..(n - 1) /\ IsNext(1, 0)
    BY <1>2 DEF IsNext
  <2>2. LET F == Flow(h, bodies)
            T == Frame(h, bodies[1])
        IN  /\ F[0] \in Seq(Byte) /\ F[1] \in Seq(Byte) /\ F[n] \in Seq(Byte)
            /\ T \in Seq(Byte) /\ Len(F[1]) = Len(F[0]) + Len(T)
            /\ Len(F[0]) \in Nat /\ Len(T) \in Nat
            /\ Len(F[1]) <= Len(F[n]) /\ Piece(T, F[n], Len(F[0]))
    BY <2>1, NextFrame, Zenon
  <2>3. t \in Seq(Byte) /\ f[n] \in Seq(Byte) /\ Piece(t, f[n], 0)
    <3>1. Len(<<>>) = 0
      OBVIOUS
    <3> QED BY <1>1, <1>a, <2>2, <2>a, <3>1
  <2>4. Piece(h, t, 0)
    <3>1. 1 \in 1..Len(bodies) /\ bodies[1] \in Seq(Byte)
      BY <2>1
    <3>2. LET T == Frame(h, bodies[1])
              l == LengthEnd(h, bodies[1])
          IN  /\ Len(T) = l + 2 + Len(bodies[1]) /\ l \in Nat /\ Len(h) < l
              /\ \A i \in 1..Len(h) : T[i] = h[i]
      BY <3>1, FrameIs
    <3>3. PICK l \in Nat : Len(t) = l + 2 + Len(bodies[1]) /\ Len(h) < l
      BY <3>2, <2>a
    <3>4. Len(h) \in Nat /\ Len(bodies[1]) \in Nat
      BY <3>1
    <3>5. 0 + Len(h) <= Len(t)
      <4>1. PICK c \in Nat : c = Len(bodies[1])
        BY <3>4
      <4>2. Len(t) = l + 2 + c /\ Len(h) < l /\ Len(h) \in Nat
        BY <3>3, <3>4, <4>1
      <4> QED BY <4>2
    <3>6. \A i \in 1..Len(h) : h[i] = t[i] /\ 0 + i = i
      BY <2>a, <3>2, <3>4
    <3> QED BY <3>5, <3>6 DEF Piece
  <2> QED BY <2>3, <2>4, PieceGrows
<1> QED BY <1>1, <1>2, <1>a

LEMMA HeaderByteRead ==
  ASSUME NEW h \in Seq(Byte), NEW g \in Seq(Byte), g # h, ~IsPrefix(g, h), ~IsPrefix(h, g),
         NEW bodies \in Seq(Content), NEW n, NEW rc, Handed(h, g, bodies, n, rc), NEW p,
         NEW str \in Seq(Byte), str # <<>>, NEW out \in Seq(Byte), NEW how,
         Decoding(h, g, bodies, n, rc, p), OnTheWay(h, bodies, n, rc, p, str, out, how),
         NEW q, HasRead(q, p, g, Head(str))
  PROVE  \/ /\ q.out = "None" /\ q \in Parser
            /\ Decoding(h, g, bodies, n, rc, q) /\ OnTheWay(h, bodies, n, rc, q, Tail(str), out, how)
         \/ q.out = "Err"
<1>a. PICK f, all : f = Flow(h, bodies) /\ all = f[n]
  OBVIOUS
<1>b. PICK k : k = Len(p.buffer)
  OBVIOUS
<1>c. PICK b, rest : b = Head(str) /\ rest = Tail(str)
  OBVIOUS
<1>d. PICK buf : buf = Append(p.buffer, b)
  OBVIOUS
<1>e. PICK p0 : p0 = AddToBuffer(p, <<b>>)
  OBVIOUS
<1>1. bodies \in Seq(Seq(Byte)) /\ n \in 0..Len(bodies) /\ rc = <<>>
  BY ContentIs DEF Handed
<1>2. f[0] = <<>> /\ all \in Seq(Byte) /\ (n > 0 => Piece(h, all, 0))
  BY <1>1, <1>a, StartOfFlow
<1>3. /\ p.buffer \in Seq(Byte) /\ k \in Nat /\ k < Len(g) /\ Piece(p.buffer, g, 0)
      /\ At(p, "HeaderStart", p.buffer, k, 0, <<>>, 0) /\ Piece(p.buffer, all, 0)
  <2>1. InHeader(p, g) /\ Piece(p.buffer, all, 0)
    BY <1>a DEF Decoding
  <2> QED BY <1>b, <2>1 DEF InHeader
<1>4. Len(f[Len(rc)]) = 0 /\ Len(f[Len(rc)]) + Len(p.buffer) = k
  <2>1. Len(rc) = 0
    BY <1>1
  <2>2. Len(f[Len(rc)]) = 0
    BY <1>2, <2>1
  <2> QED BY <1>b, <1>3, <2>2
<1>5. Coming(all, k, str, out, how)
  BY <1>4, <1>a DEF OnTheWay
<1>6. /\ rest \in Seq(Byte) /\ b \in Byte /\ b = all[k + 1] /\ k < Len(all)
      /\ Coming(all, k + 1, rest, out, how)
  BY <1>2, <1>3, <1>5, <1>c, ComingMoves
<1>7. Piece(h, all, 0)
  <2>1. n # 0
    BY <1>2, <1>3, <1>6, <1>a
  <2> QED BY <1>1, <1>2, <2>1
<1>8. /\ buf \in Seq(Byte) /\ Len(buf) = k + 1 /\ buf[k + 1] = b
      /\ \A i \in 1..k : buf[i] = p.buffer[i]
  <2>1. /\ buf \in Seq(Byte) /\ Len(buf) = Len(p.buffer) + 1 /\ buf[Len(p.buffer) + 1] = b
        /\ \A i \in 1..Len(p.buffer) : buf[i] = p.buffer[i]
    BY <1>3, <1>6, <1>d, AppendIs
  <2> QED BY <1>b, <2>1
<1>9. \A i \in 1..k : buf[i] = g[i] /\ buf[i] = all[i]
  <2>1. \A i \in 1..Len(p.buffer) : p.buffer[i] = g[0 + i] /\ p.buffer[i] = all[0 + i]
    BY <1>3 DEF Piece
  <2> QED BY <1>3, <1>8, <1>b, <2>1
<1>10. Piece(buf, all, 0)
  <2>1. \A i \in 1..(k + 1) : i = k + 1 \/ i \in 1..k
    BY <1>3
  <2>2. \A i \in 1..(k + 1) : buf[i] = all[0 + i]
    BY <1>3, <1>6, <1>8, <1>9, <2>1
  <2>3. 0 + Len(buf) <= Len(all)
    BY <1>2, <1>3, <1>6, <1>8
  <2> QED BY <1>8, <2>2, <2>3 DEF Piece
<1>11. At(p0, "HeaderStart", buf, k, 0, <<>>, 0) /\ p0.state = "HeaderStart"
  <2>1. At(p0, "HeaderStart", buf, k, 0, <<>>, 0)
    BY <1>3, <1>6, <1>d, <1>e, Added
  <2> QED BY <2>1 DEF At
<1>12. PICK q1 : q1 = ParseHeaderStart(g, p0)
  OBVIOUS
<1>13. IF b = g[k + 1]
         THEN At(q1, IF k + 1 = Len(g) THEN "ContentLength" ELSE "HeaderStart",
                 buf, k + 1, 0, <<>>, 0)
         ELSE q1.out = "Err" /\ q1.state = "HeaderStart"
  <2>1. /\ buf \in Seq(Byte) /\ k \in Nat /\ Len(buf) = k + 1 /\ k < Len(g)
        /\ \A i \in 1..k : buf[i] = g[i]
    BY <1>3, <1>8, <1>9
  <2> DEFINE Q == ParseHeaderStart(g, p0)
  <2>2. CASE b = g[k + 1]
    <3>1. buf[k + 1] = g[k + 1]
      BY <1>8, <2>2
    <3>2. At(Q, IF k + 1 = Len(g) THEN "ContentLength" ELSE "HeaderStart", buf, k + 1, 0, <<>>, 0)
      BY <1>11, <2>1, <3>1, HeaderByte
    <3> QED BY <1>12, <2>2, <3>2
  <2>3. CASE b # g[k + 1]
    <3>1. buf[k + 1] # g[k + 1]
      BY <1>8, <2>3
    <3>2. HeaderFails(Q)
      BY <1>11, <2>1, <3>1, HeaderByte
    <3> HIDE DEF Q
    <3> QED BY <1>12, <2>3, <3>2 DEF Q, HeaderFails
  <2> QED BY <2>2, <2>3
<1>14. q = Parse(g, p0)
  BY <1>c, <1>e DEF HasRead
<1>15. CASE b # g[k + 1]
  <2>1. q1.out = "Err" /\ q1.state = "HeaderStart"
    BY <1>13, <1>15
  <2>2. q = q1
    BY <1>11, <1>12, <1>14, <2>1, ParseTurns
  <2> QED BY <2>1, <2>2
<1>16. CASE b = g[k + 1]
  <2>1. Piece(buf, g, 0)
    <3>1. \A i \in 1..(k + 1) : i = k + 1 \/ i \in 1..k
      BY <1>3
    <3>2. \A i \in 1..(k + 1) : buf[i] = g[0 + i]
      BY <1>3, <1>8, <1>9, <1>16, <3>1
    <3>3. 0 + Len(buf) <= Len(g)
      BY <1>3, <1>8
    <3> QED BY <1>8, <3>2, <3>3 DEF Piece
  <2>2. k + 1 # Len(g)
    <3> SUFFICES ASSUME k + 1 = Len(g) PROVE FALSE
      OBVIOUS
    <3>1. buf = g
      <4>1. \A i \in 1..Len(buf) : buf[i] = g[i]
        <5>1. \A i \in 1..Len(buf) : buf[i] = g[0 + i]
          BY <2>1 DEF Piece
        <5> QED BY <1>8, <5>1
      <4>2. Len(buf) = Len(g)
        BY <1>8
      <4> QED BY <1>8, <4>1, <4>2, SameSeq
    <3>2. Piece(g, all, 0)
      BY <1>10, <3>1
    <3> QED BY <1>2, <1>7, <3>2, StartOfBoth
  <2>3. At(q1, "HeaderStart", buf, k + 1, 0, <<>>, 0)
    BY <1>13, <1>16, <2>2
  <2>4. q1.state = "HeaderStart" /\ q1.out = "None" /\ q1 \in Parser /\ q1.buffer = buf
    BY <2>3 DEF At
  <2>5. q = q1
    BY <1>11, <1>12, <1>14, <2>4, ParseTurns
  <2>6. InHeader(q, g)
    <3>1. Len(buf) < Len(g)
      BY <1>3, <1>8, <2>2
    <3>2. At(q, "HeaderStart", q.buffer, Len(q.buffer), 0, <<>>, 0)
      BY <1>8, <2>3, <2>4, <2>5
    <3> QED BY <1>8, <2>1, <2>4, <2>5, <3>1, <3>2 DEF InHeader
  <2>7. Decoding(h, g, bodies, n, rc, q)
    BY <1>10, <1>a, <2>4, <2>5, <2>6 DEF Decoding
  <2>8. OnTheWay(h, bodies, n, rc, q, rest, out, how)
    <3>1. Len(f[Len(rc)]) + Len(q.buffer) = k + 1
      BY <1>3, <1>4, <1>8, <2>4, <2>5
    <3> QED BY <1>6, <1>a, <3>1 DEF OnTheWay
  <2> QED BY <1>c, <2>4, <2>5, <2>7, <2>8
<1> QED BY <1>15, <1>16

-------------------------------------------------------------------------------
(***************************************************************************)
(* All about one direction: its sender has ended in the way se, its reader  *)
(* in the way re, if they have ended.                                       *)
(***************************************************************************)
Direction(h, g, bodies, n, rc, p, str, out, se, re) ==
  /\ Handed(h, g, bodies, n, rc)
  /\ re = "none" => /\ p.buffer \in Seq(Byte)
                    /\ Decoding(h, g, bodies, n, rc, p)
                    /\ OnTheWay(h, bodies, n, rc, p, str, out, se)
  /\ out # <<>> => se = "none" /\ Len(rc) < n

LEMMA DecodingBuffer ==
  ASSUME NEW h, NEW g, NEW bodies, NEW n, NEW rc, NEW p, Decoding(h, g, bodies, n, rc, p)
  PROVE  p.buffer \in Seq(Byte)
<1>1. NewParser.buffer \in Seq(Byte)
  BY DEF NewParser
<1> QED BY <1>1 DEF Decoding, InHeader, InFrame

LEMMA FlowPoint ==
  ASSUME NEW h \in Seq(Byte), NEW g, NEW bodies \in Seq(Content), NEW n, NEW rc,
         Handed(h, g, bodies, n, rc), NEW p, p.buffer \in Seq(Byte)
  PROVE  /\ Flow(h, bodies)[n] \in Seq(Byte)
         /\ Len(Flow(h, bodies)[Len(rc)]) + Len(p.buffer) \in Nat
<1>a. PICK f, m : f = Flow(h, bodies) /\ m = Len(rc)
  OBVIOUS
<1>1. bodies \in Seq(Seq(Byte)) /\ n \in 0..Len(bodies) /\ m \in 0..n
  BY <1>a, ContentIs DEF Handed
<1>2. f[m] \in Seq(Byte) /\ f[n] \in Seq(Byte)
  BY <1>1, <1>a, FlowGrows
<1>3. Len(f[m]) + Len(p.buffer) \in Nat
  <2>1. PICK c \in Nat, l \in Nat : c = Len(f[m]) /\ l = Len(p.buffer)
    BY <1>2
  <2>2. c + l \in Nat
    OBVIOUS
  <2> QED BY <2>1, <2>2
<1> QED BY <1>2, <1>3, <1>a

(* The pairs of versions there are.                                         *)
Versions(h, g) ==
  /\ h \in Seq(Byte) /\ g \in Seq(Byte) /\ h # <<>>
  /\ g # h => ~IsPrefix(g, h) /\ ~IsPrefix(h, g)

LEMMA DirectionTakes ==
  ASSUME NEW h, NEW g, Versions(h, g), NEW bodies \in Seq(Content), NEW n, n < Len(bodies),
         NEW j, IsNext(j, n), NEW rc, NEW p, NEW str \in Seq(Byte), NEW re,
         Direction(h, g, bodies, n, rc, p, str, <<>>, "none", re)
  PROVE  /\ Frame(h, bodies[j]) \in Seq(Byte)
         /\ Direction(h, g, bodies, j, rc, p, str, Frame(h, bodies[j]), "none", re)
<1>1. n \in Nat /\ j \in Nat /\ j = n + 1 /\ Handed(h, g, bodies, n, rc) /\ h \in Seq(Byte) /\ h # <<>>
  BY DEF Direction, IsNext, Versions
<1>2. Handed(h, g, bodies, j, rc) /\ Len(rc) < j /\ j \in 1..Len(bodies)
  BY <1>1 DEF Handed
<1>3. Frame(h, bodies[j]) \in Seq(Byte)
  <2>1. bodies[j] \in Seq(Byte)
    BY <1>2, ContentIs
  <2> QED BY <1>1, <2>1, FrameIs
<1>4. ASSUME re = "none"
      PROVE  /\ p.buffer \in Seq(Byte) /\ Decoding(h, g, bodies, j, rc, p)
             /\ OnTheWay(h, bodies, j, rc, p, str, Frame(h, bodies[j]), "none")
  <2>1. /\ p.buffer \in Seq(Byte) /\ Decoding(h, g, bodies, n, rc, p)
        /\ OnTheWay(h, bodies, n, rc, p, str, <<>>, "none")
    BY <1>4 DEF Direction
  <2>2. /\ Decoding(h, g, bodies, j, rc, p)
        /\ OnTheWay(h, bodies, j, rc, p, str, Frame(h, bodies[j]), "none")
    <3>1. n \in Nat
      BY <1>1
    <3>2. h \in Seq(Byte) /\ h # <<>> /\ Handed(h, g, bodies, n, rc)
      BY <1>1
    <3> QED BY <2>1, <3>1, <3>2, FrameJoins
  <2> QED BY <2>1, <2>2
<1> QED BY <1>2, <1>3, <1>4 DEF Direction

(* What a byte that is read leads to: q is the parser, j the next body.     *)
ReadDone(h, g, bodies, n, rc, str, out, se, q, j) ==
  \/ /\ q.out = "None" /\ q \in Parser
     /\ Direction(h, g, bodies, n, rc, q, Tail(str), out, se, "none")
  \/ /\ q.out = "Some" /\ g = h /\ j \in 1..n /\ n \in 0..Len(bodies)
     /\ bodies[j] \in Seq(Byte) /\ q.body = bodies[j]
     /\ Direction(h, g, bodies, n, Append(rc, bodies[j]), NewParser, Tail(str), out, se, "none")
  \/ q.out = "Err" /\ g # h

LEMMA DirectionReads ==
  ASSUME NEW h, NEW g, Versions(h, g), NEW bodies \in Seq(Content), NEW n, NEW rc, NEW p,
         NEW str \in Seq(Byte), str # <<>>, NEW out \in Seq(Byte), NEW se,
         Direction(h, g, bodies, n, rc, p, str, out, se, "none"),
         NEW q, HasRead(q, p, g, Head(str)), NEW j, IsNext(j, Len(rc))
  PROVE  ReadDone(h, g, bodies, n, rc, str, out, se, q, j)
<1>1. /\ Handed(h, g, bodies, n, rc) /\ p.buffer \in Seq(Byte) /\ Decoding(h, g, bodies, n, rc, p)
      /\ OnTheWay(h, bodies, n, rc, p, str, out, se) /\ (out # <<>> => se = "none" /\ Len(rc) < n)
  BY DEF Direction
<1>2. h \in Seq(Byte) /\ g \in Seq(Byte) /\ h # <<>> /\ (g # h => ~IsPrefix(g, h) /\ ~IsPrefix(h, g))
  BY DEF Versions
<1>3. CASE g # h
  <2>1. \/ /\ q.out = "None" /\ q \in Parser /\ Decoding(h, g, bodies, n, rc, q)
           /\ OnTheWay(h, bodies, n, rc, q, Tail(str), out, se)
        \/ q.out = "Err"
    BY <1>1, <1>2, <1>3, HeaderByteRead
  <2>2. CASE /\ q.out = "None" /\ q \in Parser /\ Decoding(h, g, bodies, n, rc, q)
             /\ OnTheWay(h, bodies, n, rc, q, Tail(str), out, se)
    <3>1. q.buffer \in Seq(Byte)
      BY <2>2, DecodingBuffer
    <3> QED BY <1>1, <2>2, <3>1 DEF Direction, ReadDone
  <2> QED BY <1>3, <2>1, <2>2 DEF ReadDone
<1>4. CASE g = h
  <2>a. PICK rc1, rest : rc1 = Append(rc, bodies[j]) /\ rest = Tail(str)
    OBVIOUS
  <2>1. /\ Handed(h, h, bodies, n, rc) /\ Decoding(h, h, bodies, n, rc, p) /\ HasRead(q, p, h, Head(str))
    BY <1>1, <1>4
  <2>2. /\ j <= n
        /\ \/ /\ q.out = "None" /\ q \in Parser /\ Decoding(h, h, bodies, n, rc, q)
              /\ OnTheWay(h, bodies, n, rc, q, rest, out, se)
           \/ /\ q.out = "Some" /\ q.body = bodies[j] /\ Handed(h, h, bodies, n, rc1)
              /\ Decoding(h, h, bodies, n, rc1, NewParser)
              /\ OnTheWay(h, bodies, n, rc1, NewParser, rest, out, se)
              /\ out # <<>> => j < n
    <3>1. j <= n /\ FrameByteDone(h, bodies, n, rc, str, out, se, q, j)
      BY <1>1, <1>2, <2>1, FrameByteRead
    <3> QED BY <2>a, <3>1 DEF FrameByteDone
  <2>3. /\ n \in 0..Len(bodies) /\ j \in 1..n /\ bodies[j] \in Seq(Byte)
        /\ rc \in Seq(Seq(Byte)) /\ Len(rc1) = j
    <3>1. n \in 0..Len(bodies) /\ rc \in Seq(Seq(Byte)) /\ j \in Nat /\ j = Len(rc) + 1
      BY <1>1 DEF Handed, IsNext
    <3>2. j \in 1..n /\ j \in 1..Len(bodies)
      BY <2>2, <3>1
    <3>3. bodies[j] \in Seq(Byte)
      BY <3>2, ContentIs
    <3>4. Len(rc1) = Len(rc) + 1
      BY <2>a, <3>1, <3>3, AppendIs
    <3> QED BY <3>1, <3>2, <3>3, <3>4
  <2>4. CASE /\ q.out = "None" /\ q \in Parser /\ Decoding(h, h, bodies, n, rc, q)
             /\ OnTheWay(h, bodies, n, rc, q, rest, out, se)
    <3>1. q.buffer \in Seq(Byte)
      BY <2>4, DecodingBuffer
    <3>2. Direction(h, g, bodies, n, rc, q, rest, out, se, "none")
      BY <1>1, <1>4, <2>4, <3>1 DEF Direction
    <3> QED BY <2>4, <2>a, <3>2 DEF ReadDone
  <2>5. CASE /\ q.out = "Some" /\ q.body = bodies[j] /\ Handed(h, h, bodies, n, rc1)
             /\ Decoding(h, h, bodies, n, rc1, NewParser)
             /\ OnTheWay(h, bodies, n, rc1, NewParser, rest, out, se)
             /\ out # <<>> => j < n
    <3>1. NewParser.buffer \in Seq(Byte)
      BY DEF NewParser
    <3>2. Direction(h, g, bodies, n, rc1, NewParser, rest, out, se, "none")
      BY <1>1, <1>4, <2>3, <2>5, <3>1 DEF Direction
    <3> QED BY <1>4, <2>3, <2>5, <2>a, <3>2 DEF ReadDone
  <2> QED BY <2>2, <2>4, <2>5
<1> QED BY <1>3, <1>4

LEMMA DirectionWrites ==
  ASSUME NEW h, NEW g, Versions(h, g), NEW bodies \in Seq(Content), NEW n, NEW rc, NEW p,
         NEW str \in Seq(Byte), NEW out \in Seq(Byte), out # <<>>, NEW se, NEW re,
         Direction(h, g, bodies, n, rc, p, str, out, se, re)
  PROVE  /\ Tail(out) \in Seq(Byte) /\ Append(str, Head(out)) \in Seq(Byte)
         /\ Len(Append(str, Head(out))) = Len(str) + 1
         /\ Direction(h, g, bodies, n, rc, p, Append(str, Head(out)), Tail(out), se, re)
<1>1. Handed(h, g, bodies, n, rc) /\ se = "none" /\ Len(rc) < n /\ h \in Seq(Byte)
  BY DEF Direction, Versions
<1>2. /\ Tail(out) \in Seq(Byte) /\ Head(out) \in Byte /\ Append(str, Head(out)) \in Seq(Byte)
      /\ Len(Append(str, Head(out))) = Len(str) + 1
  <2>1. Tail(out) \in Seq(Byte) /\ Head(out) \in Byte
    OBVIOUS
  <2> QED BY <2>1, AppendIs
<1>3. ASSUME re = "none"
      PROVE  /\ p.buffer \in Seq(Byte) /\ Decoding(h, g, bodies, n, rc, p)
             /\ OnTheWay(h, bodies, n, rc, p, Append(str, Head(out)), Tail(out), se)
  <2>1. /\ p.buffer \in Seq(Byte) /\ Decoding(h, g, bodies, n, rc, p)
        /\ OnTheWay(h, bodies, n, rc, p, str, out, se)
    BY <1>3 DEF Direction
  <2>2. PICK all, k : all = Flow(h, bodies)[n] /\ k = Len(Flow(h, bodies)[Len(rc)]) + Len(p.buffer)
    OBVIOUS
  <2>3. all \in Seq(Byte) /\ k \in Nat
    BY <1>1, <2>1, <2>2, FlowPoint
  <2>4. Coming(all, k, str, out, se)
    BY <2>1, <2>2 DEF OnTheWay
  <2>5. Coming(all, k, Append(str, Head(out)), Tail(out), se)
    BY <2>3, <2>4, ComingMoves
  <2> QED BY <2>1, <2>2, <2>5 DEF OnTheWay
<1> QED BY <1>1, <1>2, <1>3 DEF Direction

(* The end that sends is gone, and what it wrote may be cut.                *)
LEMMA DirectionCut ==
  ASSUME NEW h, NEW g, Versions(h, g), NEW bodies \in Seq(Content), NEW n, NEW rc, NEW p,
         NEW str \in Seq(Byte), NEW out, NEW se, NEW re, NEW se1, se1 # "none",
         Direction(h, g, bodies, n, rc, p, str, out, se, re), NEW rest \in Prefixes(str)
  PROVE  /\ rest \in Seq(Byte) /\ Len(rest) <= Len(str)
         /\ Direction(h, g, bodies, n, rc, p, rest, <<>>, se1, re)
<1>1. Handed(h, g, bodies, n, rc) /\ h \in Seq(Byte)
  BY DEF Direction, Versions
<1>2. rest \in Seq(Byte) /\ Len(rest) <= Len(str)
  <2>1. PICK l \in 0..Len(str) : rest = SubSeq(str, 1, l)
    BY DEF Prefixes
  <2> QED BY <2>1
<1>3. ASSUME re = "none"
      PROVE  /\ p.buffer \in Seq(Byte) /\ Decoding(h, g, bodies, n, rc, p)
             /\ OnTheWay(h, bodies, n, rc, p, rest, <<>>, se1)
  <2>1. /\ p.buffer \in Seq(Byte) /\ Decoding(h, g, bodies, n, rc, p)
        /\ OnTheWay(h, bodies, n, rc, p, str, out, se)
    BY <1>3 DEF Direction
  <2>2. PICK all, k : all = Flow(h, bodies)[n] /\ k = Len(Flow(h, bodies)[Len(rc)]) + Len(p.buffer)
    OBVIOUS
  <2>3. all \in Seq(Byte) /\ k \in Nat
    BY <1>1, <2>1, <2>2, FlowPoint
  <2>4. Coming(all, k, str, out, se)
    BY <2>1, <2>2 DEF OnTheWay
  <2>5. Coming(all, k, rest, <<>>, se1)
    BY <2>3, <2>4, ComingCut
  <2> QED BY <2>1, <2>2, <2>5 DEF OnTheWay
<1> QED BY <1>1, <1>2, <1>3 DEF Direction

(* The end that reads is gone.                                              *)
LEMMA DirectionDeaf ==
  ASSUME NEW h, NEW g, NEW bodies, NEW n, NEW rc, NEW p, NEW str, NEW out, NEW se, NEW re,
         Direction(h, g, bodies, n, rc, p, str, out, se, re), NEW str1, NEW out1,
         out1 # <<>> => out # <<>>, NEW re1, re1 # "none"
  PROVE  Direction(h, g, bodies, n, rc, p, str1, out1, se, re1)
  BY DEF Direction

LEMMA DirectionStarts ==
  ASSUME NEW h, NEW g, Versions(h, g), g # <<>>, NEW bodies \in Seq(Content)
  PROVE  Direction(h, g, bodies, 0, <<>>, NewParser, <<>>, <<>>, "none", "none")
<1>1. /\ h \in Seq(Byte) /\ g \in Seq(Byte) /\ bodies \in Seq(Seq(Byte)) /\ Len(bodies) \in Nat
      /\ Len(g) > 0 /\ Len(g) \in Nat
  BY ContentIs DEF Versions
<1>a. PICK z \in Nat : z = 0
  OBVIOUS
<1>2. Flow(h, bodies)[0] = <<>> /\ Flow(h, bodies)[0] \in Seq(Byte)
  <2>1. z \in 0..Len(bodies)
    BY <1>1, <1>a
  <2> QED BY <1>1, <1>a, <2>1, StartOfFlow
<1>3. NewParser.buffer = <<>> /\ Len(<<>>) = 0 /\ <<>> \in Seq(Byte) /\ <<>> \in Seq(Seq(Byte))
      /\ 0 \in 0..Len(bodies)
  BY <1>1 DEF NewParser
<1>4. Handed(h, g, bodies, 0, <<>>)
  BY <1>1, <1>3 DEF Handed
<1>b. PICK e : e = <<>>
  OBVIOUS
<1>5. e \in Seq(Byte) /\ Len(e) = 0 /\ \A x \in Seq(Byte) : Piece(e, x, 0)
  BY <1>3, <1>b DEF Piece
<1>c. PICK f : f = Flow(h, bodies)
  OBVIOUS
<1>d. f[0] = e /\ NewParser.buffer = e
  BY <1>2, <1>3, <1>b, <1>c
<1>6. InHeader(NewParser, g)
  <2>1. Len(e) < Len(g) /\ Piece(e, g, 0)
    BY <1>1, <1>5
  <2>2. At(NewParser, "HeaderStart", e, Len(e), 0, <<>>, 0)
    BY <1>5, <1>b, NewAt
  <2> QED BY <1>5, <1>d, <2>1, <2>2 DEF InHeader
<1>7. Decoding(h, g, bodies, 0, <<>>, NewParser)
  <2>1. Piece(NewParser.buffer, f[0], 0)
    BY <1>5, <1>d
  <2>2. ~ (Len(<<>>) < 0)
    BY <1>3
  <2> QED BY <1>6, <1>c, <2>1, <2>2 DEF Decoding
<1>8. OnTheWay(h, bodies, 0, <<>>, NewParser, <<>>, <<>>, "none")
  <2>1. Coming(e, 0, e, e, "none")
    <3>1. 0 + Len(e) = 0 /\ 0 + Len(e) + Len(e) = Len(e)
      BY <1>5
    <3> QED BY <1>5, <3>1 DEF Coming
  <2>2. Len(f[Len(<<>>)]) + Len(NewParser.buffer) = 0
    <3>1. f[Len(<<>>)] = e
      BY <1>3, <1>d
    <3> QED BY <1>5, <1>d, <3>1
  <2> QED BY <1>b, <1>c, <1>d, <2>1, <2>2 DEF OnTheWay
<1> QED BY <1>3, <1>4, <1>7, <1>8 DEF Direction

-------------------------------------------------------------------------------
(***************************************************************************)
(* Both directions, and every step of a task.                               *)
(***************************************************************************)
Intact(s) ==
  Direction(header[s], header[Peer(s)], Bodies[s], taken[s], received[Peer(s)],
            parser[Peer(s)], stream[s], output[s], end[s], end[Peer(s)])

ParsersOK == parser \in [Side -> Parser]

IInv == TypeOK /\ ParsersOK /\ \A s \in Side : Intact(s)

LEMMA Peers ==
  ASSUME NEW s \in Side
  PROVE  /\ Peer(s) \in Side /\ Peer(s) # s /\ Peer(Peer(s)) = s
         /\ \A u \in Side : u = s \/ u = Peer(s)
<1>1. /\ \A u \in Side : u = "master" \/ u = "worker"
      /\ "master" \in Side /\ "worker" \in Side /\ "master" # "worker"
  BY DEF Side
<1>2. \A u \in Side : Peer(u) \in Side /\ Peer(u) # u
  <2> SUFFICES ASSUME NEW u \in Side PROVE Peer(u) \in Side /\ Peer(u) # u
    OBVIOUS
  <2>1. \E v \in Side : v # u
    BY <1>1
  <2> QED BY <2>1 DEF Peer
<1> QED BY <1>1, <1>2

LEMMA VersionsOfSides ==
  ASSUME header \in [Side -> Headers], NEW s \in Side
  PROVE  /\ Versions(header[s], header[Peer(s)]) /\ header[Peer(s)] # <<>>
         /\ Bodies[s] \in Seq(Content)
<1>1. header[s] \in Headers /\ header[Peer(s)] \in Headers
  BY Peers
<1>2. Versions(header[s], header[Peer(s)]) /\ header[Peer(s)] # <<>>
  BY <1>1, ConnectionAssumption DEF Versions
<1>3. Bodies[s] \in Seq(Content)
  BY ConnectionAssumption DEF Content
<1> QED BY <1>2, <1>3

LEMMA Inits ==
  ASSUME Init
  PROVE  IInv
<1>1. /\ TypeOK
  <2>1. /\ header \in [Side -> Headers] /\ taken \in [Side -> Nat] /\ output \in [Side -> Seq(Byte)]
        /\ stream \in [Side -> Seq(Byte)] /\ received \in [Side -> Seq(Seq(Byte))]
        /\ cancelled \subseteq Side /\ asked \subseteq Side
    BY DEF Init
  <2>2. \A s \in Side : Len(stream[s]) <= Window
    <3>1. Len(<<>>) = 0 /\ Window \in Nat
      BY ConnectionAssumption
    <3> QED BY <3>1 DEF Init
  <2>3. \A s \in Side : parser[s].out = "None"
    BY DEF Init, NewParser
  <2>4. end \in [Side -> Announced \cup Silent \cup {"none"}]
    BY DEF Init
  <2> QED BY <2>1, <2>2, <2>3, <2>4 DEF TypeOK
<1>2. ParsersOK
  <2>1. NewParser \in Parser
    BY NewAt DEF At
  <2> QED BY <2>1 DEF Init, ParsersOK
<1>3. ASSUME NEW s \in Side PROVE Intact(s)
  <2>1. /\ header \in [Side -> Headers] /\ Peer(s) \in Side
        /\ taken[s] = 0 /\ received[Peer(s)] = <<>> /\ parser[Peer(s)] = NewParser
        /\ stream[s] = <<>> /\ output[s] = <<>> /\ end[s] = "none" /\ end[Peer(s)] = "none"
    BY Peers DEF Init
  <2>2. Direction(header[s], header[Peer(s)], Bodies[s], 0, <<>>, NewParser, <<>>, <<>>, "none", "none")
    BY <2>1, VersionsOfSides, DirectionStarts
  <2> QED BY <2>1, <2>2 DEF Intact
<1> QED BY <1>1, <1>2, <1>3 DEF IInv

LEMMA BothSides ==
  ASSUME NEW s \in Side, TypeOK', ParsersOK', Intact(s)', Intact(Peer(s))'
  PROVE  IInv'
<1>1. \A u \in Side : u = s \/ u = Peer(s)
  BY Peers
<1>2. ASSUME NEW u \in Side PROVE Intact(u)'
  <2>1. CASE u = s
    BY <2>1
  <2>2. CASE u = Peer(s)
    BY <2>2
  <2> QED BY <1>1, <2>1, <2>2
<1> QED BY <1>2 DEF IInv

LEMMA TakesOK ==
  ASSUME IInv, NEW s \in Side, Takes(s)
  PROVE  IInv'
<1>a. PICK t \in Side : t = Peer(s) /\ t # s /\ Peer(t) = s
  BY Peers
<1>b. PICK j : j = taken[s] + 1
  OBVIOUS
<1>c. PICK frame : frame = Frame(header[s], Bodies[s][j])
  OBVIOUS
<1>0. TypeOK /\ ParsersOK /\ Intact(s) /\ Intact(t) /\ header \in [Side -> Headers]
  BY DEF IInv, TypeOK
<1>1. /\ end[s] = "none" /\ output[s] = <<>> /\ taken[s] < Len(Bodies[s])
      /\ taken' = [taken EXCEPT ![s] = j] /\ output' = [output EXCEPT ![s] = frame]
      /\ header' = header /\ stream' = stream /\ parser' = parser /\ received' = received
      /\ end' = end /\ cancelled' = cancelled /\ asked' = asked
  BY <1>b, <1>c DEF Takes, Selecting, Running
<1>2. taken \in [Side -> Nat] /\ output \in [Side -> Seq(Byte)] /\ stream[s] \in Seq(Byte) /\ IsNext(j, taken[s])
  BY <1>0, <1>b DEF TypeOK, IsNext
<1>3. /\ frame \in Seq(Byte)
      /\ Direction(header[s], header[t], Bodies[s], j, received[t], parser[t], stream[s], frame,
                   "none", end[t])
  <2>1. Direction(header[s], header[t], Bodies[s], taken[s], received[t], parser[t], stream[s],
                  <<>>, "none", end[t])
    BY <1>0, <1>1, <1>a DEF Intact
  <2>2. Versions(header[s], header[t]) /\ Bodies[s] \in Seq(Content)
    BY <1>0, <1>a, VersionsOfSides
  <2> QED BY <1>1, <1>2, <1>c, <2>1, <2>2, DirectionTakes
<1>4. taken'[s] = j /\ output'[s] = frame /\ taken'[t] = taken[t] /\ output'[t] = output[t]
  BY <1>1, <1>2, <1>a
<1>5. TypeOK' /\ ParsersOK'
  <2>1. taken' \in [Side -> Nat] /\ output' \in [Side -> Seq(Byte)]
    BY <1>1, <1>2, <1>3 DEF IsNext
  <2> QED BY <1>0, <1>1, <2>1 DEF TypeOK, ParsersOK
<1>6. Intact(s)'
  BY <1>1, <1>3, <1>4, <1>a DEF Intact
<1>7. Intact(t)'
  BY <1>0, <1>1, <1>4, <1>a DEF Intact
<1> QED BY <1>5, <1>6, <1>7, <1>a, BothSides

(* What the end of a task leaves behind.                                    *)
Closed(s, how) ==
  /\ end' = [end EXCEPT ![s] = how]
  /\ output' = [output EXCEPT ![s] = <<>>]
  /\ \E rest \in Prefixes(stream[s]) :
       stream' = [stream EXCEPT ![s] = rest, ![Peer(s)] = <<>>]
  /\ UNCHANGED <<header, taken, parser, received, cancelled, asked>>

LEMMA ClosedOK ==
  ASSUME IInv, NEW s \in Side, NEW how \in Announced \cup Silent, Closed(s, how)
  PROVE  IInv'
<1>a. PICK t \in Side : t = Peer(s) /\ t # s /\ Peer(t) = s /\ \A u \in Side : u = s \/ u = t
  BY Peers
<1>b. PICK rest \in Prefixes(stream[s]) : stream' = [stream EXCEPT ![s] = rest, ![t] = <<>>]
  BY <1>a DEF Closed
<1>0. TypeOK /\ ParsersOK /\ Intact(s) /\ Intact(t) /\ header \in [Side -> Headers]
  BY DEF IInv, TypeOK
<1>1. /\ end' = [end EXCEPT ![s] = how] /\ output' = [output EXCEPT ![s] = <<>>]
      /\ header' = header /\ taken' = taken /\ parser' = parser /\ received' = received
      /\ cancelled' = cancelled /\ asked' = asked
  BY DEF Closed
<1>2. /\ output \in [Side -> Seq(Byte)] /\ stream \in [Side -> Seq(Byte)]
      /\ end \in [Side -> Announced \cup Silent \cup {"none"}]
      /\ Len(stream[s]) <= Window /\ stream[s] \in Seq(Byte) /\ how # "none"
  BY <1>0 DEF TypeOK, Announced, Silent
<1>3. /\ end'[s] = how /\ end'[t] = end[t] /\ output'[s] = <<>> /\ output'[t] = output[t]
      /\ stream'[s] = rest /\ stream'[t] = <<>>
  BY <1>1, <1>2, <1>a, <1>b
<1>4. /\ rest \in Seq(Byte) /\ Len(rest) <= Len(stream[s])
      /\ Direction(header[s], header[t], Bodies[s], taken[s], received[t], parser[t], rest, <<>>,
                   how, end[t])
  <2>1. Direction(header[s], header[t], Bodies[s], taken[s], received[t], parser[t], stream[s],
                  output[s], end[s], end[t])
    BY <1>0, <1>a DEF Intact
  <2>2. Versions(header[s], header[t]) /\ Bodies[s] \in Seq(Content)
    BY <1>0, <1>a, VersionsOfSides
  <2> QED BY <1>2, <2>1, <2>2, DirectionCut
<1>5. Direction(header[t], header[s], Bodies[t], taken[t], received[s], parser[s], <<>>, output[t],
                end[t], how)
  <2>1. Direction(header[t], header[s], Bodies[t], taken[t], received[s], parser[s], stream[t],
                  output[t], end[t], end[s])
    BY <1>0, <1>a DEF Intact
  <2> QED BY <1>2, <2>1, DirectionDeaf
<1>6. TypeOK' /\ ParsersOK'
  <2>1. /\ <<>> \in Seq(Byte) /\ Len(<<>>) = 0 /\ Window \in Nat /\ Len(stream[s]) \in Nat
        /\ Len(rest) \in Nat
    BY <1>2, <1>4, ConnectionAssumption
  <2>2. output' \in [Side -> Seq(Byte)] /\ stream' \in [Side -> Seq(Byte)]
        /\ end' \in [Side -> Announced \cup Silent \cup {"none"}]
    BY <1>1, <1>2, <1>4, <1>b, <2>1
  <2>4. Len(rest) <= Window
    BY <1>2, <1>4, <2>1
  <2>3. \A u \in Side : Len(stream'[u]) <= Window
    <3>1. Len(stream'[s]) <= Window /\ Len(stream'[t]) <= Window
      BY <1>3, <2>1, <2>4
    <3> QED BY <1>a, <3>1
  <2> QED BY <1>0, <1>1, <2>2, <2>3 DEF TypeOK, ParsersOK
<1>7. Intact(s)'
  BY <1>1, <1>3, <1>4, <1>a DEF Intact
<1>8. Intact(t)'
  BY <1>1, <1>3, <1>5, <1>a DEF Intact
<1> QED BY <1>6, <1>7, <1>8, <1>a, BothSides

LEMMA EndsClose ==
  ASSUME TypeOK, NEW s \in Side
  PROVE  /\ CancelTask(s) => Closed(s, "cancelled")
         /\ Disconnects(s) => Closed(s, "disconnected")
         /\ ReadInvalidByte(s) => Closed(s, "invalidByte")
         /\ ReadFails(s) => Closed(s, "readError")
         /\ WriteFails(s) => Closed(s, "writeFailed")
         /\ Dies(s) => Closed(s, "killed")
<1>1. stream[s] \in Prefixes(stream[s])
  BY PrefixOfItself DEF TypeOK
<1>2. CancelTask(s) => Closed(s, "cancelled")
  BY <1>1 DEF CancelTask, Close, Closed
<1>3. Disconnects(s) => Closed(s, "disconnected")
  BY <1>1 DEF Disconnects, Close, Closed
<1>4. ReadInvalidByte(s) => Closed(s, "invalidByte")
  BY <1>1 DEF ReadInvalidByte, Close, Closed
<1>5. ReadFails(s) => Closed(s, "readError")
  BY <1>1 DEF ReadFails, Close, Closed
<1>6. WriteFails(s) => Closed(s, "writeFailed")
  BY <1>1 DEF WriteFails, Close, Closed
<1>7. Dies(s) => Closed(s, "killed")
  BY <1>1 DEF Dies, Close, Closed
<1> QED BY <1>2, <1>3, <1>4, <1>5, <1>6, <1>7

(* A byte goes from one end into the stream, or nowhere.                    *)
LEMMA WriteByteOK ==
  ASSUME IInv, NEW s \in Side, WriteByte(s)
  PROVE  IInv'
<1>a. PICK t \in Side : t = Peer(s) /\ t # s /\ Peer(t) = s /\ \A u \in Side : u = s \/ u = t
  BY Peers
<1>b. PICK str, out : str = Append(stream[s], Head(output[s])) /\ out = Tail(output[s])
  OBVIOUS
<1>0. TypeOK /\ ParsersOK /\ Intact(s) /\ Intact(t) /\ header \in [Side -> Headers]
  BY DEF IInv, TypeOK
<1>1. /\ end[s] = "none" /\ output[s] # <<>> /\ Len(stream[s]) < Window
      /\ output' = [output EXCEPT ![s] = out] /\ stream' = [stream EXCEPT ![s] = str]
      /\ header' = header /\ taken' = taken /\ parser' = parser /\ received' = received
      /\ end' = end /\ cancelled' = cancelled /\ asked' = asked
  BY <1>b DEF WriteByte, Writing, Running
<1>2. /\ output \in [Side -> Seq(Byte)] /\ stream \in [Side -> Seq(Byte)]
      /\ stream[s] \in Seq(Byte) /\ output[s] \in Seq(Byte) /\ Len(stream[t]) <= Window
  BY <1>0 DEF TypeOK
<1>3. /\ output'[s] = out /\ output'[t] = output[t] /\ stream'[s] = str /\ stream'[t] = stream[t]
  BY <1>1, <1>2, <1>a
<1>4. /\ out \in Seq(Byte) /\ str \in Seq(Byte) /\ Len(str) = Len(stream[s]) + 1
      /\ Direction(header[s], header[t], Bodies[s], taken[s], received[t], parser[t], str, out,
                   end[s], end[t])
  <2>1. Direction(header[s], header[t], Bodies[s], taken[s], received[t], parser[t], stream[s],
                  output[s], end[s], end[t])
    BY <1>0, <1>a DEF Intact
  <2>2. Versions(header[s], header[t]) /\ Bodies[s] \in Seq(Content)
    BY <1>0, <1>a, VersionsOfSides
  <2> QED BY <1>1, <1>2, <1>b, <2>1, <2>2, DirectionWrites
<1>5. TypeOK' /\ ParsersOK'
  <2>1. Window \in Nat /\ Len(stream[s]) \in Nat
    BY <1>2, ConnectionAssumption
  <2>2. output' \in [Side -> Seq(Byte)] /\ stream' \in [Side -> Seq(Byte)]
    BY <1>1, <1>2, <1>4
  <2>3. Len(str) <= Window
    BY <1>1, <1>4, <2>1
  <2>4. \A u \in Side : Len(stream'[u]) <= Window
    BY <1>2, <1>3, <1>a, <2>3
  <2> QED BY <1>0, <1>1, <2>2, <2>4 DEF TypeOK, ParsersOK
<1>6. Intact(s)'
  BY <1>1, <1>3, <1>4, <1>a DEF Intact
<1>7. Intact(t)'
  BY <1>0, <1>1, <1>3, <1>a DEF Intact
<1> QED BY <1>5, <1>6, <1>7, <1>a, BothSides

LEMMA WriteDiscardedOK ==
  ASSUME IInv, NEW s \in Side, WriteDiscarded(s)
  PROVE  IInv'
<1>a. PICK t \in Side : t = Peer(s) /\ t # s /\ Peer(t) = s /\ \A u \in Side : u = s \/ u = t
  BY Peers
<1>b. PICK out : out = Tail(output[s])
  OBVIOUS
<1>c. PICK rest \in Prefixes(stream[t]) : stream' = [stream EXCEPT ![t] = rest]
  BY <1>a DEF WriteDiscarded
<1>0. TypeOK /\ ParsersOK /\ Intact(s) /\ Intact(t) /\ header \in [Side -> Headers]
  BY DEF IInv, TypeOK
<1>1. /\ end[s] = "none" /\ output[s] # <<>> /\ end[t] # "none"
      /\ output' = [output EXCEPT ![s] = out]
      /\ header' = header /\ taken' = taken /\ parser' = parser /\ received' = received
      /\ end' = end /\ cancelled' = cancelled /\ asked' = asked
  BY <1>a, <1>b DEF WriteDiscarded, Writing, Running
<1>2. /\ output \in [Side -> Seq(Byte)] /\ stream \in [Side -> Seq(Byte)]
      /\ stream[t] \in Seq(Byte) /\ output[s] \in Seq(Byte)
      /\ Len(stream[s]) <= Window /\ Len(stream[t]) <= Window
  BY <1>0 DEF TypeOK
<1>3. /\ output'[s] = out /\ output'[t] = output[t] /\ stream'[s] = stream[s] /\ stream'[t] = rest
  BY <1>1, <1>2, <1>a, <1>c
<1>4. Direction(header[s], header[t], Bodies[s], taken[s], received[t], parser[t], stream[s], out,
                end[s], end[t])
  <2>1. Direction(header[s], header[t], Bodies[s], taken[s], received[t], parser[t], stream[s],
                  output[s], end[s], end[t])
    BY <1>0, <1>a DEF Intact
  <2> QED BY <1>1, <2>1, DirectionDeaf
<1>5. /\ rest \in Seq(Byte) /\ Len(rest) <= Len(stream[t])
      /\ Direction(header[t], header[s], Bodies[t], taken[t], received[s], parser[s], rest, output[t],
                   end[t], end[s])
  <2>1. Direction(header[t], header[s], Bodies[t], taken[t], received[s], parser[s], stream[t],
                  output[t], end[t], end[s])
    BY <1>0, <1>a DEF Intact
  <2>2. Versions(header[t], header[s]) /\ Bodies[t] \in Seq(Content)
    BY <1>0, <1>a, VersionsOfSides
  <2>3. output[t] = <<>>
    BY <1>1, <2>1 DEF Direction
  <2>4. /\ rest \in Seq(Byte) /\ Len(rest) <= Len(stream[t])
        /\ Direction(header[t], header[s], Bodies[t], taken[t], received[s], parser[s], rest, <<>>,
                     end[t], end[s])
    BY <1>1, <1>2, <2>1, <2>2, DirectionCut
  <2> QED BY <2>3, <2>4
<1>6. TypeOK' /\ ParsersOK'
  <2>1. Window \in Nat /\ Len(stream[t]) \in Nat /\ Len(rest) \in Nat /\ out \in Seq(Byte)
    BY <1>1, <1>2, <1>5, <1>b, ConnectionAssumption
  <2>2. output' \in [Side -> Seq(Byte)] /\ stream' \in [Side -> Seq(Byte)]
    BY <1>1, <1>2, <1>5, <1>c, <2>1
  <2>4. Len(rest) <= Window
    BY <1>2, <1>5, <2>1
  <2>3. \A u \in Side : Len(stream'[u]) <= Window
    <3>1. Len(stream'[s]) <= Window /\ Len(stream'[t]) <= Window
      BY <1>2, <1>3, <2>4
    <3> QED BY <1>a, <3>1
  <2> QED BY <1>0, <1>1, <2>2, <2>3 DEF TypeOK, ParsersOK
<1>7. Intact(s)'
  BY <1>1, <1>3, <1>4, <1>a DEF Intact
<1>8. Intact(t)'
  BY <1>1, <1>3, <1>5, <1>a DEF Intact
<1> QED BY <1>6, <1>7, <1>8, <1>a, BothSides

(* A byte is read: by s, from its peer.                                     *)
LEMMA ReadIs ==
  ASSUME IInv, NEW s \in Side, NEW t \in Side, t = Peer(s), s = Peer(t), Readable(s), Arrives(s),
         NEW q, q = Parsed(s), NEW j, j = Len(received[s]) + 1
  PROVE  ReadDone(header[t], header[s], Bodies[t], taken[t], received[s], stream[t], output[t],
                  end[t], q, j)
<1>0. TypeOK /\ Intact(t) /\ header \in [Side -> Headers]
  BY DEF IInv, TypeOK
<1>1. end[s] = "none" /\ stream[t] # <<>> /\ stream[t] \in Seq(Byte) /\ output[t] \in Seq(Byte)
      /\ received[s] \in Seq(Seq(Byte))
  BY <1>0 DEF Readable, Selecting, Running, Arrives, TypeOK
<1>2. Direction(header[t], header[s], Bodies[t], taken[t], received[s], parser[s], stream[t],
                output[t], end[t], "none")
  BY <1>0, <1>1 DEF Intact
<1>3. Versions(header[t], header[s]) /\ Bodies[t] \in Seq(Content)
  BY <1>0, VersionsOfSides
<1>4. HasRead(q, parser[s], header[s], Head(stream[t]))
  BY DEF HasRead, Parsed
<1>5. IsNext(j, Len(received[s]))
  BY <1>1 DEF IsNext
<1> QED BY <1>1, <1>2, <1>3, <1>4, <1>5, DirectionReads

LEMMA ReadByteOK ==
  ASSUME IInv, NEW s \in Side, ReadByte(s)
  PROVE  IInv'
<1>a. PICK t \in Side : t = Peer(s) /\ s = Peer(t) /\ t # s /\ \A u \in Side : u = s \/ u = t
  BY Peers
<1>b. PICK q, j, rest : q = Parsed(s) /\ j = Len(received[s]) + 1 /\ rest = Tail(stream[t])
  OBVIOUS
<1>0. TypeOK /\ ParsersOK /\ Intact(s) /\ Intact(t) /\ header \in [Side -> Headers]
  BY DEF IInv, TypeOK
<1>1. /\ Readable(s) /\ Arrives(s) /\ end[s] = "none" /\ stream[t] # <<>>
      /\ (q.out = "Some" /\ Publishes(s, q)) \/ (q.out = "None" /\ Continues(s, q))
      /\ stream' = [stream EXCEPT ![t] = rest]
      /\ header' = header /\ taken' = taken /\ output' = output
      /\ end' = end /\ cancelled' = cancelled /\ asked' = asked
  BY <1>a, <1>b DEF ReadByte, Readable, Selecting, Running, Arrives
<1>2. /\ stream \in [Side -> Seq(Byte)] /\ stream[t] \in Seq(Byte) /\ parser \in [Side -> Parser]
      /\ received \in [Side -> Seq(Seq(Byte))] /\ received[s] \in Seq(Seq(Byte))
      /\ Len(stream[s]) <= Window /\ Len(stream[t]) <= Window
      /\ \A u \in Side : parser[u].out = "None"
  BY <1>0 DEF TypeOK, ParsersOK
<1>3. ReadDone(header[t], header[s], Bodies[t], taken[t], received[s], stream[t], output[t],
               end[t], q, j)
  BY <1>1, <1>a, <1>b, ReadIs
<1>4. /\ stream' \in [Side -> Seq(Byte)] /\ \A u \in Side : Len(stream'[u]) <= Window
      /\ stream'[t] = rest /\ stream'[s] = stream[s]
  <2>1. rest \in Seq(Byte) /\ Len(rest) <= Window
    <3>1. rest \in Seq(Byte) /\ Len(rest) = Len(stream[t]) - 1 /\ Len(stream[t]) \in Nat
      BY <1>1, <1>2, <1>b
    <3>2. Window \in Nat
      BY ConnectionAssumption
    <3> QED BY <1>2, <3>1, <3>2
  <2>2. stream'[t] = rest /\ stream'[s] = stream[s]
    BY <1>1, <1>2, <1>a
  <2>3. \A u \in Side : Len(stream'[u]) <= Window
    BY <1>2, <1>a, <2>1, <2>2
  <2> QED BY <1>1, <1>2, <2>1, <2>2, <2>3
<1>5. CASE q.out = "None"
  <2>1. q \in Parser /\ parser' = [parser EXCEPT ![s] = q] /\ received' = received
        /\ Direction(header[t], header[s], Bodies[t], taken[t], received[s], q, rest, output[t],
                     end[t], end[s])
    BY <1>1, <1>3, <1>5, <1>b DEF ReadDone, Continues
  <2>2. parser'[s] = q /\ parser'[t] = parser[t] /\ parser' \in [Side -> Parser]
    BY <1>2, <1>a, <2>1
  <2>3. TypeOK' /\ ParsersOK'
    <3>1. \A u \in Side : parser'[u].out = "None"
      BY <1>2, <1>5, <1>a, <2>2
    <3> QED BY <1>0, <1>1, <1>4, <2>1, <2>2, <3>1 DEF TypeOK, ParsersOK
  <2>4. Intact(s)'
    BY <1>0, <1>1, <1>4, <1>a, <2>1, <2>2 DEF Intact
  <2>5. Intact(t)'
    BY <1>1, <1>4, <1>a, <2>1, <2>2 DEF Intact
  <2> QED BY <1>a, <2>3, <2>4, <2>5, BothSides
<1>6. CASE q.out = "Some"
  <2>a. PICK body, rc : body = Bodies[t][j] /\ rc = Append(received[s], body)
    OBVIOUS
  <2>1. /\ received' = [received EXCEPT ![s] = rc] /\ parser' = [parser EXCEPT ![s] = NewParser]
        /\ body \in Seq(Byte)
        /\ Direction(header[t], header[s], Bodies[t], taken[t], rc, NewParser, rest, output[t],
                     end[t], end[s])
    BY <1>1, <1>3, <1>6, <1>b, <2>a DEF ReadDone, Publishes
  <2>2. NewParser \in Parser /\ NewParser.out = "None"
    BY NewAt DEF At
  <2>3. parser'[s] = NewParser /\ parser'[t] = parser[t] /\ parser' \in [Side -> Parser]
    BY <1>2, <1>a, <2>1, <2>2
  <2>4. rc \in Seq(Seq(Byte))
    BY <1>2, <2>1, <2>a, AppendIs
  <2>5. received'[s] = rc /\ received'[t] = received[t] /\ received' \in [Side -> Seq(Seq(Byte))]
    BY <1>2, <1>a, <2>1, <2>4
  <2>6. TypeOK' /\ ParsersOK'
    <3>1. \A u \in Side : parser'[u].out = "None"
      BY <1>2, <1>a, <2>2, <2>3
    <3> QED BY <1>0, <1>1, <1>4, <2>3, <2>5, <3>1 DEF TypeOK, ParsersOK
  <2>7. Intact(s)'
    BY <1>0, <1>1, <1>4, <1>a, <2>3, <2>5 DEF Intact
  <2>8. Intact(t)'
    BY <1>1, <1>4, <1>a, <2>1, <2>3, <2>5 DEF Intact
  <2> QED BY <1>a, <2>6, <2>7, <2>8, BothSides
<1> QED BY <1>1, <1>5, <1>6

LEMMA NothingMoves ==
  ASSUME IInv, UNCHANGED <<header, taken, output, stream, parser, received, end>>,
         cancelled' \subseteq Side, asked' \subseteq Side
  PROVE  IInv'
<1>1. TypeOK' /\ ParsersOK'
  BY DEF IInv, TypeOK, ParsersOK
<1>2. ASSUME NEW s \in Side PROVE Intact(s)'
  <2>1. Intact(s)
    BY DEF IInv
  <2> QED BY <2>1 DEF Intact
<1> QED BY <1>1, <1>2 DEF IInv

LEMMA Steps ==
  ASSUME IInv, [Next]_vars
  PROVE  IInv'
<1>1. TypeOK
  BY DEF IInv
<1>2. CASE UNCHANGED vars
  <2>1. cancelled' \subseteq Side /\ asked' \subseteq Side
    BY <1>1, <1>2 DEF vars, TypeOK
  <2> QED BY <1>2, <2>1, NothingMoves DEF vars
<1>3. ASSUME NEW s \in Side,
             \/ CancelTask(s) \/ Disconnects(s) \/ Takes(s)
             \/ ReadByte(s) \/ ReadInvalidByte(s) \/ ReadFails(s)
             \/ WriteByte(s) \/ WriteDiscarded(s) \/ WriteFails(s)
             \/ Cancel(s) \/ Ask(s) \/ Dies(s)
      PROVE  IInv'
  <2>1. CASE \E how \in Announced \cup Silent : Closed(s, how)
    BY <2>1, ClosedOK
  <2>2. CASE \/ CancelTask(s) \/ Disconnects(s) \/ ReadInvalidByte(s) \/ ReadFails(s)
             \/ WriteFails(s) \/ Dies(s)
    <3>1. {"cancelled", "disconnected", "invalidByte", "readError", "writeFailed", "killed"}
            \subseteq Announced \cup Silent
      BY DEF Announced, Silent
    <3> QED BY <1>1, <2>1, <2>2, <3>1, EndsClose
  <2>3. CASE Takes(s)
    BY <2>3, TakesOK
  <2>4. CASE ReadByte(s)
    BY <2>4, ReadByteOK
  <2>5. CASE WriteByte(s)
    BY <2>5, WriteByteOK
  <2>6. CASE WriteDiscarded(s)
    BY <2>6, WriteDiscardedOK
  <2>7. CASE Cancel(s) \/ Ask(s)
    <3>1. cancelled' \subseteq Side /\ asked' \subseteq Side
      BY <1>1, <2>7 DEF Cancel, Ask, TypeOK
    <3> QED BY <2>7, <3>1, NothingMoves DEF Cancel, Ask
  <2> QED BY <1>3, <2>2, <2>3, <2>4, <2>5, <2>6, <2>7
<1> QED BY <1>2, <1>3 DEF Next

(* Both ends stay well-formed: no direction holds more than its window, a   *)
(* parser is never kept behind a packet or an error (run_on_socket of       *)
(* rlpg/src/tcp.rs), and what is published is sequences of bytes.           *)
THEOREM TypeCorrect == Spec => []TypeOK
<1>1. Spec => []IInv
  BY Inits, Steps, PTL DEF Spec
<1>2. IInv => TypeOK
  BY DEF IInv
<1> QED BY <1>1, <1>2, PTL

-------------------------------------------------------------------------------
(***************************************************************************)
(* What a program sees of the connection, and that it is PacketLink.        *)
(***************************************************************************)
Sent       == [s \in Side |-> SubSeq(Bodies[s], 1, taken[s])]
State      == [s \in Side |-> CASE end[s] = "none" -> "open"
                                [] end[s] \in Announced -> "announced"
                                [] end[s] = "writeFailed" -> "failed"
                                [] OTHER -> "stopped"]
Compatible == header["master"] = header["worker"]
AnyBody    == UNION {ToSet(Bodies[s]) : s \in Side}

Views == <<Sent, received, State, asked, Compatible>>

(* The steps of PacketLink, in the state of this module.                    *)
LEMMA LinkSteps ==
  ASSUME NEW s \in Side
  PROVE  /\ \A body \in AnyBody :
              /\ State[s] = "open" /\ Sent' = [Sent EXCEPT ![s] = Append(@, body)]
              /\ received' = received /\ State' = State /\ asked' = asked
              /\ Compatible' = Compatible
              => Link!Next
         /\ /\ State[s] = "open" /\ Compatible
            /\ Len(received[Peer(Peer(s))]) < Len(Sent[Peer(s)])
            /\ received' = [received EXCEPT ![s] = Append(@, Sent[Peer(s)][Len(@) + 1])]
            /\ Sent' = Sent /\ State' = State /\ asked' = asked /\ Compatible' = Compatible
            => Link!Next
         /\ /\ asked' = asked \cup {s}
            /\ Sent' = Sent /\ received' = received /\ State' = State /\ Compatible' = Compatible
            => Link!Next
<1>1. ASSUME NEW body \in AnyBody,
             State[s] = "open", Sent' = [Sent EXCEPT ![s] = Append(@, body)],
             received' = received, State' = State, asked' = asked, Compatible' = Compatible
      PROVE  Link!Next
  <2>1. Link!Send(s, body)
    BY <1>1 DEF Link!Send, Sent, State, Compatible
  <2> QED BY <2>1 DEF Link!Next, AnyBody
<1>2. ASSUME State[s] = "open", Compatible,
             Len(received[Peer(Peer(s))]) < Len(Sent[Peer(s)]),
             received' = [received EXCEPT ![s] = Append(@, Sent[Peer(s)][Len(@) + 1])],
             Sent' = Sent, State' = State, asked' = asked, Compatible' = Compatible
      PROVE  Link!Next
  <2>1. Link!Receive(s)
    BY <1>2 DEF Link!Receive, Link!Undelivered, Sent, State, Compatible
  <2> QED BY <2>1 DEF Link!Next
<1>3. ASSUME asked' = asked \cup {s},
             Sent' = Sent, received' = received, State' = State, Compatible' = Compatible
      PROVE  Link!Next
  <2>1. Link!Ask(s)
    BY <1>3 DEF Link!Ask, Sent, State, Compatible
  <2> QED BY <2>1 DEF Link!Next
<1> QED BY <1>1, <1>2, <1>3

LEMMA LinkEnds ==
  ASSUME NEW s \in Side, State[s] = "open", NEW how, State' = [State EXCEPT ![s] = how],
         Sent' = Sent, received' = received, asked' = asked, Compatible' = Compatible,
         \/ how = "announced" /\ (s \in asked \/ State[Peer(s)] # "open" \/ ~Compatible)
         \/ how = "stopped"
         \/ /\ how = "failed" /\ State[Peer(s)] # "open"
            /\ Len(received[Peer(s)]) < Len(Sent[s])
  PROVE  Link!Next
<1>1. Link!Ends(s, how)
  BY DEF Link!Ends, Sent, State, Compatible
<1>2. CASE how = "announced" /\ (s \in asked \/ State[Peer(s)] # "open" \/ ~Compatible)
  <2>1. Link!Announce(s)
    BY <1>1, <1>2 DEF Link!Announce, State, Compatible
  <2> QED BY <2>1 DEF Link!Next
<1>3. CASE how = "stopped"
  <2>1. Link!Stop(s)
    BY <1>1, <1>3 DEF Link!Stop
  <2> QED BY <2>1 DEF Link!Next
<1>4. CASE how = "failed" /\ State[Peer(s)] # "open" /\ Len(received[Peer(s)]) < Len(Sent[s])
  <2>1. Link!Fail(s)
    BY <1>1, <1>4 DEF Link!Fail, Link!Undelivered, Sent, State
  <2> QED BY <2>1 DEF Link!Next
<1> QED BY <1>2, <1>3, <1>4

LEMMA LinkInit ==
  ASSUME Init
  PROVE  Link!Init
<1>1. \A s \in Side : SubSeq(Bodies[s], 1, 0) = <<>>
  BY ConnectionAssumption
<1>2. [s \in Side |-> SubSeq(Bodies[s], 1, taken[s])] = [s \in Side |-> <<>>]
  <2>1. \A s \in Side : taken[s] = 0
    BY DEF Init
  <2> QED BY <1>1, <2>1
<1>3. State = [s \in Side |-> "open"]
  <2>1. \A s \in Side : end[s] = "none"
    BY DEF Init
  <2>2. \A s \in Side : State[s] = "open"
    BY <2>1 DEF State, Announced
  <2>3. State = [s \in Side |-> State[s]]
    BY DEF State
  <2> QED BY <2>2, <2>3
<1> QED BY <1>2, <1>3 DEF Init, Link!Init, State

(* The end of a task, seen from its bus.                                    *)
LEMMA StateOfEnd ==
  ASSUME TypeOK, NEW s \in Side
  PROVE  /\ (State[s] = "open") <=> (end[s] = "none")
         /\ \A how \in Announced \cup Silent :
              end' = [end EXCEPT ![s] = how] =>
                State' = [State EXCEPT ![s] =
                            IF how \in Announced THEN "announced"
                            ELSE IF how = "writeFailed" THEN "failed" ELSE "stopped"]
<1>0. end \in [Side -> Announced \cup Silent \cup {"none"}]
      /\ \A how \in Announced \cup Silent : how # "none"
      /\ "writeFailed" \notin Announced
  BY DEF TypeOK, Announced, Silent
<1>1. (State[s] = "open") <=> (end[s] = "none")
  BY <1>0 DEF State
<1>2. ASSUME NEW how \in Announced \cup Silent, end' = [end EXCEPT ![s] = how]
      PROVE  State' = [State EXCEPT ![s] =
                         IF how \in Announced THEN "announced"
                         ELSE IF how = "writeFailed" THEN "failed" ELSE "stopped"]
  <2>a. PICK view : view = IF how \in Announced THEN "announced"
                           ELSE IF how = "writeFailed" THEN "failed" ELSE "stopped"
    OBVIOUS
  <2>1. end'[s] = how /\ \A u \in Side : u # s => end'[u] = end[u]
    BY <1>0, <1>2
  <2>2. State'[s] = view
    BY <1>0, <2>1, <2>a DEF State
  <2>3. \A u \in Side : u # s => State'[u] = State[u]
    BY <2>1 DEF State
  <2>4. State' = [u \in Side |-> State'[u]] /\ State = [u \in Side |-> State[u]]
    BY DEF State
  <2>5. State' = [State EXCEPT ![s] = view]
    BY <2>2, <2>3, <2>4
  <2> QED BY <2>5, <2>a
<1> QED BY <1>1, <1>2

LEMMA ViewsKept ==
  ASSUME TRUE
  PROVE  /\ taken' = taken => Sent' = Sent
         /\ end' = end => State' = State
         /\ header' = header => Compatible' = Compatible
<1>1. ASSUME taken' = taken PROVE Sent' = Sent
  BY <1>1, Zenon DEF Sent
<1>2. ASSUME end' = end PROVE State' = State
  <2>1. \A u \in Side : end'[u] = end[u]
    BY <1>2
  <2>2. \A u \in Side : State'[u] = State[u]
    BY <2>1 DEF State
  <2>3. State' = [u \in Side |-> State'[u]] /\ State = [u \in Side |-> State[u]]
    BY DEF State
  <2> QED BY <2>2, <2>3
<1>3. ASSUME header' = header PROVE Compatible' = Compatible
  BY <1>3 DEF Compatible
<1> QED BY <1>1, <1>2, <1>3

LEMMA LinkTakes ==
  ASSUME IInv, NEW s \in Side, Takes(s)
  PROVE  Link!Next
<1>a. PICK n, j, body : n = taken[s] /\ j = n + 1 /\ body = Bodies[s][j]
  OBVIOUS
<1>0. TypeOK
  BY DEF IInv
<1>1. /\ end[s] = "none" /\ n < Len(Bodies[s]) /\ taken' = [taken EXCEPT ![s] = j]
      /\ received' = received /\ end' = end /\ header' = header /\ asked' = asked
  BY <1>a DEF Takes, Selecting, Running
<1>2. /\ Bodies[s] \in Seq(Content) /\ taken \in [Side -> Nat] /\ n \in Nat
      /\ j \in 1..Len(Bodies[s]) /\ j = n + 1
  <2>1. Bodies[s] \in Seq(Content) /\ taken \in [Side -> Nat] /\ n \in Nat
    BY <1>0, <1>a, VersionsOfSides DEF TypeOK
  <2>2. Len(Bodies[s]) \in Nat
    BY <2>1
  <2> QED BY <1>1, <1>a, <2>1, <2>2
<1>3. SubSeq(Bodies[s], 1, j) = Append(SubSeq(Bodies[s], 1, n), body)
  <2>a. PICK all : all = Bodies[s]
    OBVIOUS
  <2>b. PICK x, y, z : x = SubSeq(all, 1, j) /\ y = SubSeq(all, 1, n) /\ z = Append(y, body)
    OBVIOUS
  <2>1. all \in Seq(Content) /\ Len(all) \in Nat /\ n \in Nat /\ j \in Nat /\ j = n + 1 /\ j <= Len(all)
    BY <1>2, <2>a
  <2>2. body \in Content /\ body = all[j]
    BY <1>2, <1>a, <2>a
  <2>3. x \in Seq(Content) /\ Len(x) = j /\ \A i \in 1..j : x[i] = all[i]
    BY <2>1, <2>b
  <2>4. y \in Seq(Content) /\ Len(y) = n /\ \A i \in 1..n : y[i] = all[i]
    BY <2>1, <2>b
  <2>5. /\ z \in Seq(Content) /\ Len(z) = Len(y) + 1 /\ z[Len(y) + 1] = body
        /\ \A i \in 1..Len(y) : z[i] = y[i]
    BY <2>2, <2>4, <2>b, AppendIs
  <2>6. \A i \in 1..j : i = j \/ i \in 1..n
    BY <2>1
  <2>7. \A i \in 1..j : x[i] = z[i]
    BY <2>1, <2>2, <2>3, <2>4, <2>5, <2>6
  <2>8. Len(x) = Len(z)
    BY <2>1, <2>3, <2>4, <2>5
  <2>9. x = z
    BY <2>3, <2>5, <2>7, <2>8, SameSeq
  <2> QED BY <2>9, <2>a, <2>b
<1>4. Sent' = [Sent EXCEPT ![s] = Append(@, body)]
  <2>1. taken'[s] = j /\ \A u \in Side : u # s => taken'[u] = taken[u]
    BY <1>1, <1>2
  <2>2. Sent[s] = SubSeq(Bodies[s], 1, n) /\ Sent'[s] = SubSeq(Bodies[s], 1, j)
    BY <1>a, <2>1 DEF Sent
  <2>3. \A u \in Side : u # s => Sent'[u] = Sent[u]
    BY <2>1 DEF Sent
  <2>4. Sent' = [u \in Side |-> Sent'[u]] /\ Sent = [u \in Side |-> Sent[u]]
    BY DEF Sent
  <2> QED BY <1>3, <2>2, <2>3, <2>4
<1>5. body \in AnyBody
  <2>1. body \in ToSet(Bodies[s])
    BY <1>2, <1>a DEF ToSet
  <2> QED BY <2>1 DEF AnyBody
<1>6. State[s] = "open" /\ State' = State /\ Compatible' = Compatible
  BY <1>0, <1>1, StateOfEnd, ViewsKept
<1> QED BY <1>1, <1>4, <1>5, <1>6, LinkSteps

LEMMA LinkReads ==
  ASSUME IInv, NEW s \in Side, ReadByte(s)
  PROVE  Link!Next \/ UNCHANGED Views
<1>a. PICK t \in Side : t = Peer(s) /\ s = Peer(t)
  BY Peers
<1>b. PICK q, j : q = Parsed(s) /\ j = Len(received[s]) + 1
  OBVIOUS
<1>0. TypeOK
  BY DEF IInv
<1>1. /\ Readable(s) /\ Arrives(s) /\ end[s] = "none"
      /\ (q.out = "Some" /\ Publishes(s, q)) \/ (q.out = "None" /\ Continues(s, q))
      /\ header' = header /\ taken' = taken /\ end' = end /\ asked' = asked
  BY <1>b DEF ReadByte, Readable, Selecting, Running
<1>2. ReadDone(header[t], header[s], Bodies[t], taken[t], received[s], stream[t], output[t],
               end[t], q, j)
  BY <1>1, <1>a, <1>b, ReadIs
<1>3. /\ Sent' = Sent /\ State' = State /\ Compatible' = Compatible /\ State[s] = "open"
      /\ asked' = asked
  BY <1>0, <1>1, StateOfEnd, ViewsKept
<1>4. CASE q.out = "None"
  <2>1. received' = received
    BY <1>1, <1>4 DEF Continues
  <2> QED BY <1>3, <2>1 DEF Views
<1>5. CASE q.out = "Some"
  <2>1. /\ header[s] = header[t] /\ j \in 1..taken[t] /\ taken[t] \in 0..Len(Bodies[t])
        /\ q.body = Bodies[t][j]
    BY <1>2, <1>5 DEF ReadDone
  <2>2. Compatible
    <3>1. header[s] = header[Peer(s)]
      BY <1>a, <2>1
    <3>2. /\ s = "master" \/ s = "worker"
          /\ Peer("master") = "worker" /\ Peer("worker") = "master"
      <4>1. \A u \in Side : u = "master" \/ u = "worker"
        BY DEF Side
      <4>2. "master" \in Side /\ "worker" \in Side
        BY DEF Side
      <4>3. Peer("master") \in Side /\ Peer("master") # "master"
        BY <4>2, Peers
      <4>4. Peer("worker") \in Side /\ Peer("worker") # "worker"
        BY <4>2, Peers
      <4> QED BY <4>1, <4>3, <4>4
    <3> QED BY <3>1, <3>2 DEF Compatible
  <2>3. /\ Sent[t] = SubSeq(Bodies[t], 1, taken[t]) /\ Len(Sent[t]) = taken[t]
        /\ Sent[t][j] = Bodies[t][j] /\ Len(received[s]) < taken[t] /\ j = Len(received[s]) + 1
    <3>a. PICK all, n, l : all = Bodies[t] /\ n = taken[t] /\ l = Len(received[s])
      OBVIOUS
    <3>1. all \in Seq(Content) /\ Len(all) \in Nat
      <4>1. all \in Seq(Content)
        BY <1>0, <3>a, VersionsOfSides DEF TypeOK
      <4> QED BY <4>1
    <3>2. n \in Nat /\ n <= Len(all) /\ j \in 1..n /\ l \in Nat /\ j = l + 1
      <4>1. received[s] \in Seq(Seq(Byte))
        BY <1>0 DEF TypeOK
      <4>2. l \in Nat
        BY <3>a, <4>1
      <4> QED BY <1>b, <2>1, <3>1, <3>a, <4>2
    <3>3. SubSeq(all, 1, n) \in Seq(Content) /\ Len(SubSeq(all, 1, n)) = n
          /\ SubSeq(all, 1, n)[j] = all[j]
      BY <3>1, <3>2
    <3>4. l < n
      BY <3>2
    <3>5. Sent[t] = SubSeq(all, 1, n)
      BY <3>a DEF Sent
    <3> QED BY <3>2, <3>3, <3>4, <3>5, <3>a
  <2>4. Len(received[Peer(Peer(s))]) < Len(Sent[Peer(s)])
    BY <1>a, <2>3
  <2>5. received' = [received EXCEPT ![s] = Append(@, Sent[Peer(s)][Len(@) + 1])]
    <3>1. received' = [received EXCEPT ![s] = Append(@, Sent[t][j])]
      BY <1>1, <1>5, <2>1, <2>3 DEF Publishes
    <3> QED BY <1>a, <1>b, <3>1
  <2> QED BY <1>3, <2>2, <2>4, <2>5, LinkSteps
<1> QED BY <1>1, <1>4, <1>5

LEMMA LinkCloses ==
  ASSUME IInv, NEW s \in Side,
         \/ CancelTask(s) \/ Disconnects(s) \/ ReadInvalidByte(s) \/ ReadFails(s)
         \/ WriteFails(s) \/ Dies(s)
  PROVE  Link!Next
<1>a. PICK t \in Side : t = Peer(s) /\ s = Peer(t)
  BY Peers
<1>0. TypeOK /\ Intact(s)
  BY DEF IInv
<1>1. ASSUME NEW how \in Announced \cup Silent, Closed(s, how), end[s] = "none",
             NEW view, view = IF how \in Announced THEN "announced"
                              ELSE IF how = "writeFailed" THEN "failed" ELSE "stopped",
             \/ view = "announced" /\ (s \in asked \/ State[t] # "open" \/ ~Compatible)
             \/ view = "stopped"
             \/ view = "failed" /\ State[t] # "open" /\ Len(received[t]) < Len(Sent[s])
      PROVE  Link!Next
  <2>1. /\ end' = [end EXCEPT ![s] = how] /\ taken' = taken /\ header' = header
        /\ received' = received /\ asked' = asked
    BY <1>1 DEF Closed
  <2>2. State[s] = "open" /\ State' = [State EXCEPT ![s] = view]
    BY <1>0, <1>1, <2>1, StateOfEnd
  <2>3. Sent' = Sent /\ Compatible' = Compatible
    BY <2>1, ViewsKept
  <2>4. \/ view = "announced" /\ (s \in asked \/ State[Peer(s)] # "open" \/ ~Compatible)
        \/ view = "stopped"
        \/ view = "failed" /\ State[Peer(s)] # "open" /\ Len(received[Peer(s)]) < Len(Sent[s])
    BY <1>1, <1>a
  <2> QED BY <2>1, <2>2, <2>3, <2>4, LinkEnds
<1>b. /\ {"readError", "disconnected", "invalidByte"} = Announced
      /\ {"cancelled", "killed", "writeFailed"} = Silent
      /\ \A how \in Silent : how \notin Announced
  BY DEF Announced, Silent
<1>2. CASE CancelTask(s)
  <2>1. Closed(s, "cancelled") /\ end[s] = "none"
    BY <1>0, <1>2, EndsClose DEF CancelTask, Selecting, Running
  <2> QED BY <1>1, <1>b, <2>1
<1>3. CASE Dies(s)
  <2>1. Closed(s, "killed") /\ end[s] = "none"
    BY <1>0, <1>3, EndsClose DEF Dies, Running
  <2> QED BY <1>1, <1>b, <2>1
<1>4. CASE Disconnects(s)
  <2>1. Closed(s, "disconnected") /\ end[s] = "none" /\ s \in asked
    BY <1>0, <1>4, EndsClose DEF Disconnects, Selecting, Running
  <2> QED BY <1>1, <1>b, <2>1
<1>5. CASE ReadFails(s)
  <2>1. Closed(s, "readError") /\ end[s] = "none" /\ end[t] # "none"
    BY <1>0, <1>5, <1>a, EndsClose DEF ReadFails, Readable, Selecting, Running
  <2>2. State[t] # "open"
    BY <1>0, <2>1, StateOfEnd
  <2> QED BY <1>1, <1>b, <2>1, <2>2
<1>6. CASE ReadInvalidByte(s)
  <2>1. Closed(s, "invalidByte") /\ Readable(s) /\ Arrives(s) /\ end[s] = "none"
    BY <1>0, <1>6, EndsClose DEF ReadInvalidByte, Readable, Selecting, Running
  <2>a. PICK q, j : q = Parsed(s) /\ j = Len(received[s]) + 1
    OBVIOUS
  <2>2. q.out = "Err"
    BY <1>6, <2>a DEF ReadInvalidByte
  <2>3. ReadDone(header[t], header[s], Bodies[t], taken[t], received[s], stream[t], output[t],
                 end[t], q, j)
    BY <1>a, <2>1, <2>a, ReadIs
  <2>4. header[s] # header[t]
    BY <2>2, <2>3 DEF ReadDone
  <2>5. ~Compatible
    BY <2>4 DEF Compatible, Side
  <2> QED BY <1>1, <1>b, <2>1, <2>5
<1>7. CASE WriteFails(s)
  <2>1. /\ Closed(s, "writeFailed") /\ end[s] = "none" /\ end[t] # "none" /\ output[s] # <<>>
    BY <1>0, <1>7, <1>a, EndsClose DEF WriteFails, Writing, Running
  <2>2. State[t] # "open"
    BY <1>0, <2>1, StateOfEnd
  <2>3. Len(received[t]) < taken[s] /\ taken[s] \in 0..Len(Bodies[s])
    BY <1>0, <1>a, <2>1 DEF Intact, Direction, Handed
  <2>4. Len(Sent[s]) = taken[s]
    <3>a. PICK all, n : all = Bodies[s] /\ n = taken[s]
      OBVIOUS
    <3>1. all \in Seq(Content) /\ n \in 0..Len(all)
      BY <1>0, <2>3, <3>a, VersionsOfSides DEF TypeOK
    <3>2. Len(SubSeq(all, 1, n)) = n
      <4>1. Len(all) \in Nat
        BY <3>1
      <4> QED BY <3>1, <4>1
    <3>3. Sent[s] = SubSeq(all, 1, n)
      BY <3>a DEF Sent
    <3> QED BY <3>2, <3>3, <3>a
  <2> QED BY <1>1, <1>b, <2>1, <2>2, <2>3, <2>4
<1> QED BY <1>2, <1>3, <1>4, <1>5, <1>6, <1>7

LEMMA LinkStep ==
  ASSUME IInv, [Next]_vars
  PROVE  [Link!Next]_(Link!vars)
<1>a. (UNCHANGED Link!vars) <=> (UNCHANGED Views)
  BY DEF Link!vars, Views, Sent, State, Compatible
<1>1. CASE UNCHANGED <<taken, received, end, asked, header>>
  <2>1. Sent' = Sent /\ State' = State /\ Compatible' = Compatible
    BY <1>1, ViewsKept
  <2>2. UNCHANGED Views
    BY <1>1, <2>1 DEF Views
  <2> QED BY <1>a, <2>2
<1>2. ASSUME NEW s \in Side,
             \/ CancelTask(s) \/ Disconnects(s) \/ Takes(s)
             \/ ReadByte(s) \/ ReadInvalidByte(s) \/ ReadFails(s)
             \/ WriteByte(s) \/ WriteDiscarded(s) \/ WriteFails(s)
             \/ Cancel(s) \/ Ask(s) \/ Dies(s)
      PROVE  Link!Next \/ UNCHANGED Views \/ UNCHANGED <<taken, received, end, asked, header>>
  <2>1. CASE \/ CancelTask(s) \/ Disconnects(s) \/ ReadInvalidByte(s) \/ ReadFails(s)
             \/ WriteFails(s) \/ Dies(s)
    BY <2>1, LinkCloses
  <2>2. CASE Takes(s)
    BY <2>2, LinkTakes
  <2>3. CASE ReadByte(s)
    BY <2>3, LinkReads
  <2>4. CASE WriteByte(s) \/ WriteDiscarded(s) \/ Cancel(s)
    BY <2>4 DEF WriteByte, WriteDiscarded, Cancel
  <2>5. CASE Ask(s)
    <3>1. /\ asked' = asked \cup {s} /\ taken' = taken /\ received' = received /\ end' = end
          /\ header' = header
      BY <2>5 DEF Ask
    <3>2. Sent' = Sent /\ State' = State /\ Compatible' = Compatible
      BY <3>1, ViewsKept
    <3> QED BY <3>1, <3>2, LinkSteps
  <2> QED BY <1>2, <2>1, <2>2, <2>3, <2>4, <2>5
<1>3. CASE UNCHANGED vars
  BY <1>1, <1>3 DEF vars
<1> QED BY <1>1, <1>2, <1>3, <1>a DEF Next

(* The two tasks, with the parser and the framing in between, are the link  *)
(* that the two programs rely on (run_on_socket and                         *)
(* send_new_packet_on_event of rlpg/src/tcp.rs): packets arrive whole, in   *)
(* order and once, and every end of the connection has a reason - whatever  *)
(* the bodies hold, however the bytes are cut up, and whoever ends when.    *)
THEOREM ImplementsLink == Spec => LinkSpec
<1>1. Spec => []IInv
  BY Inits, Steps, PTL DEF Spec
<1>2. Init => Link!Init
  BY LinkInit
<1>3. IInv /\ [Next]_vars => [Link!Next]_(Link!vars)
  BY LinkStep
<1> QED BY <1>1, <1>2, <1>3, PTL DEF Spec, LinkSpec, Link!Spec
===============================================================================
