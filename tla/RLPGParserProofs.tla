------------------------- MODULE RLPGParserProofs -------------------------
(***************************************************************************)
(* What RLPGParser promises, for any version, base, largest length and      *)
(* stream: the parser's two uses against the grammar of frames.             *)
(***************************************************************************)
EXTENDS RLPGParser, SequenceTheorems, WellFoundedInduction, TLAPS

(***************************************************************************)
(* Numbers and sequences.                                                   *)
(***************************************************************************)
Less == {pair \in Nat \X Nat : pair[1] < pair[2]}

LEMMA LeastIsThere ==
  ASSUME NEW S, S \subseteq Nat, S # {}
  PROVE  \E m \in S : \A b \in S : m <= b
<1>1. IsWellFoundedOn(Less, Nat)
  BY NatLessThanWellFounded DEF OpToRel, Less
<1>2. PICK m \in S : \A b \in S : ~ (<<b, m>> \in Less)
  BY <1>1, WFMin, Zenon
<1>3. \A b \in S : m <= b
  <2> SUFFICES ASSUME NEW b \in S, b < m PROVE FALSE
    OBVIOUS
  <2>1. <<b, m>> \in Nat \X Nat /\ <<b, m>>[1] = b /\ <<b, m>>[2] = m
    OBVIOUS
  <2>2. <<b, m>> \in Less
    BY <2>1, Zenon DEF Less
  <2> QED BY <1>2, <2>2
<1> QED BY <1>3

LEMMA MinIsLeast ==
  ASSUME NEW S, S \subseteq Nat, S # {}
  PROVE  Min(S) \in S /\ \A b \in S : Min(S) <= b
<1>1. \E m \in S : \A b \in S : m <= b
  BY LeastIsThere
<1> QED BY <1>1 DEF Min

LEMMA MinOfTwo ==
  ASSUME NEW a \in Nat, NEW b \in Nat
  PROVE  Min({a, b}) = IF a <= b THEN a ELSE b
<1>1. {a, b} \subseteq Nat /\ {a, b} # {}
  OBVIOUS
<1>2. Min({a, b}) \in {a, b} /\ Min({a, b}) <= a /\ Min({a, b}) <= b
  BY <1>1, MinIsLeast
<1> QED BY <1>2

LEMMA ConstantTypes ==
  /\ Radix \in Nat /\ Radix > 1 /\ UsizeMax \in Nat
  /\ Digits \subseteq Nat /\ Digits \subseteq Byte /\ Byte \subseteq Nat
  /\ LF \in Byte /\ LF \notin Digits /\ LF \in Nat
  /\ Header \in Seq(Byte) /\ Len(Header) \in Nat /\ Len(Header) > 0
  /\ 0 \in 0..UsizeMax
  BY DecoderAssumption, ParserAssumption DEF Digits

LEMMA PieceOf ==
  ASSUME NEW S, NEW s \in Seq(S), NEW m \in Nat, m > 0, NEW n \in Nat, n <= Len(s)
  PROVE  /\ SubSeq(s, m, n) \in Seq(S)
         /\ Len(SubSeq(s, m, n)) = IF m <= n THEN n - m + 1 ELSE 0
         /\ \A i \in 1..(n - m + 1) : SubSeq(s, m, n)[i] = s[m + i - 1]
  OBVIOUS

LEMMA SameSeq ==
  ASSUME NEW S, NEW s \in Seq(S), NEW t \in Seq(S),
         Len(s) = Len(t), \A i \in 1..Len(s) : s[i] = t[i]
  PROVE  s = t
  OBVIOUS

(* A piece of the first n elements is a piece of the whole.                 *)
LEMMA PieceOfPiece ==
  ASSUME NEW S, NEW s \in Seq(S), NEW n \in 0..Len(s),
         NEW a \in Nat, a > 0, NEW b \in Nat, b <= n
  PROVE  SubSeq(SubSeq(s, 1, n), a, b) = SubSeq(s, a, b)
<1> DEFINE t == SubSeq(s, 1, n)
<1>1. t \in Seq(S) /\ Len(t) = n /\ \A i \in 1..n : t[i] = s[i]
  BY PieceOf
<1> HIDE DEF t
<1>2. /\ SubSeq(t, a, b) \in Seq(S) /\ SubSeq(s, a, b) \in Seq(S)
      /\ Len(SubSeq(t, a, b)) = Len(SubSeq(s, a, b))
      /\ \A i \in 1..(b - a + 1) : SubSeq(t, a, b)[i] = t[a + i - 1]
      /\ \A i \in 1..(b - a + 1) : SubSeq(s, a, b)[i] = s[a + i - 1]
      /\ Len(SubSeq(s, a, b)) = IF a <= b THEN b - a + 1 ELSE 0
  BY <1>1, PieceOf
<1>3. \A i \in 1..Len(SubSeq(t, a, b)) : SubSeq(t, a, b)[i] = SubSeq(s, a, b)[i]
  BY <1>1, <1>2
<1>4. SubSeq(t, a, b) = SubSeq(s, a, b)
  BY <1>2, <1>3, SameSeq
<1> QED BY <1>4 DEF t

-------------------------------------------------------------------------------
(***************************************************************************)
(* The value of a numeral is a number.                                      *)
(***************************************************************************)
Values(ds, n) == CHOOSE v : v = [i \in 0..n |-> IF i = 0 THEN 0 ELSE Radix * v[i - 1] + ds[i]]

AreValues(v, ds, n) == v = [i \in 0..n |-> IF i = 0 THEN 0 ELSE Radix * v[i - 1] + ds[i]]

LEMMA ValuesExist ==
  ASSUME NEW ds \in Seq(Nat), NEW n \in 0..Len(ds)
  PROVE  \E v : AreValues(v, ds, n)
<1> DEFINE Without == {m \in 0..Len(ds) : ~ \E v : AreValues(v, ds, m)}
<1>1. SUFFICES ASSUME Without # {} PROVE FALSE
  OBVIOUS
<1>2. PICK m \in Without : \A b \in Without : m <= b
  <2>1. Without \subseteq Nat
    OBVIOUS
  <2> QED BY <1>1, <2>1, LeastIsThere
<1>3. m \in 0..Len(ds)
  BY <1>2
<1>4. CASE m = 0
  <2> DEFINE v == [i \in 0..0 |-> 0]
  <2>1. AreValues(v, ds, 0)
    BY DEF AreValues
  <2> QED BY <1>4, <2>1, <1>2
<1>5. CASE m # 0
  <2>1. m - 1 \in 0..Len(ds) /\ m - 1 \notin Without
    BY <1>2, <1>3, <1>5
  <2>2. PICK w : AreValues(w, ds, m - 1)
    BY <2>1
  <2> DEFINE v == [i \in 0..m |-> IF i = m THEN Radix * w[m - 1] + ds[m] ELSE w[i]]
  <2>3. \A i \in 0..m : v[i] = IF i = 0 THEN 0 ELSE Radix * v[i - 1] + ds[i]
    <3>1. \A i \in 0..(m - 1) : w[i] = IF i = 0 THEN 0 ELSE Radix * w[i - 1] + ds[i]
      BY <2>2, <1>3, <1>5 DEF AreValues
    <3>2. \A i \in 0..(m - 1) : v[i] = w[i]
      BY <1>3, <1>5
    <3>3. v[m] = Radix * w[m - 1] + ds[m]
      BY <1>3, <1>5
    <3> HIDE DEF v
    <3> SUFFICES ASSUME NEW i \in 0..m
                 PROVE  v[i] = IF i = 0 THEN 0 ELSE Radix * v[i - 1] + ds[i]
      OBVIOUS
    <3>4. CASE i = m
      <4>1. m - 1 \in 0..(m - 1) /\ v[m - 1] = w[m - 1]
        BY <1>3, <1>5, <3>2
      <4> QED BY <3>3, <4>1, <3>4, <1>5
    <3>5. CASE i # m /\ i = 0
      BY <3>1, <3>2, <3>5, <1>3, <1>5
    <3>6. CASE i # m /\ i # 0
      <4>1. i \in 0..(m - 1) /\ i - 1 \in 0..(m - 1)
        BY <3>6, <1>3
      <4> QED BY <3>1, <3>2, <3>6, <4>1
    <3> QED BY <3>4, <3>5, <3>6
  <2>4. AreValues(v, ds, m)
    <3>1. v = [i \in 0..m |-> v[i]]
      OBVIOUS
    <3> HIDE DEF v
    <3> QED BY <3>1, <2>3, Zenon DEF AreValues
  <2> QED BY <2>4, <1>2
<1> QED BY <1>4, <1>5

LEMMA ValueIsNat ==
  ASSUME NEW ds \in Seq(Digits)
  PROVE  Value(ds) \in Nat
<1>0. ds \in Seq(Nat) /\ Len(ds) \in Nat
  BY ConstantTypes, SeqMonotonic, LenProperties
<1> DEFINE v == Values(ds, Len(ds))
<1>1. AreValues(v, ds, Len(ds))
  <2>1. \E w : AreValues(w, ds, Len(ds))
    BY ValuesExist, <1>0
  <2> QED BY <2>1, Zenon DEF Values, AreValues
<1>2. Value(ds) = v[Len(ds)]
  BY DEF Value, Values
<1> HIDE DEF v
<1>3. \A i \in 0..Len(ds) : v[i] = IF i = 0 THEN 0 ELSE Radix * v[i - 1] + ds[i]
  BY <1>1, Zenon DEF AreValues
<1> DEFINE Odd == {m \in 0..Len(ds) : v[m] \notin Nat}
<1>4. SUFFICES ASSUME Odd # {} PROVE FALSE
  BY <1>2, <1>0
<1>5. PICK m \in Odd : \A b \in Odd : m <= b
  <2>1. Odd \subseteq Nat
    OBVIOUS
  <2> QED BY <1>4, <2>1, LeastIsThere
<1>6. m # 0 /\ m \in 0..Len(ds) /\ m - 1 \in 0..Len(ds) /\ m - 1 \notin Odd
  BY <1>3, <1>5
<1>7. v[m - 1] \in Nat /\ ds[m] \in Nat /\ v[m] = Radix * v[m - 1] + ds[m]
  BY <1>6, <1>3, <1>0
<1>8. Radix * v[m - 1] + ds[m] \in Nat
  BY <1>7, ConstantTypes
<1> QED BY <1>5, <1>7, <1>8

-------------------------------------------------------------------------------
(***************************************************************************)
(* The grammar, position by position: where the length of s ends, if it is  *)
(* a header, a numeral, two newlines and more.                              *)
(***************************************************************************)
HeaderIn(s) ==
  Len(Header) <= Len(s) /\ \A i \in 1..Len(Header) : s[i] = Header[i]

DigitsTo(s, k) == \A i \in (Len(Header) + 1)..k : s[i] \in Digits

NumeralTo(s, k) == SubSeq(s, Len(Header) + 1, k)

SplitsAt(s, k) ==
  /\ k \in Len(Header)..(Len(s) - 2)
  /\ HeaderIn(s) /\ DigitsTo(s, k)
  /\ s[k + 1] = LF /\ s[k + 2] = LF
  /\ Parses(NumeralTo(s, k))

LEMMA NumeralType ==
  ASSUME NEW s \in Seq(Byte), NEW k \in Len(Header)..Len(s)
  PROVE  /\ NumeralTo(s, k) \in Seq(Byte)
         /\ Len(NumeralTo(s, k)) = k - Len(Header)
         /\ \A i \in 1..(k - Len(Header)) : NumeralTo(s, k)[i] = s[Len(Header) + i]
         /\ IsDigits(NumeralTo(s, k)) <=> DigitsTo(s, k)
         /\ DigitsTo(s, k) => NumeralTo(s, k) \in Seq(Digits)
<1>0. Len(s) \in Nat /\ k \in Nat /\ Len(Header) \in Nat /\ Len(Header) <= k /\ k <= Len(s)
  BY ConstantTypes
<1> DEFINE n == NumeralTo(s, k)
<1>1. /\ n \in Seq(Byte) /\ Len(n) = k - Len(Header)
      /\ \A i \in 1..(k - Len(Header)) : n[i] = s[Len(Header) + i]
  <2>1. /\ n \in Seq(Byte)
        /\ Len(n) = IF Len(Header) + 1 <= k THEN k - (Len(Header) + 1) + 1 ELSE 0
        /\ \A i \in 1..(k - (Len(Header) + 1) + 1) : n[i] = s[Len(Header) + 1 + i - 1]
    BY <1>0, PieceOf DEF NumeralTo
  <2> HIDE DEF n
  <2> QED BY <1>0, <2>1
<1> HIDE DEF n
<1>2. DOMAIN n = 1..(k - Len(Header))
  BY <1>1, <1>0
<1>3. IsDigits(n) => DigitsTo(s, k)
  <2> SUFFICES ASSUME IsDigits(n), NEW i \in (Len(Header) + 1)..k PROVE s[i] \in Digits
    BY DEF DigitsTo
  <2>1. i - Len(Header) \in 1..(k - Len(Header)) /\ Len(Header) + (i - Len(Header)) = i
    BY <1>0
  <2> QED BY <1>1, <1>2, <2>1 DEF IsDigits
<1>4. DigitsTo(s, k) => IsDigits(n)
  <2> SUFFICES ASSUME DigitsTo(s, k), NEW i \in 1..(k - Len(Header)) PROVE n[i] \in Digits
    BY <1>2 DEF IsDigits
  <2>1. Len(Header) + i \in (Len(Header) + 1)..k
    BY <1>0
  <2> QED BY <1>1, <2>1 DEF DigitsTo
<1>5. IsDigits(n) => n \in Seq(Digits)
  BY <1>1, <1>2, <1>0 DEF IsDigits
<1> QED BY <1>1, <1>3, <1>4, <1>5 DEF n

LEMMA SuffixType ==
  ASSUME NEW s \in Seq(Byte), NEW n \in 0..Len(s)
  PROVE  /\ Suffix(s, n) \in Seq(Byte) /\ Len(Suffix(s, n)) = Len(s) - n
         /\ \A i \in 1..(Len(s) - n) : Suffix(s, n)[i] = s[n + i]
<1>0. Len(s) \in Nat /\ n \in Nat /\ n <= Len(s)
  OBVIOUS
<1> DEFINE t == Suffix(s, n)
<1>1. /\ t \in Seq(Byte)
      /\ Len(t) = IF n + 1 <= Len(s) THEN Len(s) - (n + 1) + 1 ELSE 0
      /\ \A i \in 1..(Len(s) - (n + 1) + 1) : t[i] = s[n + 1 + i - 1]
  BY <1>0, PieceOf DEF Suffix
<1> HIDE DEF t
<1>2. /\ t \in Seq(Byte) /\ Len(t) = Len(s) - n
      /\ \A i \in 1..(Len(s) - n) : t[i] = s[n + i]
  BY <1>0, <1>1
<1> QED BY <1>2 DEF t

LEMMA Concat ==
  ASSUME NEW a \in Seq(Byte), NEW b \in Seq(Byte)
  PROVE  /\ a \o b \in Seq(Byte) /\ Len(a \o b) = Len(a) + Len(b)
         /\ \A i \in 1..Len(a) : (a \o b)[i] = a[i]
         /\ \A i \in 1..Len(b) : (a \o b)[Len(a) + i] = b[i]
<1>1. PICK c : c = a \o b
  OBVIOUS
<1>2. /\ c \in Seq(Byte) /\ Len(c) = Len(a) + Len(b)
      /\ \A i \in 1..(Len(a) + Len(b)) : c[i] = IF i <= Len(a) THEN a[i] ELSE b[i - Len(a)]
  BY <1>1, ConcatProperties
<1>3. Len(a) \in Nat /\ Len(b) \in Nat
  OBVIOUS
<1>4. \A i \in 1..Len(a) : c[i] = a[i]
  BY <1>2, <1>3
<1>5. \A i \in 1..Len(b) : c[Len(a) + i] = b[i]
  <2> SUFFICES ASSUME NEW i \in 1..Len(b) PROVE c[Len(a) + i] = b[i]
    OBVIOUS
  <2>1. /\ Len(a) + i \in 1..(Len(a) + Len(b)) /\ ~ (Len(a) + i <= Len(a))
        /\ Len(a) + i - Len(a) = i
    BY <1>3
  <2> QED BY <1>2, <2>1
<1> QED BY <1>1, <1>2, <1>4, <1>5

(* The four parts of a frame, put together.                                 *)
Join(a, rest) == Header \o a \o <<LF, LF>> \o rest

LEMMA Joined ==
  ASSUME NEW a \in Seq(Byte), NEW rest \in Seq(Byte)
  PROVE  LET t == Join(a, rest)
             n == Len(Header) + Len(a)
         IN  /\ t \in Seq(Byte) /\ Len(t) = n + 2 + Len(rest)
             /\ \A i \in 1..Len(Header) : t[i] = Header[i]
             /\ \A i \in 1..Len(a) : t[Len(Header) + i] = a[i]
             /\ t[n + 1] = LF /\ t[n + 2] = LF
             /\ \A i \in 1..Len(rest) : t[n + 2 + i] = rest[i]
<1> PICK n : n = Len(Header) + Len(a)
  OBVIOUS
<1>0. /\ Header \in Seq(Byte) /\ <<LF, LF>> \in Seq(Byte) /\ Len(<<LF, LF>>) = 2
      /\ <<LF, LF>>[1] = LF /\ <<LF, LF>>[2] = LF
      /\ Len(Header) \in Nat /\ Len(a) \in Nat /\ Len(rest) \in Nat
      /\ n \in Nat /\ n + 2 \in Nat
  BY ConstantTypes
<1> DEFINE u == Header \o a
           v == u \o <<LF, LF>>
           t == v \o rest
<1>1. t = Join(a, rest)
  BY DEF Join
<1>4. /\ u \in Seq(Byte) /\ Len(u) = n
      /\ \A i \in 1..Len(Header) : u[i] = Header[i]
      /\ \A i \in 1..Len(a) : u[Len(Header) + i] = a[i]
  BY <1>0, Concat
<1> HIDE DEF u
<1>5. /\ v \in Seq(Byte) /\ Len(v) = n + 2
      /\ \A i \in 1..n : v[i] = u[i]
      /\ v[n + 1] = LF /\ v[n + 2] = LF
  <2>1. /\ v \in Seq(Byte) /\ Len(v) = Len(u) + Len(<<LF, LF>>)
        /\ \A i \in 1..Len(u) : v[i] = u[i]
        /\ \A i \in 1..Len(<<LF, LF>>) : v[Len(u) + i] = <<LF, LF>>[i]
    BY <1>0, <1>4, Concat
  <2> HIDE DEF v
  <2> QED BY <2>1, <1>0, <1>4
<1> HIDE DEF v
<1>6. /\ t \in Seq(Byte) /\ Len(t) = n + 2 + Len(rest)
      /\ \A i \in 1..(n + 2) : t[i] = v[i]
      /\ \A i \in 1..Len(rest) : t[n + 2 + i] = rest[i]
  <2>1. /\ t \in Seq(Byte) /\ Len(t) = Len(v) + Len(rest)
        /\ \A i \in 1..Len(v) : t[i] = v[i]
        /\ \A i \in 1..Len(rest) : t[Len(v) + i] = rest[i]
    BY <1>5, Concat
  <2> HIDE DEF t
  <2> QED BY <2>1, <1>0, <1>5
<1> HIDE DEF t
<1>7. \A i \in 1..Len(a) : Len(Header) + i \in 1..n
  BY <1>0
<1>8. \A i \in 1..Len(Header) : i \in 1..n
  BY <1>0
<1>9. /\ \A i \in 1..n : t[i] = u[i]
      /\ t[n + 1] = v[n + 1] /\ t[n + 2] = v[n + 2]
  BY <1>0, <1>5, <1>6
<1>10. /\ \A i \in 1..Len(Header) : t[i] = Header[i]
       /\ \A i \in 1..Len(a) : t[Len(Header) + i] = a[i]
  BY <1>4, <1>7, <1>8, <1>9
<1> QED BY <1>1, <1>5, <1>6, <1>9, <1>10

LEMMA SuffixBeyond ==
  ASSUME NEW s \in Seq(Byte), NEW n \in Nat, n > Len(s)
  PROVE  Suffix(s, n) \in Seq(Byte) /\ Len(Suffix(s, n)) = 0
  BY PieceOf DEF Suffix

(* A split of s is a position of s.                                         *)
LEMMA SplitsHere ==
  ASSUME NEW s \in Seq(Byte), NEW k \in Len(Header)..Len(s)
  PROVE  IsDigits(NumeralTo(s, k)) /\ Parses(NumeralTo(s, k))
           /\ Splits(s, NumeralTo(s, k), Suffix(s, k + 2)) <=> SplitsAt(s, k)
<1>0. /\ Len(Header) \in Nat /\ Len(s) \in Nat /\ k \in Nat
      /\ Len(Header) <= k /\ k <= Len(s)
  BY ConstantTypes
<1> DEFINE a == NumeralTo(s, k)
           rest == Suffix(s, k + 2)
<1>1. /\ a \in Seq(Byte) /\ Len(a) = k - Len(Header) /\ k = Len(Header) + Len(a)
      /\ \A i \in 1..Len(a) : a[i] = s[Len(Header) + i]
      /\ IsDigits(a) <=> DigitsTo(s, k)
  <2>1. /\ a \in Seq(Byte) /\ Len(a) = k - Len(Header)
        /\ \A i \in 1..(k - Len(Header)) : a[i] = s[Len(Header) + i]
        /\ IsDigits(a) <=> DigitsTo(s, k)
    BY NumeralType
  <2> HIDE DEF a
  <2> QED BY <2>1, <1>0
<1>2. rest \in Seq(Byte) /\ Len(rest) \in Nat
  <2>1. CASE k + 2 <= Len(s)
    BY <2>1, <1>0, SuffixType
  <2>2. CASE k + 2 > Len(s)
    BY <2>2, <1>0, SuffixBeyond
  <2> QED BY <2>1, <2>2, <1>0
<1>3. Splits(s, a, rest) <=> s = Join(a, rest)
  BY DEF Splits, Join
<1> HIDE DEF a
<1>4. /\ Join(a, rest) \in Seq(Byte) /\ Len(Join(a, rest)) = k + 2 + Len(rest)
      /\ \A i \in 1..Len(Header) : Join(a, rest)[i] = Header[i]
      /\ \A i \in 1..Len(a) : Join(a, rest)[Len(Header) + i] = a[i]
      /\ Join(a, rest)[k + 1] = LF /\ Join(a, rest)[k + 2] = LF
      /\ \A i \in 1..Len(rest) : Join(a, rest)[k + 2 + i] = rest[i]
  <2> HIDE DEF rest
  <2>1. a \in Seq(Byte) /\ rest \in Seq(Byte)
    BY <1>1, <1>2
  <2> DEFINE t == Join(a, rest)
             n == Len(Header) + Len(a)
  <2>2. /\ t \in Seq(Byte) /\ Len(t) = n + 2 + Len(rest)
        /\ \A i \in 1..Len(Header) : t[i] = Header[i]
        /\ \A i \in 1..Len(a) : t[Len(Header) + i] = a[i]
        /\ t[n + 1] = LF /\ t[n + 2] = LF
        /\ \A i \in 1..Len(rest) : t[n + 2 + i] = rest[i]
    BY <2>1, Joined, Zenon
  <2>3. n = k
    BY <1>1
  <2> QED BY <2>2, <2>3
<1>5. ASSUME Splits(s, a, rest) PROVE k \in Len(Header)..(Len(s) - 2) /\ HeaderIn(s)
                                      /\ s[k + 1] = LF /\ s[k + 2] = LF
  <2> HIDE DEF rest
  <2>1. Len(s) = k + 2 + Len(rest)
    BY <1>3, <1>4, <1>5
  <2> QED BY <1>0, <1>2, <1>3, <1>4, <1>5, <2>1 DEF HeaderIn
<1>6. ASSUME k \in Len(Header)..(Len(s) - 2), HeaderIn(s), s[k + 1] = LF, s[k + 2] = LF
      PROVE  Splits(s, a, rest)
  <2>1. Len(rest) = Len(s) - (k + 2) /\ \A i \in 1..(Len(s) - (k + 2)) : rest[i] = s[k + 2 + i]
    <3>1. k + 2 \in 0..Len(s)
      BY <1>0, <1>6
    <3> QED BY <3>1, SuffixType
  <2> HIDE DEF rest
  <2>2. Len(Join(a, rest)) = Len(s)
    BY <1>0, <1>4, <2>1
  <2>3. ASSUME NEW i \in 1..Len(s) PROVE s[i] = Join(a, rest)[i]
    <3>1. CASE i <= Len(Header)
      BY <3>1, <1>4, <1>6, <1>0 DEF HeaderIn
    <3>2. CASE Len(Header) < i /\ i <= k
      <4>1. i - Len(Header) \in 1..Len(a) /\ Len(Header) + (i - Len(Header)) = i
        BY <3>2, <1>0, <1>1
      <4> QED BY <4>1, <1>1, <1>4
    <3>3. CASE i = k + 1 \/ i = k + 2
      BY <3>3, <1>4, <1>6
    <3>4. CASE k + 2 < i
      <4>1. i - (k + 2) \in 1..Len(rest) /\ k + 2 + (i - (k + 2)) = i
        BY <3>4, <1>0, <2>1
      <4> QED BY <4>1, <2>1, <1>4
    <3> QED BY <3>1, <3>2, <3>3, <3>4, <1>0
  <2>4. s = Join(a, rest)
    BY <2>2, <2>3, <1>4, SameSeq
  <2> QED BY <2>4, <1>3
<1> QED BY <1>1, <1>5, <1>6 DEF SplitsAt, a

LEMMA SplitSet ==
  ASSUME NEW s \in Seq(Byte), NEW split
  PROVE  split \in SplitsOf(s) <=>
           \E k \in Len(Header)..Len(s) :
             SplitsAt(s, k) /\ split = <<NumeralTo(s, k), Suffix(s, k + 2)>>
<1>1. split \in SplitsOf(s) <=>
        \E k \in Len(Header)..Len(s) :
          /\ split = <<NumeralTo(s, k), Suffix(s, k + 2)>>
          /\ IsDigits(split[1]) /\ Parses(split[1]) /\ Splits(s, split[1], split[2])
  BY DEF SplitsOf, NumeralTo
<1>2. \A k \in Len(Header)..Len(s) :
        IsDigits(NumeralTo(s, k)) /\ Parses(NumeralTo(s, k))
           /\ Splits(s, NumeralTo(s, k), Suffix(s, k + 2)) <=> SplitsAt(s, k)
  BY SplitsHere
<1>3. ASSUME split \in SplitsOf(s)
      PROVE  \E k \in Len(Header)..Len(s) :
               SplitsAt(s, k) /\ split = <<NumeralTo(s, k), Suffix(s, k + 2)>>
  <2>1. PICK k \in Len(Header)..Len(s) :
          /\ split = <<NumeralTo(s, k), Suffix(s, k + 2)>>
          /\ IsDigits(split[1]) /\ Parses(split[1]) /\ Splits(s, split[1], split[2])
    BY <1>1, <1>3
  <2>2. split[1] = NumeralTo(s, k) /\ split[2] = Suffix(s, k + 2)
    BY <2>1
  <2>3. SplitsAt(s, k)
    BY <1>2, <2>1, <2>2
  <2> QED BY <2>1, <2>3
<1>4. ASSUME NEW k \in Len(Header)..Len(s), SplitsAt(s, k),
             split = <<NumeralTo(s, k), Suffix(s, k + 2)>>
      PROVE  split \in SplitsOf(s)
  <2>1. split[1] = NumeralTo(s, k) /\ split[2] = Suffix(s, k + 2)
    BY <1>4
  <2>2. IsDigits(split[1]) /\ Parses(split[1]) /\ Splits(s, split[1], split[2])
    BY <1>2, <1>4, <2>1
  <2> QED BY <1>1, <1>4, <2>2
<1> QED BY <1>3, <1>4

LEMMA FrameIs ==
  ASSUME NEW s \in Seq(Byte), NEW body
  PROVE  IsFrame(s, body) <=>
           \E k \in Len(Header)..Len(s) :
             /\ SplitsAt(s, k) /\ body = Suffix(s, k + 2)
             /\ Len(body) = Value(NumeralTo(s, k))
<1>1. ASSUME IsFrame(s, body)
      PROVE  \E k \in Len(Header)..Len(s) :
               /\ SplitsAt(s, k) /\ body = Suffix(s, k + 2)
               /\ Len(body) = Value(NumeralTo(s, k))
  <2>1. PICK split \in SplitsOf(s) : split[2] = body /\ Len(body) = Value(split[1])
    BY <1>1 DEF IsFrame
  <2>2. PICK k \in Len(Header)..Len(s) :
          SplitsAt(s, k) /\ split = <<NumeralTo(s, k), Suffix(s, k + 2)>>
    BY <2>1, SplitSet
  <2>3. split[1] = NumeralTo(s, k) /\ split[2] = Suffix(s, k + 2)
    BY <2>2
  <2> QED BY <2>1, <2>2, <2>3
<1>2. ASSUME NEW k \in Len(Header)..Len(s), SplitsAt(s, k), body = Suffix(s, k + 2),
             Len(body) = Value(NumeralTo(s, k))
      PROVE  IsFrame(s, body)
  <2>1. PICK split : split = <<NumeralTo(s, k), Suffix(s, k + 2)>>
    OBVIOUS
  <2>2. split \in SplitsOf(s)
    BY <1>2, <2>1, SplitSet
  <2>3. split[1] = NumeralTo(s, k) /\ split[2] = Suffix(s, k + 2)
    BY <2>1
  <2> QED BY <1>2, <2>2, <2>3 DEF IsFrame
<1> QED BY <1>1, <1>2

-------------------------------------------------------------------------------
(***************************************************************************)
(* Where a stream of bytes can go on, and where it is wrong.                *)
(***************************************************************************)
(* The first n bytes of s.                                                  *)
Start(s, n) == SubSeq(s, 1, n)

LEMMA StartType ==
  ASSUME NEW s \in Seq(Byte), NEW n \in 0..Len(s)
  PROVE  /\ Start(s, n) \in Seq(Byte) /\ Len(Start(s, n)) = n
         /\ \A i \in 1..n : Start(s, n)[i] = s[i]
         /\ \A k \in Len(Header)..n : NumeralTo(Start(s, n), k) = NumeralTo(s, k)
<1>0. /\ Len(s) \in Nat /\ Len(Header) \in Nat /\ n \in Nat /\ n <= Len(s)
      /\ Len(Header) + 1 \in Nat /\ Len(Header) + 1 > 0
  BY ConstantTypes
<1>1. /\ Start(s, n) \in Seq(Byte) /\ Len(Start(s, n)) = IF 1 <= n THEN n - 1 + 1 ELSE 0
      /\ \A i \in 1..(n - 1 + 1) : Start(s, n)[i] = s[1 + i - 1]
  BY <1>0, PieceOf DEF Start
<1>2. ASSUME NEW k \in Len(Header)..n PROVE NumeralTo(Start(s, n), k) = NumeralTo(s, k)
  <2>1. k \in Nat /\ k <= n
    BY <1>0
  <2> QED BY <1>0, <2>1, PieceOfPiece DEF NumeralTo, Start
<1>3. Len(Start(s, n)) = n /\ \A i \in 1..n : Start(s, n)[i] = s[i]
  BY <1>0, <1>1
<1> QED BY <1>1, <1>2, <1>3

LEMMA SplitOfStart ==
  ASSUME NEW s \in Seq(Byte), NEW n \in 0..Len(s), NEW k \in Len(Header)..n,
         SplitsAt(Start(s, n), k)
  PROVE  SplitsAt(s, k) /\ k <= n - 2
<1>0. /\ Len(s) \in Nat /\ Len(Header) \in Nat /\ n \in Nat /\ n <= Len(s) /\ k \in Nat
  BY ConstantTypes
<1>1. /\ Len(Start(s, n)) = n /\ \A i \in 1..n : Start(s, n)[i] = s[i]
      /\ NumeralTo(Start(s, n), k) = NumeralTo(s, k)
  BY StartType
<1>2. /\ k \in Len(Header)..(n - 2)
      /\ \A i \in 1..Len(Header) : Start(s, n)[i] = Header[i]
      /\ \A i \in (Len(Header) + 1)..k : Start(s, n)[i] \in Digits
      /\ Start(s, n)[k + 1] = LF /\ Start(s, n)[k + 2] = LF
      /\ Parses(NumeralTo(s, k))
  BY <1>1 DEF SplitsAt, HeaderIn, DigitsTo
<1>3. HeaderIn(s)
  BY <1>0, <1>1, <1>2 DEF HeaderIn
<1>4. DigitsTo(s, k)
  BY <1>0, <1>1, <1>2 DEF DigitsTo
<1>5. s[k + 1] = LF /\ s[k + 2] = LF
  BY <1>0, <1>1, <1>2
<1> QED BY <1>0, <1>2, <1>3, <1>4, <1>5 DEF SplitsAt

(* The digits end where the length ends.                                    *)
LEMMA SplitAtStop ==
  ASSUME NEW s \in Seq(Byte), NEW k \in Nat, k >= Len(Header), k < Len(s),
         DigitsTo(s, k), s[k + 1] \notin Digits,
         NEW j \in Nat, SplitsAt(s, j)
  PROVE  j = k
<1>0. Len(s) \in Nat /\ Len(Header) \in Nat /\ LF \notin Digits
  BY ConstantTypes
<1>1. j \in Len(Header)..(Len(s) - 2) /\ s[j + 1] = LF
  BY DEF SplitsAt
<1>2. \A i \in (Len(Header) + 1)..j : s[i] \in Digits
  BY DEF SplitsAt, DigitsTo
<1>3. ~ (j < k)
  <2> SUFFICES ASSUME j < k PROVE FALSE
    OBVIOUS
  <2>1. j + 1 \in (Len(Header) + 1)..k
    BY <1>0, <1>1
  <2> QED BY <1>0, <1>1, <2>1 DEF DigitsTo
<1>4. ~ (k < j)
  <2> SUFFICES ASSUME k < j PROVE FALSE
    OBVIOUS
  <2>1. k + 1 \in (Len(Header) + 1)..j
    BY <1>0
  <2> QED BY <1>2, <2>1
<1> QED BY <1>3, <1>4

(* The prefix of s that ends at n is the first one of no frame.             *)
WrongAt(s, n) ==
  /\ n \in 1..Len(s)
  /\ \/ n <= Len(Header) /\ s[n] # Header[n]
     \/ /\ HeaderIn(s) /\ n - 1 >= Len(Header)
        /\ DigitsTo(s, n - 1) /\ s[n] \notin Digits
        /\ s[n] = LF => ~Parses(NumeralTo(s, n - 1))
     \/ /\ HeaderIn(s) /\ n - 2 >= Len(Header)
        /\ DigitsTo(s, n - 2) /\ s[n - 1] = LF /\ s[n] # LF

LEMMA WrongHasNoSplit ==
  ASSUME NEW s \in Seq(Byte), NEW n, WrongAt(s, n), NEW j \in Nat
  PROVE  ~SplitsAt(s, j)
<1>0. /\ Len(s) \in Nat /\ Len(Header) \in Nat /\ LF \notin Digits
      /\ n \in Nat /\ n > 0 /\ n <= Len(s)
  BY ConstantTypes DEF WrongAt
<1> SUFFICES ASSUME SplitsAt(s, j) PROVE FALSE
  OBVIOUS
<1>1. HeaderIn(s) /\ s[j + 1] = LF /\ s[j + 2] = LF /\ Parses(NumeralTo(s, j))
  BY DEF SplitsAt
<1>2. CASE n <= Len(Header) /\ s[n] # Header[n]
  BY <1>0, <1>1, <1>2 DEF HeaderIn
<1>3. CASE /\ n - 1 >= Len(Header)
           /\ DigitsTo(s, n - 1) /\ s[n] \notin Digits
           /\ s[n] = LF => ~Parses(NumeralTo(s, n - 1))
  <2>1. n - 1 \in Nat /\ n - 1 < Len(s) /\ (n - 1) + 1 = n
    BY <1>0
  <2>2. s[(n - 1) + 1] \notin Digits
    BY <2>1, <1>3
  <2>3. j = n - 1
    BY <1>0, <1>3, <2>1, <2>2, SplitAtStop
  <2>4. s[n] = LF /\ Parses(NumeralTo(s, n - 1))
    BY <2>3, <2>1, <1>1
  <2> QED BY <2>4, <1>3
<1>4. CASE /\ n - 2 >= Len(Header)
           /\ DigitsTo(s, n - 2) /\ s[n - 1] = LF /\ s[n] # LF
  <2>1. n - 2 \in Nat /\ n - 2 < Len(s) /\ (n - 2) + 1 = n - 1 /\ (n - 2) + 2 = n
    BY <1>0, <1>4
  <2>2. s[(n - 2) + 1] \notin Digits
    BY <1>0, <2>1, <1>4
  <2>3. j = n - 2
    BY <1>0, <1>4, <2>1, <2>2, SplitAtStop
  <2>4. s[n] = LF
    BY <2>3, <2>1, <1>1
  <2> QED BY <2>4, <1>4
<1> QED BY <1>2, <1>3, <1>4 DEF WrongAt

(* The second case of Viable, by its position.                              *)
LEMMA InLength ==
  ASSUME NEW s \in Seq(Byte), HeaderIn(s), Len(Header) < Len(s)
  PROVE  LET t == Suffix(s, Len(Header))
             m == IF t[Len(t)] = LF THEN Len(t) - 1 ELSE Len(t)
             k == IF s[Len(s)] = LF THEN Len(s) - 1 ELSE Len(s)
         IN  /\ t # <<>> /\ SubSeq(t, 1, m) = NumeralTo(s, k)
             /\ k \in Len(Header)..Len(s)
             /\ m > 0 <=> k > Len(Header)
             /\ m < Len(t) <=> k < Len(s)
<1> DEFINE t == Suffix(s, Len(Header))
           m == IF t[Len(t)] = LF THEN Len(t) - 1 ELSE Len(t)
           k == IF s[Len(s)] = LF THEN Len(s) - 1 ELSE Len(s)
<1>0. Len(s) \in Nat /\ Len(Header) \in Nat /\ Len(Header) \in 0..Len(s)
  BY ConstantTypes
<1>1. /\ t \in Seq(Byte) /\ Len(t) = Len(s) - Len(Header)
      /\ \A i \in 1..(Len(s) - Len(Header)) : t[i] = s[Len(Header) + i]
  BY <1>0, SuffixType
<1>2. t[Len(t)] = s[Len(s)]
  <2>1. Len(t) \in 1..(Len(s) - Len(Header)) /\ Len(Header) + Len(t) = Len(s)
    BY <1>0, <1>1
  <2> QED BY <1>1, <2>1
<1> HIDE DEF t
<1>3. k = Len(Header) + m /\ m \in 0..Len(t) /\ k \in Len(Header)..Len(s)
  BY <1>0, <1>1, <1>2
<1>4. SubSeq(t, 1, m) = NumeralTo(s, k)
  <2>1. m \in Nat /\ m <= Len(t) /\ k \in Nat /\ k <= Len(s)
    BY <1>0, <1>1, <1>3
  <2> HIDE DEF m, k
  <2>2. /\ SubSeq(t, 1, m) \in Seq(Byte) /\ Len(SubSeq(t, 1, m)) = IF 1 <= m THEN m - 1 + 1 ELSE 0
        /\ \A i \in 1..(m - 1 + 1) : SubSeq(t, 1, m)[i] = t[1 + i - 1]
    BY <1>1, <2>1, PieceOf
  <2>3. /\ NumeralTo(s, k) \in Seq(Byte) /\ Len(NumeralTo(s, k)) = k - Len(Header)
        /\ \A i \in 1..(k - Len(Header)) : NumeralTo(s, k)[i] = s[Len(Header) + i]
    BY <1>3, NumeralType
  <2>4. Len(SubSeq(t, 1, m)) = m /\ Len(NumeralTo(s, k)) = m
    BY <2>1, <2>2, <2>3, <1>3, <1>0
  <2>5. \A i \in 1..m : SubSeq(t, 1, m)[i] = NumeralTo(s, k)[i]
    <3> SUFFICES ASSUME NEW i \in 1..m PROVE SubSeq(t, 1, m)[i] = NumeralTo(s, k)[i]
      OBVIOUS
    <3>1. SubSeq(t, 1, m)[i] = t[i]
      BY <2>1, <2>2
    <3>2. NumeralTo(s, k)[i] = s[Len(Header) + i]
      BY <2>1, <2>3, <1>3, <1>0
    <3>3. t[i] = s[Len(Header) + i]
      BY <1>1, <2>1, <1>0
    <3> QED BY <3>1, <3>2, <3>3
  <2> QED BY <2>2, <2>3, <2>4, <2>5, SameSeq
<1>5. t # <<>>
  BY <1>0, <1>1
<1>6. (m > 0 <=> k > Len(Header)) /\ (m < Len(t) <=> k < Len(s))
  <2> HIDE DEF m, k
  <2> QED BY <1>0, <1>1, <1>3
<1> QED BY <1>3, <1>4, <1>5, <1>6 DEF t

LEMMA PrefixOfHeader ==
  ASSUME NEW s \in Seq(Byte)
  PROVE  IsPrefix(s, Header) <=>
           Len(s) <= Len(Header) /\ \A i \in 1..Len(s) : s[i] = Header[i]
<1>0. Header \in Seq(Byte) /\ Len(s) \in Nat /\ Len(Header) \in Nat
  BY ConstantTypes
<1>1. ASSUME Len(s) <= Len(Header)
      PROVE  /\ SubSeq(s, 1, Len(s)) = s
             /\ SubSeq(Header, 1, Len(s)) \in Seq(Byte)
             /\ Len(SubSeq(Header, 1, Len(s))) = Len(s)
             /\ \A i \in 1..Len(s) : SubSeq(Header, 1, Len(s))[i] = Header[i]
  BY <1>0, <1>1, PieceOf
<1>2. ASSUME IsPrefix(s, Header)
      PROVE  Len(s) <= Len(Header) /\ \A i \in 1..Len(s) : s[i] = Header[i]
  <2>1. Len(s) <= Len(Header) /\ SubSeq(s, 1, Len(s)) = SubSeq(Header, 1, Len(s))
    BY <1>2 DEF IsPrefix
  <2> QED BY <1>1, <2>1
<1>3. ASSUME Len(s) <= Len(Header), \A i \in 1..Len(s) : s[i] = Header[i]
      PROVE  IsPrefix(s, Header)
  <2>1. s = SubSeq(Header, 1, Len(s))
    BY <1>1, <1>3, SameSeq
  <2> QED BY <1>1, <1>3, <2>1 DEF IsPrefix
<1> QED BY <1>2, <1>3

LEMMA HeaderIsPrefix ==
  ASSUME NEW s \in Seq(Byte)
  PROVE  IsPrefix(Header, s) <=> HeaderIn(s)
<1>0. Header \in Seq(Byte) /\ Len(s) \in Nat /\ Len(Header) \in Nat
  BY ConstantTypes
<1>1. ASSUME Len(Header) <= Len(s)
      PROVE  /\ SubSeq(Header, 1, Len(Header)) = Header
             /\ SubSeq(s, 1, Len(Header)) \in Seq(Byte)
             /\ Len(SubSeq(s, 1, Len(Header))) = Len(Header)
             /\ \A i \in 1..Len(Header) : SubSeq(s, 1, Len(Header))[i] = s[i]
  BY <1>0, <1>1, PieceOf
<1>2. ASSUME IsPrefix(Header, s) PROVE HeaderIn(s)
  <2>1. Len(Header) <= Len(s) /\ SubSeq(Header, 1, Len(Header)) = SubSeq(s, 1, Len(Header))
    BY <1>2 DEF IsPrefix
  <2> QED BY <1>1, <2>1 DEF HeaderIn
<1>3. ASSUME HeaderIn(s) PROVE IsPrefix(Header, s)
  <2>1. Len(Header) <= Len(s) /\ \A i \in 1..Len(Header) : s[i] = Header[i]
    BY <1>3 DEF HeaderIn
  <2>2. Header = SubSeq(s, 1, Len(Header))
    BY <1>0, <1>1, <2>1, SameSeq
  <2> QED BY <1>1, <2>1, <2>2 DEF IsPrefix
<1> QED BY <1>2, <1>3

(* Where the digits of s end, if at most a newline follows them.            *)
LengthEnd(s) == IF s[Len(s)] = LF THEN Len(s) - 1 ELSE Len(s)

(* The three cases of Viable, by their positions.                           *)
ViableHeader(s) == Len(s) <= Len(Header) /\ \A i \in 1..Len(s) : s[i] = Header[i]

ViableLength(s) ==
  /\ HeaderIn(s) /\ Len(Header) < Len(s)
  /\ DigitsTo(s, LengthEnd(s)) /\ Value(NumeralTo(s, LengthEnd(s))) <= UsizeMax
  /\ LengthEnd(s) < Len(s) => LengthEnd(s) > Len(Header)

ViableBody(s) ==
  \E k \in Len(Header)..Len(s) :
    SplitsAt(s, k) /\ Len(s) - (k + 2) <= Value(NumeralTo(s, k))

LEMMA ViableIs ==
  ASSUME NEW s \in Seq(Byte)
  PROVE  Viable(s) <=> ViableHeader(s) \/ ViableLength(s) \/ ViableBody(s)
<1>0. Len(s) \in Nat /\ Len(Header) \in Nat /\ Len(Header) \in Nat \ {0}
  BY ConstantTypes
<1> DEFINE t == Suffix(s, Len(Header))
           m == IF t[Len(t)] = LF THEN Len(t) - 1 ELSE Len(t)
           InLen == /\ t # <<>> /\ IsDigits(SubSeq(t, 1, m)) /\ Value(SubSeq(t, 1, m)) <= UsizeMax
                    /\ m < Len(t) => m > 0
           InBody == \E split \in SplitsOf(s) : Len(split[2]) <= Value(split[1])
<1>1. Viable(s) <=> IsPrefix(s, Header) \/ (IsPrefix(Header, s) /\ InLen) \/ InBody
  BY DEF Viable
<1>2. IsPrefix(s, Header) <=> ViableHeader(s)
  BY PrefixOfHeader DEF ViableHeader
<1>3. ASSUME HeaderIn(s), Len(Header) < Len(s) PROVE InLen <=> ViableLength(s)
  <2> DEFINE k == LengthEnd(s)
  <2>1. /\ t # <<>> /\ SubSeq(t, 1, m) = NumeralTo(s, k)
        /\ k \in Len(Header)..Len(s)
        /\ m > 0 <=> k > Len(Header)
        /\ m < Len(t) <=> k < Len(s)
    BY <1>3, InLength DEF LengthEnd
  <2> HIDE DEF t, m, k
  <2>2. IsDigits(NumeralTo(s, k)) <=> DigitsTo(s, k)
    BY <2>1, NumeralType
  <2> QED BY <1>3, <2>1, <2>2 DEF ViableLength, k
<1>4. ASSUME HeaderIn(s), ~ (Len(Header) < Len(s)) PROVE ~InLen
  <2>1. Len(s) = Len(Header) /\ Len(Header) \in 0..Len(s)
    BY <1>0, <1>4 DEF HeaderIn
  <2>2. t \in Seq(Byte) /\ Len(t) = 0
    BY <1>0, <2>1, SuffixType
  <2>3. t = <<>>
    BY <2>2
  <2> QED BY <2>3
<1>5. InBody <=> ViableBody(s)
  <2>1. ASSUME InBody PROVE ViableBody(s)
    <3>1. PICK split \in SplitsOf(s) : Len(split[2]) <= Value(split[1])
      BY <2>1
    <3>2. PICK k \in Len(Header)..Len(s) :
            SplitsAt(s, k) /\ split = <<NumeralTo(s, k), Suffix(s, k + 2)>>
      BY <3>1, SplitSet
    <3>3. split[1] = NumeralTo(s, k) /\ split[2] = Suffix(s, k + 2)
      BY <3>2
    <3>4. k + 2 \in 0..Len(s)
      BY <1>0, <3>2 DEF SplitsAt
    <3>5. Len(Suffix(s, k + 2)) = Len(s) - (k + 2)
      BY <3>4, SuffixType
    <3> QED BY <3>1, <3>2, <3>3, <3>5 DEF ViableBody
  <2>2. ASSUME ViableBody(s) PROVE InBody
    <3>1. PICK k \in Len(Header)..Len(s) :
            SplitsAt(s, k) /\ Len(s) - (k + 2) <= Value(NumeralTo(s, k))
      BY <2>2 DEF ViableBody
    <3>2. PICK split : split = <<NumeralTo(s, k), Suffix(s, k + 2)>>
      OBVIOUS
    <3>3. split \in SplitsOf(s)
      BY <3>1, <3>2, SplitSet
    <3>4. split[1] = NumeralTo(s, k) /\ split[2] = Suffix(s, k + 2)
      BY <3>2
    <3>5. k + 2 \in 0..Len(s)
      BY <1>0, <3>1 DEF SplitsAt
    <3>6. Len(Suffix(s, k + 2)) = Len(s) - (k + 2)
      BY <3>5, SuffixType
    <3> QED BY <3>1, <3>3, <3>4, <3>6
  <2> QED BY <2>1, <2>2
<1> HIDE DEF InLen, InBody
<1> QED BY <1>1, <1>2, <1>3, <1>4, <1>5, HeaderIsPrefix DEF ViableLength

LEMMA WrongIsNotViable ==
  ASSUME NEW s \in Seq(Byte), WrongAt(s, Len(s))
  PROVE  ~Viable(s)
<1>0. /\ Len(s) \in Nat /\ Len(Header) \in Nat /\ LF \notin Digits /\ Len(s) > 0
      /\ Len(s) \in 1..Len(s)
  BY ConstantTypes DEF WrongAt
<1>1. ~ViableBody(s)
  <2>1. \A k \in Nat : ~SplitsAt(s, k)
    BY WrongHasNoSplit
  <2> QED BY <2>1, <1>0 DEF ViableBody
<1>2. CASE Len(s) <= Len(Header) /\ s[Len(s)] # Header[Len(s)]
  <2>1. ~ViableHeader(s)
    BY <1>0, <1>2 DEF ViableHeader
  <2>2. ~ViableLength(s)
    BY <1>0, <1>2 DEF ViableLength
  <2> QED BY <1>1, <2>1, <2>2, ViableIs
<1>3. CASE /\ HeaderIn(s) /\ Len(s) - 1 >= Len(Header)
           /\ DigitsTo(s, Len(s) - 1) /\ s[Len(s)] \notin Digits
           /\ s[Len(s)] = LF => ~Parses(NumeralTo(s, Len(s) - 1))
  <2>1. ~ViableHeader(s)
    BY <1>0, <1>3 DEF ViableHeader
  <2>2. CASE s[Len(s)] # LF
    <3>1. ~DigitsTo(s, Len(s))
      BY <1>0, <1>3 DEF DigitsTo
    <3>2. ~ViableLength(s)
      BY <2>2, <3>1 DEF ViableLength, LengthEnd
    <3> QED BY <1>1, <2>1, <3>2, ViableIs
  <2>3. CASE s[Len(s)] = LF
    <3> DEFINE k == Len(s) - 1
    <3>1. LengthEnd(s) = k /\ k < Len(s) /\ k \in Len(Header)..Len(s)
      BY <2>3, <1>0, <1>3 DEF LengthEnd
    <3>2. NumeralTo(s, k) = <<>> \/ ~ (Value(NumeralTo(s, k)) <= UsizeMax)
      BY <1>3, <2>3 DEF Parses
    <3>3. Len(NumeralTo(s, k)) = k - Len(Header)
      BY <3>1, NumeralType
    <3> HIDE DEF k
    <3>4. NumeralTo(s, k) = <<>> => k = Len(Header)
      BY <3>3, <3>1, <1>0
    <3>5. ~ViableLength(s)
      BY <3>1, <3>2, <3>4, <1>0 DEF ViableLength
    <3> QED BY <1>1, <2>1, <3>5, ViableIs
  <2> QED BY <2>2, <2>3
<1>4. CASE /\ HeaderIn(s) /\ Len(s) - 2 >= Len(Header)
           /\ DigitsTo(s, Len(s) - 2) /\ s[Len(s) - 1] = LF /\ s[Len(s)] # LF
  <2>1. ~ViableHeader(s)
    BY <1>0, <1>4 DEF ViableHeader
  <2>2. ~DigitsTo(s, Len(s))
    <3>1. Len(s) - 1 \in (Len(Header) + 1)..Len(s)
      BY <1>0, <1>4
    <3> QED BY <1>0, <1>4, <3>1 DEF DigitsTo
  <2>3. ~ViableLength(s)
    BY <1>4, <2>2 DEF ViableLength, LengthEnd
  <2> QED BY <1>1, <2>1, <2>3, ViableIs
<1> QED BY <1>2, <1>3, <1>4 DEF WrongAt

(* A wrong byte stays wrong, whatever follows it.                           *)
LEMMA WrongStart ==
  ASSUME NEW s \in Seq(Byte), NEW n, WrongAt(s, n)
  PROVE  n \in 0..Len(s) /\ WrongAt(Start(s, n), n) /\ ~Viable(Start(s, n))
<1>0. /\ Len(s) \in Nat /\ Len(Header) \in Nat
      /\ n \in Nat /\ n > 0 /\ n <= Len(s) /\ n \in 0..Len(s)
  BY ConstantTypes DEF WrongAt
<1> DEFINE u == Start(s, n)
<1>1. /\ u \in Seq(Byte) /\ Len(u) = n /\ \A i \in 1..n : u[i] = s[i]
      /\ \A k \in Len(Header)..n : NumeralTo(u, k) = NumeralTo(s, k)
  BY <1>0, StartType
<1> HIDE DEF u
<1>2. Len(Header) <= n => (HeaderIn(u) <=> HeaderIn(s))
  BY <1>0, <1>1 DEF HeaderIn
<1>3. \A k \in Len(Header)..n : DigitsTo(u, k) <=> DigitsTo(s, k)
  BY <1>0, <1>1 DEF DigitsTo
<1>4. WrongAt(u, n)
  <2>1. n \in 1..Len(u) /\ u[n] = s[n]
    BY <1>0, <1>1
  <2>2. CASE n <= Len(Header) /\ s[n] # Header[n]
    BY <2>1, <2>2 DEF WrongAt
  <2>3. CASE /\ HeaderIn(s) /\ n - 1 >= Len(Header)
             /\ DigitsTo(s, n - 1) /\ s[n] \notin Digits
             /\ s[n] = LF => ~Parses(NumeralTo(s, n - 1))
    <3>1. n - 1 \in Len(Header)..n /\ Len(Header) <= n
      BY <1>0, <2>3
    <3>2. HeaderIn(u) /\ DigitsTo(u, n - 1) /\ NumeralTo(u, n - 1) = NumeralTo(s, n - 1)
      BY <3>1, <2>3, <1>1, <1>2, <1>3
    <3> QED BY <2>1, <2>3, <3>2 DEF WrongAt
  <2>4. CASE /\ HeaderIn(s) /\ n - 2 >= Len(Header)
             /\ DigitsTo(s, n - 2) /\ s[n - 1] = LF /\ s[n] # LF
    <3>1. n - 2 \in Len(Header)..n /\ Len(Header) <= n /\ n - 1 \in 1..n
      BY <1>0, <2>4
    <3>2. HeaderIn(u) /\ DigitsTo(u, n - 2) /\ u[n - 1] = s[n - 1]
      BY <3>1, <2>4, <1>1, <1>2, <1>3
    <3> QED BY <2>1, <2>4, <3>2 DEF WrongAt
  <2> QED BY <2>2, <2>3, <2>4 DEF WrongAt
<1>5. ~Viable(u)
  BY <1>1, <1>4, WrongIsNotViable
<1> QED BY <1>0, <1>4, <1>5 DEF u

-------------------------------------------------------------------------------
(***************************************************************************)
(* The parser.  Stage says what the parser knows of the bytes s it was fed  *)
(* in each of its states, Rest how parse leaves it when it returns nothing. *)
(***************************************************************************)
Parser ==
  [state : {"HeaderStart", "ContentLength", "Newline", "Body"},
   buffer : Seq(Byte), current_index : Nat, body_length : 0..UsizeMax,
   content : Seq(Digits), occured_times : 0..2, body : Seq(Byte),
   out : {"None", "Some", "Err"}]

AtHeader(p, s) ==
  /\ p.current_index < Len(Header) /\ p.content = <<>> /\ p.occured_times = 0
  /\ \A i \in 1..p.current_index : s[i] = Header[i]

AtLength(p, s) ==
  /\ p.current_index >= Len(Header) /\ p.occured_times = 0
  /\ HeaderIn(s) /\ DigitsTo(s, p.current_index)
  /\ p.content = NumeralTo(s, p.current_index)

AtNewline(p, s) ==
  \E k \in Len(Header)..(Len(s) - 1) :
    /\ p.occured_times \in {0, 1} /\ p.current_index = k + p.occured_times
    /\ HeaderIn(s) /\ DigitsTo(s, k) /\ s[k + 1] = LF
    /\ Parses(NumeralTo(s, k)) /\ p.body_length = Value(NumeralTo(s, k))

AtBody(p, s) ==
  \E k \in Len(Header)..Len(s) :
    /\ p.current_index = k + 2 /\ SplitsAt(s, k)
    /\ p.body_length = Value(NumeralTo(s, k))

Stage(p, s) ==
  /\ p.buffer = s /\ p.current_index \in 0..Len(s) /\ p.out = "None"
  /\ p.state = "HeaderStart" => AtHeader(p, s)
  /\ p.state = "ContentLength" => AtLength(p, s)
  /\ p.state = "Newline" => AtNewline(p, s)
  /\ p.state = "Body" => AtBody(p, s)

Rest(p, s) ==
  /\ Stage(p, s)
  /\ IF p.state = "Body" THEN Len(s) - p.current_index < p.body_length
                         ELSE p.current_index = Len(s)

Failed(p, s) ==
  p.out = "Err" /\ p.buffer = s /\ \E n \in 1..Len(s) : WrongAt(s, n)

(* The first frame of s ends at n, and its length at k.                     *)
FrameEndsAt(s, k, n) ==
  SplitsAt(s, k) /\ n = k + 2 + Value(NumeralTo(s, k)) /\ n <= Len(s)

Found(p, s) ==
  /\ p.out = "Some"
  /\ \E k \in Len(Header)..Len(s), n \in 0..Len(s) :
       /\ FrameEndsAt(s, k, n)
       /\ p.body = SubSeq(s, k + 3, n) /\ p.buffer = SubSeq(s, n + 1, Len(s))

LEMMA NewRests == NewParser \in Parser /\ Rest(NewParser, <<>>)
  BY ConstantTypes DEF NewParser, Parser, Rest, Stage, AtHeader

(* What was known of the bytes so far is known when more arrive.            *)
LEMMA StageGrows ==
  ASSUME NEW s \in Seq(Byte), NEW t \in Seq(Byte), Len(s) <= Len(t),
         \A i \in 1..Len(s) : t[i] = s[i],
         NEW p \in Parser, Stage(p, s)
  PROVE  [p EXCEPT !.buffer = t] \in Parser /\ Stage([p EXCEPT !.buffer = t], t)
<1>0. Len(s) \in Nat /\ Len(t) \in Nat /\ Len(Header) \in Nat
  BY ConstantTypes
<1>1. \A k \in Len(Header)..Len(s) : NumeralTo(t, k) = NumeralTo(s, k)
  <2> SUFFICES ASSUME NEW k \in Len(Header)..Len(s) PROVE NumeralTo(t, k) = NumeralTo(s, k)
    OBVIOUS
  <2>1. k \in Len(Header)..Len(t)
    BY <1>0
  <2>2. /\ NumeralTo(t, k) \in Seq(Byte) /\ Len(NumeralTo(t, k)) = k - Len(Header)
        /\ \A i \in 1..(k - Len(Header)) : NumeralTo(t, k)[i] = t[Len(Header) + i]
    BY <2>1, NumeralType
  <2>3. /\ NumeralTo(s, k) \in Seq(Byte) /\ Len(NumeralTo(s, k)) = k - Len(Header)
        /\ \A i \in 1..(k - Len(Header)) : NumeralTo(s, k)[i] = s[Len(Header) + i]
    BY NumeralType
  <2>4. \A i \in 1..(k - Len(Header)) : t[Len(Header) + i] = s[Len(Header) + i]
    BY <1>0
  <2>5. \A i \in 1..Len(NumeralTo(t, k)) : NumeralTo(t, k)[i] = NumeralTo(s, k)[i]
    BY <2>2, <2>3, <2>4
  <2> QED BY <2>2, <2>3, <2>5, SameSeq
<1>2. HeaderIn(s) => HeaderIn(t)
  BY <1>0 DEF HeaderIn
<1>3. \A k \in Len(Header)..Len(s) : DigitsTo(s, k) => DigitsTo(t, k)
  BY <1>0 DEF DigitsTo
<1> DEFINE q == [p EXCEPT !.buffer = t]
<1>4. /\ q \in Parser /\ q.buffer = t /\ q.current_index = p.current_index /\ q.out = p.out
      /\ q.state = p.state /\ q.content = p.content /\ q.occured_times = p.occured_times
      /\ q.body_length = p.body_length
  BY DEF Parser
<1> HIDE DEF q
<1>5. q.current_index \in 0..Len(t) /\ q.out = "None" /\ q.current_index \in 0..Len(s)
  BY <1>0, <1>4 DEF Stage
<1>6. q.state = "HeaderStart" => AtHeader(q, t)
  BY <1>0, <1>4, <1>5 DEF Stage, AtHeader
<1>7. q.state = "ContentLength" => AtLength(q, t)
  BY <1>0, <1>1, <1>2, <1>3, <1>4, <1>5 DEF Stage, AtLength
<1>8. ASSUME q.state = "Newline" PROVE AtNewline(q, t)
  <2>1. PICK k \in Len(Header)..(Len(s) - 1) :
          /\ p.occured_times \in {0, 1} /\ p.current_index = k + p.occured_times
          /\ HeaderIn(s) /\ DigitsTo(s, k) /\ s[k + 1] = LF
          /\ Parses(NumeralTo(s, k)) /\ p.body_length = Value(NumeralTo(s, k))
    BY <1>4, <1>8 DEF Stage, AtNewline
  <2>2. k \in Len(Header)..Len(s) /\ k \in Len(Header)..(Len(t) - 1) /\ k + 1 \in 1..Len(s)
    BY <1>0
  <2>3. t[k + 1] = LF /\ DigitsTo(t, k) /\ NumeralTo(t, k) = NumeralTo(s, k) /\ HeaderIn(t)
    BY <2>1, <2>2, <1>1, <1>2, <1>3
  <2> QED BY <1>4, <2>1, <2>2, <2>3 DEF AtNewline
<1>9. ASSUME q.state = "Body" PROVE AtBody(q, t)
  <2>1. PICK k \in Len(Header)..Len(s) :
          /\ p.current_index = k + 2 /\ SplitsAt(s, k)
          /\ p.body_length = Value(NumeralTo(s, k))
    BY <1>4, <1>9 DEF Stage, AtBody
  <2>2. /\ k \in Len(Header)..(Len(s) - 2) /\ HeaderIn(s) /\ DigitsTo(s, k)
        /\ s[k + 1] = LF /\ s[k + 2] = LF /\ Parses(NumeralTo(s, k))
    BY <2>1 DEF SplitsAt
  <2>3. /\ k \in Len(Header)..Len(t) /\ k \in Len(Header)..(Len(t) - 2)
        /\ k + 1 \in 1..Len(s) /\ k + 2 \in 1..Len(s)
    BY <1>0, <2>2
  <2>4. /\ t[k + 1] = LF /\ t[k + 2] = LF /\ DigitsTo(t, k)
        /\ NumeralTo(t, k) = NumeralTo(s, k) /\ HeaderIn(t)
    BY <2>2, <2>3, <1>1, <1>2, <1>3
  <2>5. SplitsAt(t, k)
    BY <2>2, <2>3, <2>4 DEF SplitsAt
  <2> QED BY <1>4, <2>1, <2>3, <2>4, <2>5 DEF AtBody
<1>10. Stage(q, t)
  BY <1>4, <1>5, <1>6, <1>7, <1>8, <1>9 DEF Stage
<1> QED BY <1>4, <1>10 DEF q

-------------------------------------------------------------------------------
(***************************************************************************)
(* Each state of the parser: it stops at a wrong byte, waits at the end of  *)
(* the buffer, or is left for the next state.                               *)
(***************************************************************************)
LEMMA HeaderStage ==
  ASSUME NEW s \in Seq(Byte), NEW p \in Parser, Stage(p, s), p.state = "HeaderStart"
  PROVE  LET q == ParseHeaderStart(Header, p)
         IN  /\ q \in Parser
             /\ \/ Failed(q, s) /\ q.state = "HeaderStart"
                \/ Rest(q, s) /\ q.state = "HeaderStart"
                \/ Stage(q, s) /\ q.state = "ContentLength"
<1> DEFINE q == ParseHeaderStart(Header, p)
           n == Min({Len(p.buffer), Len(Header)})
           bad == \E i \in Ahead(p, n) : p.buffer[i] # Header[i]
<1>0. /\ Len(s) \in Nat /\ Len(Header) \in Nat /\ Len(Header) > 0 /\ p.buffer = s
      /\ p.current_index \in 0..Len(s) /\ p.out = "None"
  BY ConstantTypes DEF Stage
<1>1. /\ p.current_index < Len(Header) /\ p.content = <<>> /\ p.occured_times = 0
      /\ \A i \in 1..p.current_index : s[i] = Header[i]
  BY DEF Stage, AtHeader
<1>2. n = IF Len(s) <= Len(Header) THEN Len(s) ELSE Len(Header)
  BY <1>0, MinOfTwo
<1>3. q = IF bad THEN Err(p)
          ELSE [p EXCEPT !.current_index = n,
                         !.state = IF n = Len(Header) THEN "ContentLength" ELSE @]
  BY DEF ParseHeaderStart
<1> HIDE DEF n, q
<1>4. n \in Nat /\ n <= Len(s) /\ n <= Len(Header)
  BY <1>0, <1>2
<1>5. CASE bad
  <2>1. PICK i \in Ahead(p, n) : s[i] # Header[i]
    BY <1>0, <1>5
  <2>2. i \in 1..Len(s) /\ i <= Len(Header)
    BY <2>1, <1>0, <1>4 DEF Ahead
  <2>3. WrongAt(s, i)
    BY <2>1, <2>2 DEF WrongAt
  <2>4. q = [p EXCEPT !.out = "Err"]
    BY <1>3, <1>5 DEF Err
  <2>5. q \in Parser /\ q.out = "Err" /\ q.buffer = s /\ q.state = "HeaderStart"
    BY <2>4, <1>0 DEF Parser
  <2> QED BY <2>2, <2>3, <2>5 DEF Failed, q
<1>6. CASE ~bad
  <2>1. \A i \in 1..n : s[i] = Header[i]
    <3> SUFFICES ASSUME NEW i \in 1..n PROVE s[i] = Header[i]
      OBVIOUS
    <3>1. CASE i <= p.current_index
      BY <3>1, <1>1, <1>0
    <3>2. CASE i > p.current_index
      <4>1. i \in Ahead(p, n)
        BY <3>2, <1>0, <1>4 DEF Ahead
      <4> QED BY <4>1, <1>0, <1>6
    <3> QED BY <3>1, <3>2, <1>0
  <2>2. q = [p EXCEPT !.current_index = n,
                      !.state = IF n = Len(Header) THEN "ContentLength" ELSE @]
    BY <1>3, <1>6
  <2>3. /\ q \in Parser /\ q.buffer = s /\ q.current_index = n /\ q.out = "None"
        /\ q.content = <<>> /\ q.occured_times = 0
        /\ q.state = IF n = Len(Header) THEN "ContentLength" ELSE "HeaderStart"
    BY <2>2, <1>0, <1>1, <1>4 DEF Parser
  <2>4. CASE n = Len(Header)
    <3>1. HeaderIn(s)
      BY <2>1, <2>4, <1>4, <1>0 DEF HeaderIn
    <3>2. DigitsTo(s, n)
      BY <2>4, <1>0 DEF DigitsTo
    <3>3. NumeralTo(s, n) = <<>>
      <4>1. n \in Len(Header)..Len(s)
        BY <2>4, <1>4, <1>0
      <4>2. NumeralTo(s, n) \in Seq(Byte) /\ Len(NumeralTo(s, n)) = 0
        BY <4>1, <2>4, NumeralType, <1>0
      <4> QED BY <4>2
    <3>4. AtLength(q, s)
      BY <2>3, <2>4, <3>1, <3>2, <3>3, <1>0 DEF AtLength
    <3>5. Stage(q, s) /\ q.state = "ContentLength"
      BY <2>3, <2>4, <3>4, <1>4, <1>0 DEF Stage
    <3> QED BY <3>5, <2>3 DEF q
  <2>5. CASE n # Len(Header)
    <3>1. n = Len(s) /\ n < Len(Header)
      BY <2>5, <1>2, <1>0
    <3>2. AtHeader(q, s)
      BY <2>1, <2>3, <3>1 DEF AtHeader
    <3>3. Rest(q, s) /\ q.state = "HeaderStart"
      BY <2>3, <2>5, <3>1, <3>2, <1>0 DEF Rest, Stage
    <3> QED BY <3>3, <2>3 DEF q
  <2> QED BY <2>4, <2>5
<1> QED BY <1>5, <1>6

(* Two pieces that meet make one.                                           *)
LEMMA PiecesJoin ==
  ASSUME NEW s \in Seq(Byte), NEW i \in Len(Header)..Len(s), NEW k \in i..Len(s)
  PROVE  NumeralTo(s, i) \o SubSeq(s, i + 1, k) = NumeralTo(s, k)
<1>0. /\ Len(s) \in Nat /\ Len(Header) \in Nat /\ i \in Nat /\ k \in Nat /\ i <= k
      /\ k <= Len(s) /\ k \in Len(Header)..Len(s) /\ Len(Header) <= i
  BY ConstantTypes
<1> DEFINE a == NumeralTo(s, i)
           b == SubSeq(s, i + 1, k)
           c == a \o b
           d == NumeralTo(s, k)
<1>1. /\ a \in Seq(Byte) /\ Len(a) = i - Len(Header)
      /\ \A j \in 1..(i - Len(Header)) : a[j] = s[Len(Header) + j]
  BY NumeralType
<1>2. /\ d \in Seq(Byte) /\ Len(d) = k - Len(Header)
      /\ \A j \in 1..(k - Len(Header)) : d[j] = s[Len(Header) + j]
  BY <1>0, NumeralType
<1>3. /\ b \in Seq(Byte) /\ Len(b) = k - i
      /\ \A j \in 1..(k - i) : b[j] = s[i + j]
  <2>1. /\ b \in Seq(Byte) /\ Len(b) = IF i + 1 <= k THEN k - (i + 1) + 1 ELSE 0
        /\ \A j \in 1..(k - (i + 1) + 1) : b[j] = s[i + 1 + j - 1]
    BY <1>0, PieceOf
  <2> HIDE DEF b
  <2> QED BY <2>1, <1>0
<1> HIDE DEF a, b, d
<1>4. /\ c \in Seq(Byte) /\ Len(c) = Len(a) + Len(b)
      /\ \A j \in 1..Len(a) : c[j] = a[j]
      /\ \A j \in 1..Len(b) : c[Len(a) + j] = b[j]
  BY <1>1, <1>3, Concat
<1> HIDE DEF c
<1>5. ASSUME NEW j \in 1..Len(d) PROVE c[j] = d[j]
  <2>1. CASE j <= Len(a)
    BY <2>1, <1>0, <1>1, <1>2, <1>4
  <2>2. CASE j > Len(a)
    <3>1. j - Len(a) \in 1..Len(b) /\ Len(a) + (j - Len(a)) = j
      BY <2>2, <1>0, <1>1, <1>2, <1>3
    <3>2. c[j] = b[j - Len(a)]
      BY <3>1, <1>4
    <3>3. b[j - Len(a)] = s[i + (j - Len(a))] /\ i + (j - Len(a)) = Len(Header) + j
      BY <3>1, <1>0, <1>1, <1>3
    <3> QED BY <3>2, <3>3, <1>2
  <2> QED BY <2>1, <2>2, <1>0, <1>1
<1>6. Len(c) = Len(d)
  BY <1>0, <1>1, <1>2, <1>3, <1>4
<1>7. c = d
  BY <1>2, <1>4, <1>5, <1>6, SameSeq
<1> QED BY <1>7 DEF a, b, c, d

LEMMA LengthStage ==
  ASSUME NEW s \in Seq(Byte), NEW p \in Parser, Stage(p, s), p.state = "ContentLength"
  PROVE  LET q == ParseContentLengthInHeader(p)
         IN  /\ q \in Parser
             /\ \/ Failed(q, s)
                \/ Rest(q, s) /\ q.state = "ContentLength"
                \/ Stage(q, s) /\ q.state = "Newline"
<1> DEFINE stops == {i \in Ahead(p, Len(p.buffer)) : p.buffer[i] \notin Digits}
           stop == Min(stops \cup {Len(p.buffer) + 1})
           ds == p.content \o SubSeq(p.buffer, p.current_index + 1, stop - 1)
           q0 == [p EXCEPT !.content = ds, !.current_index = stop - 1]
           q == ParseContentLengthInHeader(p)
<1>0. /\ Len(s) \in Nat /\ Len(Header) \in Nat /\ p.buffer = s
      /\ p.current_index \in 0..Len(s) /\ p.out = "None"
  BY ConstantTypes DEF Stage
<1>1. /\ p.current_index >= Len(Header) /\ p.occured_times = 0
      /\ HeaderIn(s) /\ DigitsTo(s, p.current_index)
      /\ p.content = NumeralTo(s, p.current_index)
  BY DEF Stage, AtLength
<1>2. q = IF stops = {} THEN q0
          ELSE IF p.buffer[stop] = LF /\ Parses(ds)
            THEN [q0 EXCEPT !.body_length = Value(ds), !.state = "Newline"]
            ELSE Err(q0)
  BY DEF ParseContentLengthInHeader
<1>3. /\ stop \in (p.current_index + 1)..(Len(s) + 1)
      /\ \A i \in (p.current_index + 1)..(stop - 1) : s[i] \in Digits
      /\ stops = {} => stop = Len(s) + 1
      /\ stops # {} => stop <= Len(s) /\ s[stop] \notin Digits
  <2> DEFINE all == stops \cup {Len(p.buffer) + 1}
  <2>1. all \subseteq Nat /\ all # {}
    BY <1>0 DEF Ahead
  <2>2. stop \in all /\ \A b \in all : stop <= b
    BY <2>1, MinIsLeast
  <2>3. \A i \in all : i \in (p.current_index + 1)..(Len(s) + 1)
    BY <1>0 DEF Ahead
  <2> HIDE DEF stop
  <2>4. stop \in (p.current_index + 1)..(Len(s) + 1)
    BY <2>2, <2>3
  <2>5. ASSUME NEW i \in (p.current_index + 1)..(stop - 1), s[i] \notin Digits PROVE FALSE
    <3>1. i \in stops
      BY <2>4, <2>5, <1>0 DEF Ahead
    <3> QED BY <3>1, <2>2, <2>4, <2>5, <1>0
  <2>6. stops = {} => stop = Len(s) + 1
    BY <2>2, <1>0
  <2>7. ASSUME stops # {} PROVE stop <= Len(s) /\ s[stop] \notin Digits
    <3>1. PICK i \in stops : i \in 1..Len(s)
      BY <2>7, <1>0 DEF Ahead
    <3>2. stop <= i
      BY <3>1, <2>2
    <3>3. stop # Len(s) + 1
      BY <3>1, <3>2, <2>4, <1>0
    <3>4. stop \in stops
      BY <3>3, <2>2, <1>0
    <3> QED BY <3>4, <1>0 DEF Ahead
  <2> QED BY <2>4, <2>5, <2>6, <2>7
<1> HIDE DEF stop, stops
<1> DEFINE k == stop - 1
<1>4. /\ k \in Len(Header)..Len(s) /\ k \in p.current_index..Len(s)
      /\ p.current_index \in Len(Header)..Len(s)
      /\ k \in Nat /\ stop = k + 1
  BY <1>0, <1>1, <1>3
<1>5. DigitsTo(s, k)
  <2> SUFFICES ASSUME NEW i \in (Len(Header) + 1)..k PROVE s[i] \in Digits
    BY DEF DigitsTo
  <2>1. i \in (Len(Header) + 1)..p.current_index \/ i \in (p.current_index + 1)..(stop - 1)
    BY <1>0, <1>4
  <2> QED BY <2>1, <1>1, <1>3 DEF DigitsTo
<1>6. ds = NumeralTo(s, k) /\ ds \in Seq(Digits)
  <2>1. ds = NumeralTo(s, p.current_index) \o SubSeq(s, p.current_index + 1, k)
    BY <1>0, <1>1
  <2> HIDE DEF ds, k
  <2>2. ds = NumeralTo(s, k)
    BY <2>1, <1>4, PiecesJoin
  <2> QED BY <2>2, <1>4, <1>5, NumeralType
<1> HIDE DEF ds, q
<1>7. /\ q0 \in Parser /\ q0.buffer = s /\ q0.current_index = k /\ q0.out = "None"
      /\ q0.content = NumeralTo(s, k) /\ q0.occured_times = 0 /\ q0.state = "ContentLength"
  BY <1>0, <1>1, <1>4, <1>6 DEF Parser
<1> HIDE DEF q0
<1>8. CASE stops = {}
  <2>1. q = q0 /\ k = Len(s)
    BY <1>2, <1>3, <1>8, <1>0
  <2>2. AtLength(q0, s)
    BY <1>1, <1>4, <1>5, <1>7 DEF AtLength
  <2>3. Rest(q0, s)
    BY <2>1, <2>2, <1>0, <1>4, <1>7 DEF Rest, Stage
  <2> QED BY <2>1, <2>3, <1>7 DEF q
<1>9. CASE stops # {} /\ s[stop] = LF /\ Parses(ds)
  <2>1. q = [q0 EXCEPT !.body_length = Value(ds), !.state = "Newline"]
    BY <1>0, <1>2, <1>9
  <2>2. Value(ds) \in 0..UsizeMax
    BY <1>6, <1>9, ValueIsNat, ConstantTypes DEF Parses
  <2>3. /\ q \in Parser /\ q.buffer = s /\ q.current_index = k /\ q.out = "None"
        /\ q.occured_times = 0 /\ q.state = "Newline" /\ q.body_length = Value(ds)
    BY <2>1, <2>2, <1>7 DEF Parser
  <2>4. k \in Len(Header)..(Len(s) - 1) /\ s[k + 1] = LF
    BY <1>0, <1>3, <1>4, <1>9
  <2> HIDE DEF k
  <2>5. AtNewline(q, s)
    BY <2>3, <2>4, <1>1, <1>4, <1>5, <1>6, <1>9 DEF AtNewline
  <2>6. Stage(q, s)
    BY <2>3, <2>5, <1>4, <1>0 DEF Stage
  <2> QED BY <2>3, <2>6 DEF q
<1>10. CASE stops # {} /\ ~ (s[stop] = LF /\ Parses(ds))
  <2>1. q = [q0 EXCEPT !.out = "Err"]
    BY <1>0, <1>2, <1>10 DEF Err
  <2>2. q \in Parser /\ q.out = "Err" /\ q.buffer = s
    BY <2>1, <1>7 DEF Parser
  <2>3. stop \in 1..Len(s) /\ stop - 1 >= Len(Header) /\ s[stop] \notin Digits
    BY <1>0, <1>3, <1>4, <1>10
  <2>4. s[stop] = LF => ~Parses(NumeralTo(s, stop - 1))
    BY <1>6, <1>10
  <2>5. WrongAt(s, stop)
    BY <2>3, <2>4, <1>1, <1>5 DEF WrongAt
  <2> QED BY <2>2, <2>3, <2>5 DEF Failed, q
<1> QED BY <1>8, <1>9, <1>10

LEMMA TwoNewlines ==
  ASSUME NEW k \in Nat, NEW len \in Nat, k < len, NEW occ \in {0, 1},
         NEW n, n = IF 2 - occ <= len - (k + occ) THEN 2 - occ ELSE len - (k + occ)
  PROVE  /\ n \in 0..2 /\ k + occ + n <= len /\ occ + n \in {1, 2}
         /\ occ + n = 1 => k + occ + n = len
         /\ k + occ + n = k + (occ + n)
<1>1. CASE occ = 0
  BY <1>1
<1>2. CASE occ = 1
  BY <1>2
<1> QED BY <1>1, <1>2

LEMMA NewlineStage ==
  ASSUME NEW s \in Seq(Byte), NEW p \in Parser, Stage(p, s), p.state = "Newline"
  PROVE  LET q == ParseNewlineBetweenHeaderAndBody(p)
         IN  /\ q \in Parser
             /\ \/ Failed(q, s)
                \/ Rest(q, s) /\ q.state = "Newline"
                \/ Stage(q, s) /\ q.state = "Body"
<1> DEFINE n == Min({2 - p.occured_times, Len(p.buffer) - p.current_index})
           bad == \E i \in Ahead(p, p.current_index + n) : p.buffer[i] # LF
           q == ParseNewlineBetweenHeaderAndBody(p)
<1>0. /\ Len(s) \in Nat /\ Len(Header) \in Nat /\ p.buffer = s
      /\ p.current_index \in 0..Len(s) /\ p.out = "None"
  BY ConstantTypes DEF Stage
<1>1. PICK k \in Len(Header)..(Len(s) - 1) :
        /\ p.occured_times \in {0, 1} /\ p.current_index = k + p.occured_times
        /\ HeaderIn(s) /\ DigitsTo(s, k) /\ s[k + 1] = LF
        /\ Parses(NumeralTo(s, k)) /\ p.body_length = Value(NumeralTo(s, k))
  BY DEF Stage, AtNewline
<1>2. n = IF 2 - p.occured_times <= Len(s) - p.current_index
            THEN 2 - p.occured_times ELSE Len(s) - p.current_index
  BY <1>0, <1>1, MinOfTwo
<1>3. q = IF bad THEN Err(p)
          ELSE [p EXCEPT !.current_index = @ + n, !.occured_times = @ + n,
                         !.state = IF p.occured_times + n = 2 THEN "Body" ELSE @]
  BY DEF ParseNewlineBetweenHeaderAndBody
<1> HIDE DEF n, q
<1>4. /\ n \in 0..2 /\ p.current_index + n <= Len(s) /\ p.occured_times + n \in {1, 2}
      /\ p.occured_times + n = 1 => p.current_index + n = Len(s)
      /\ p.current_index + n = k + (p.occured_times + n)
  <2>1. k \in Nat /\ k < Len(s)
    BY <1>0
  <2> QED BY <2>1, <1>0, <1>1, <1>2, TwoNewlines
<1>5. CASE bad
  <2>1. PICK i \in Ahead(p, p.current_index + n) : s[i] # LF
    BY <1>0, <1>5
  <2>2. i \in {k + 1, k + 2} /\ i \in 1..Len(s)
    BY <1>0, <1>1, <1>4 DEF Ahead
  <2>3. i = k + 2 /\ i - 2 = k /\ i - 1 = k + 1
    BY <1>1, <2>1, <2>2
  <2>4. i - 2 >= Len(Header) /\ DigitsTo(s, i - 2) /\ s[i - 1] = LF
    BY <1>0, <1>1, <2>3
  <2>5. WrongAt(s, i)
    BY <2>1, <2>2, <2>4, <1>1 DEF WrongAt
  <2>6. q = [p EXCEPT !.out = "Err"]
    BY <1>3, <1>5 DEF Err
  <2>7. q \in Parser /\ q.out = "Err" /\ q.buffer = s
    BY <2>6, <1>0 DEF Parser
  <2> QED BY <2>2, <2>5, <2>7 DEF Failed, q
<1>6. CASE ~bad
  <2>1. q = [p EXCEPT !.current_index = @ + n, !.occured_times = @ + n,
                      !.state = IF p.occured_times + n = 2 THEN "Body" ELSE @]
    BY <1>3, <1>6
  <2>2. /\ q \in Parser /\ q.buffer = s /\ q.current_index = k + (p.occured_times + n)
        /\ q.out = "None" /\ q.occured_times = p.occured_times + n
        /\ q.body_length = p.body_length
        /\ q.state = IF p.occured_times + n = 2 THEN "Body" ELSE "Newline"
    <3>1. p.current_index + n \in Nat /\ p.occured_times + n \in 0..2
      BY <1>0, <1>1, <1>4
    <3>2. q.state \in {"HeaderStart", "ContentLength", "Newline", "Body"}
      BY <2>1 DEF Parser
    <3> QED BY <2>1, <3>1, <3>2, <1>0, <1>4 DEF Parser
  <2>3. q.current_index \in 0..Len(s)
    BY <1>0, <1>1, <1>4, <2>2
  <2>4. CASE p.occured_times + n = 1
    <3>1. q.state = "Newline" /\ q.occured_times = 1 /\ q.current_index = k + q.occured_times
      BY <2>2, <2>4
    <3>2. AtNewline(q, s)
      BY <3>1, <2>2, <1>1 DEF AtNewline
    <3>3. q.current_index = Len(s)
      BY <2>2, <2>4, <1>4
    <3>4. Rest(q, s)
      BY <3>1, <3>2, <3>3, <2>2, <2>3 DEF Rest, Stage
    <3> QED BY <3>1, <3>4, <2>2 DEF q
  <2>5. CASE p.occured_times + n = 2
    <3>1. q.state = "Body" /\ q.current_index = k + 2 /\ k + 2 <= Len(s)
      BY <2>2, <2>5, <1>4
    <3>2. s[k + 2] = LF
      <4>1. k + 2 \in Ahead(p, p.current_index + n)
        BY <2>5, <1>0, <1>1, <1>4 DEF Ahead
      <4> QED BY <4>1, <1>0, <1>6
    <3>3. k \in Len(Header)..Len(s) /\ k \in Len(Header)..(Len(s) - 2)
      BY <3>1, <1>0
    <3>4. SplitsAt(s, k)
      BY <3>2, <3>3, <1>1 DEF SplitsAt
    <3>5. AtBody(q, s)
      BY <3>1, <3>3, <3>4, <2>2, <1>1 DEF AtBody
    <3>6. Stage(q, s)
      BY <3>1, <3>5, <2>2, <2>3 DEF Stage
    <3> QED BY <3>1, <3>6, <2>2 DEF q
  <2> QED BY <2>4, <2>5, <1>4
<1> QED BY <1>5, <1>6

LEMMA BodyStage ==
  ASSUME NEW s \in Seq(Byte), NEW p \in Parser, Stage(p, s), p.state = "Body"
  PROVE  LET q == ParseBody(p)
         IN  q \in Parser /\ (Found(q, s) \/ (Rest(q, s) /\ q.state = "Body"))
<1> DEFINE q == ParseBody(p)
           end == p.current_index + p.body_length
<1>0. /\ Len(s) \in Nat /\ Len(Header) \in Nat /\ p.buffer = s
      /\ p.current_index \in 0..Len(s) /\ p.out = "None" /\ p.body_length \in Nat
  BY ConstantTypes DEF Stage, Parser
<1>1. PICK k \in Len(Header)..Len(s) :
        /\ p.current_index = k + 2 /\ SplitsAt(s, k)
        /\ p.body_length = Value(NumeralTo(s, k))
  BY DEF Stage, AtBody
<1>2. CASE Len(s) - p.current_index >= p.body_length
  <2> DEFINE b == SubSeq(s, p.current_index + 1, end)
             r == SubSeq(s, end + 1, Len(s))
  <2>1. q = [p EXCEPT !.body = b, !.current_index = end, !.buffer = r, !.out = "Some"]
    BY <1>0, <1>2 DEF ParseBody
  <2>2. end \in 0..Len(s) /\ end = k + 2 + Value(NumeralTo(s, k)) /\ p.current_index + 1 = k + 3
    BY <1>0, <1>1, <1>2
  <2>3. b \in Seq(Byte) /\ r \in Seq(Byte)
    <3>1. /\ p.current_index + 1 \in Nat /\ p.current_index + 1 > 0
          /\ end + 1 \in Nat /\ end + 1 > 0 /\ end <= Len(s) /\ end \in Nat
      BY <1>0, <2>2
    <3> HIDE DEF end
    <3> QED BY <3>1, <1>0, PieceOf
  <2> HIDE DEF b, r, end, q
  <2>4. q \in Parser /\ q.out = "Some" /\ q.body = b /\ q.buffer = r
    <3>1. end \in Nat
      BY <2>2, <1>0
    <3> QED BY <2>1, <3>1, <2>3 DEF Parser
  <2>5. FrameEndsAt(s, k, end)
    BY <1>1, <2>2 DEF FrameEndsAt
  <2>6. Found(q, s)
    BY <2>2, <2>4, <2>5 DEF Found, b, r
  <2> QED BY <2>4, <2>6 DEF q
<1>3. CASE ~ (Len(s) - p.current_index >= p.body_length)
  <2>1. q = p
    BY <1>0, <1>3 DEF ParseBody
  <2>2. Rest(p, s)
    BY <1>0, <1>3 DEF Rest
  <2> QED BY <2>1, <2>2
<1> QED BY <1>2, <1>3

(* parse: an error, a frame, or a rest.                                     *)
LEMMA ParseStages ==
  ASSUME NEW s \in Seq(Byte), NEW p \in Parser, Stage(p, s)
  PROVE  /\ Parse(Header, p) \in Parser
         /\ Failed(Parse(Header, p), s) \/ Found(Parse(Header, p), s) \/ Rest(Parse(Header, p), s)
<1> DEFINE p1 == IF p.state = "HeaderStart" THEN ParseHeaderStart(Header, p) ELSE p
           p2 == IF p1.state = "ContentLength" THEN ParseContentLengthInHeader(p1) ELSE p1
           p3 == IF p2.state = "Newline" /\ p2.out = "None"
                   THEN ParseNewlineBetweenHeaderAndBody(p2) ELSE p2
           p4 == IF p3.state = "Body" /\ p3.out = "None" THEN ParseBody(p3) ELSE p3
<1>1. Parse(Header, p) = p4
  BY DEF Parse
<1>2. /\ p1 \in Parser
      /\ \/ Failed(p1, s) /\ p1.state = "HeaderStart"
         \/ Rest(p1, s) /\ p1.state = "HeaderStart"
         \/ Stage(p1, s) /\ p1.state # "HeaderStart"
  BY HeaderStage
<1> HIDE DEF p1
<1>3. /\ p2 \in Parser
      /\ \/ Failed(p2, s)
         \/ Rest(p2, s) /\ p2.state \in {"HeaderStart", "ContentLength"}
         \/ Stage(p2, s) /\ p2.state \in {"Newline", "Body"}
  <2>1. CASE p1.state = "ContentLength"
    BY <2>1, <1>2, LengthStage
  <2>2. CASE p1.state # "ContentLength"
    BY <2>2, <1>2 DEF Parser
  <2> QED BY <2>1, <2>2
<1> HIDE DEF p2
<1>4. /\ p3 \in Parser
      /\ \/ Failed(p3, s)
         \/ Rest(p3, s) /\ p3.state # "Body"
         \/ Stage(p3, s) /\ p3.state = "Body"
  <2>1. CASE p2.state = "Newline" /\ p2.out = "None"
    <3>1. Stage(p2, s)
      BY <2>1, <1>3 DEF Failed
    <3>2. p3 = ParseNewlineBetweenHeaderAndBody(p2)
      BY <2>1
    <3> QED BY <1>3, <2>1, <3>1, <3>2, NewlineStage
  <2>2. CASE ~ (p2.state = "Newline" /\ p2.out = "None")
    <3>1. p3 = p2
      BY <2>2
    <3>2. p2.state = "Newline" => ~Stage(p2, s)
      BY <2>2 DEF Stage
    <3> HIDE DEF p3
    <3> QED BY <3>1, <3>2, <1>3
  <2> QED BY <2>1, <2>2
<1> HIDE DEF p3
<1>5. /\ p4 \in Parser
      /\ Failed(p4, s) \/ Found(p4, s) \/ Rest(p4, s)
  <2>1. CASE p3.state = "Body" /\ p3.out = "None"
    <3>1. Stage(p3, s)
      BY <2>1, <1>4 DEF Failed
    <3> QED BY <1>4, <2>1, <3>1, BodyStage
  <2>2. CASE ~ (p3.state = "Body" /\ p3.out = "None")
    <3>1. p4 = p3
      BY <2>2
    <3>2. p3.state = "Body" => ~Stage(p3, s)
      BY <2>2 DEF Stage
    <3> HIDE DEF p4
    <3> QED BY <3>1, <3>2, <1>4
  <2> QED BY <2>1, <2>2
<1> HIDE DEF p4
<1> QED BY <1>1, <1>5

(* add_to_buffer, then parse, by a parser at rest.                          *)
LEMMA ParseMore ==
  ASSUME NEW s \in Seq(Byte), NEW bytes \in Seq(Byte), NEW p \in Parser, Rest(p, s)
  PROVE  LET q == Parse(Header, AddToBuffer(p, bytes))
             t == s \o bytes
         IN  /\ t \in Seq(Byte) /\ q \in Parser
             /\ Failed(q, t) \/ Found(q, t) \/ Rest(q, t)
<1> DEFINE t == s \o bytes
           p1 == [p EXCEPT !.buffer = t]
<1>1. /\ t \in Seq(Byte) /\ Len(t) = Len(s) + Len(bytes)
      /\ \A i \in 1..Len(s) : t[i] = s[i]
  BY Concat
<1>2. AddToBuffer(p, bytes) = p1
  BY DEF AddToBuffer, Rest, Stage
<1> HIDE DEF t
<1>3. Len(s) <= Len(t)
  <2>1. Len(s) \in Nat /\ Len(bytes) \in Nat
    OBVIOUS
  <2> QED BY <2>1, <1>1
<1>4. Stage(p, s)
  BY DEF Rest
<1>5. p1 \in Parser /\ Stage(p1, t)
  BY <1>1, <1>3, <1>4, StageGrows
<1> HIDE DEF p1
<1>6. Parse(Header, p1) \in Parser /\ (Failed(Parse(Header, p1), t) \/ Found(Parse(Header, p1), t) \/ Rest(Parse(Header, p1), t))
  BY <1>1, <1>5, ParseStages
<1> QED BY <1>1, <1>2, <1>6 DEF t

-------------------------------------------------------------------------------
(***************************************************************************)
(* What the parser's states mean in the grammar.                            *)
(***************************************************************************)
LEMMA StartHasSplit ==
  ASSUME NEW s \in Seq(Byte), NEW n \in 0..Len(s), NEW k \in Nat, SplitsAt(s, k), k + 2 <= n
  PROVE  SplitsAt(Start(s, n), k) /\ k \in Len(Header)..n
<1>0. /\ Len(s) \in Nat /\ Len(Header) \in Nat /\ n \in Nat /\ n <= Len(s)
  BY ConstantTypes
<1>1. /\ k \in Len(Header)..(Len(s) - 2) /\ HeaderIn(s) /\ DigitsTo(s, k)
      /\ s[k + 1] = LF /\ s[k + 2] = LF /\ Parses(NumeralTo(s, k))
  BY DEF SplitsAt
<1> DEFINE u == Start(s, n)
<1>2. /\ Len(u) = n /\ \A i \in 1..n : u[i] = s[i]
      /\ \A j \in Len(Header)..n : NumeralTo(u, j) = NumeralTo(s, j)
  BY StartType
<1> HIDE DEF u
<1>3. k \in Len(Header)..(n - 2) /\ k \in Len(Header)..n /\ k + 1 \in 1..n /\ k + 2 \in 1..n
  BY <1>0, <1>1
<1>4. HeaderIn(u)
  BY <1>0, <1>1, <1>2, <1>3 DEF HeaderIn
<1>5. DigitsTo(u, k)
  BY <1>0, <1>1, <1>2, <1>3 DEF DigitsTo
<1>6. SplitsAt(u, k)
  BY <1>1, <1>2, <1>3, <1>4, <1>5 DEF SplitsAt
<1> QED BY <1>3, <1>6 DEF u

(* A frame at the start of s, as GrammarDecides looks for one.              *)
LEMMA FrameAtStart ==
  ASSUME NEW s \in Seq(Byte), NEW n \in 0..Len(s),
         \E split \in SplitsOf(SubSeq(s, 1, n)) : Len(split[2]) = Value(split[1])
  PROVE  \E k \in Nat : FrameEndsAt(s, k, n)
<1>0. Len(s) \in Nat /\ Len(Header) \in Nat /\ n \in Nat /\ n <= Len(s)
  BY ConstantTypes
<1> DEFINE u == Start(s, n)
<1>1. /\ u \in Seq(Byte) /\ Len(u) = n
      /\ \A k \in Len(Header)..n : NumeralTo(u, k) = NumeralTo(s, k)
  BY StartType
<1>2. PICK split \in SplitsOf(u) : Len(split[2]) = Value(split[1])
  BY DEF Start
<1>3. \A k \in Len(Header)..n : SplitsAt(u, k) => SplitsAt(s, k) /\ k <= n - 2
  BY SplitOfStart
<1> HIDE DEF u
<1>4. PICK k \in Len(Header)..n :
        SplitsAt(u, k) /\ split = <<NumeralTo(u, k), Suffix(u, k + 2)>>
  BY <1>1, <1>2, SplitSet
<1>5. split[1] = NumeralTo(s, k) /\ split[2] = Suffix(u, k + 2)
  BY <1>1, <1>4
<1>6. SplitsAt(s, k) /\ k + 2 \in 0..n /\ k \in Nat
  BY <1>0, <1>3, <1>4
<1>7. Len(Suffix(u, k + 2)) = n - (k + 2)
  BY <1>1, <1>6, SuffixType
<1>8. Value(NumeralTo(s, k)) = n - (k + 2)
  BY <1>2, <1>5, <1>7
<1> QED BY <1>0, <1>6, <1>8 DEF FrameEndsAt

LEMMA RestHasNoFrame ==
  ASSUME NEW s \in Seq(Byte), NEW p \in Parser, Rest(p, s), NEW k \in Nat, NEW n \in Nat
  PROVE  ~FrameEndsAt(s, k, n)
<1>0. /\ Len(s) \in Nat /\ Len(Header) \in Nat /\ LF \notin Digits
      /\ p.state \in {"HeaderStart", "ContentLength", "Newline", "Body"}
  BY ConstantTypes DEF Parser
<1> SUFFICES ASSUME SplitsAt(s, k), n = k + 2 + Value(NumeralTo(s, k)), n <= Len(s)
             PROVE  FALSE
  BY DEF FrameEndsAt
<1>1. k \in Len(Header)..(Len(s) - 2) /\ HeaderIn(s) /\ s[k + 1] = LF
  BY DEF SplitsAt
<1>2. CASE p.state = "HeaderStart"
  <2>1. Len(s) < Len(Header)
    BY <1>2 DEF Rest, Stage, AtHeader
  <2> QED BY <2>1, <1>0, <1>1
<1>3. CASE p.state = "ContentLength"
  <2>1. DigitsTo(s, Len(s))
    BY <1>3 DEF Rest, Stage, AtLength
  <2>2. k + 1 \in (Len(Header) + 1)..Len(s)
    BY <1>0, <1>1
  <2> QED BY <2>1, <2>2, <1>0, <1>1 DEF DigitsTo
<1>4. CASE p.state = "Newline"
  <2>1. PICK j \in Len(Header)..(Len(s) - 1) :
          /\ p.occured_times \in {0, 1} /\ p.current_index = j + p.occured_times
          /\ DigitsTo(s, j) /\ s[j + 1] = LF
    BY <1>4 DEF Rest, Stage, AtNewline
  <2>2. j \in Nat /\ j >= Len(Header) /\ j < Len(s)
    BY <1>0
  <2>3. k = j
    BY <1>0, <2>1, <2>2, SplitAtStop
  <2>4. p.current_index = Len(s)
    BY <1>4 DEF Rest
  <2> QED BY <1>0, <1>1, <2>1, <2>2, <2>3, <2>4
<1>5. CASE p.state = "Body"
  <2>1. PICK j \in Len(Header)..Len(s) :
          /\ p.current_index = j + 2 /\ SplitsAt(s, j)
          /\ p.body_length = Value(NumeralTo(s, j))
    BY <1>5 DEF Rest, Stage, AtBody
  <2>2. j \in Nat /\ j >= Len(Header) /\ j < Len(s) /\ DigitsTo(s, j) /\ s[j + 1] = LF
    BY <1>0, <2>1 DEF SplitsAt
  <2>3. k = j
    BY <1>0, <2>2, SplitAtStop
  <2>4. Len(s) - p.current_index < p.body_length
    BY <1>5 DEF Rest
  <2>5. p.body_length \in Nat
    BY ConstantTypes DEF Parser
  <2> QED BY <1>0, <2>1, <2>2, <2>3, <2>4, <2>5
<1> QED BY <1>0, <1>2, <1>3, <1>4, <1>5

(* The bytes of a parser at rest can become a frame, or are a length that   *)
(* is too long.                                                             *)
LEMMA RestIsViable ==
  ASSUME NEW s \in Seq(Byte), NEW p \in Parser, Rest(p, s)
  PROVE  Viable(s) \/ TooLong(s)
<1>0. /\ Len(s) \in Nat /\ Len(Header) \in Nat /\ LF \notin Digits /\ UsizeMax \in Nat
      /\ p.state \in {"HeaderStart", "ContentLength", "Newline", "Body"}
  BY ConstantTypes DEF Parser
<1>1. CASE p.state = "HeaderStart"
  <2>1. ViableHeader(s)
    BY <1>0, <1>1 DEF Rest, Stage, AtHeader, ViableHeader
  <2> QED BY <2>1, ViableIs
<1>2. CASE p.state = "ContentLength"
  <2>1. Len(s) >= Len(Header) /\ HeaderIn(s) /\ DigitsTo(s, Len(s))
    BY <1>2 DEF Rest, Stage, AtLength
  <2>2. CASE Len(s) = Len(Header)
    <3>1. ViableHeader(s)
      BY <2>1, <2>2, <1>0 DEF HeaderIn, ViableHeader
    <3> QED BY <3>1, ViableIs
  <2>3. CASE Len(s) # Len(Header)
    <3>1. Len(s) \in (Len(Header) + 1)..Len(s)
      BY <2>1, <2>3, <1>0
    <3>2. LengthEnd(s) = Len(s)
      BY <2>1, <3>1, <1>0 DEF DigitsTo, LengthEnd
    <3>3. /\ Len(s) \in Len(Header)..Len(s)
          /\ NumeralTo(s, Len(s)) \in Seq(Digits) /\ IsDigits(NumeralTo(s, Len(s)))
      <4>1. Len(s) \in Len(Header)..Len(s)
        BY <3>1, <1>0
      <4> QED BY <4>1, <2>1, NumeralType
    <3>4. Value(NumeralTo(s, Len(s))) \in Nat
      BY <3>3, ValueIsNat
    <3>5. CASE Value(NumeralTo(s, Len(s))) <= UsizeMax
      <4>1. ViableLength(s)
        BY <2>1, <3>1, <3>2, <3>5, <1>0 DEF ViableLength
      <4> QED BY <4>1, ViableIs
    <3>6. CASE Value(NumeralTo(s, Len(s))) > UsizeMax
      <4>1. Suffix(s, Len(Header)) = NumeralTo(s, Len(s))
        BY DEF Suffix, NumeralTo
      <4>2. IsPrefix(Header, s)
        BY <2>1, HeaderIsPrefix
      <4> QED BY <4>1, <4>2, <3>3, <3>6 DEF TooLong
    <3> QED BY <3>4, <3>5, <3>6, <1>0
  <2> QED BY <2>2, <2>3
<1>3. CASE p.state = "Newline"
  <2>1. PICK k \in Len(Header)..(Len(s) - 1) :
          /\ p.occured_times \in {0, 1} /\ p.current_index = k + p.occured_times
          /\ HeaderIn(s) /\ DigitsTo(s, k) /\ s[k + 1] = LF /\ Parses(NumeralTo(s, k))
    BY <1>3 DEF Rest, Stage, AtNewline
  <2>2. p.current_index = Len(s)
    BY <1>3 DEF Rest
  <2>3. k = Len(s) - 1 /\ k \in Len(Header)..Len(s) /\ s[Len(s)] = LF
    BY <1>0, <2>1, <2>2
  <2>4. NumeralTo(s, k) # <<>> /\ Value(NumeralTo(s, k)) <= UsizeMax
    BY <2>1 DEF Parses
  <2>5. NumeralTo(s, k) \in Seq(Byte) /\ Len(NumeralTo(s, k)) = k - Len(Header)
    BY <2>3, NumeralType
  <2>6. k > Len(Header)
    BY <2>3, <2>4, <2>5, <1>0
  <2>7. ViableLength(s)
    BY <2>1, <2>3, <2>4, <2>6, <1>0 DEF ViableLength, LengthEnd
  <2> QED BY <2>7, ViableIs
<1>4. CASE p.state = "Body"
  <2>1. PICK k \in Len(Header)..Len(s) :
          /\ p.current_index = k + 2 /\ SplitsAt(s, k)
          /\ p.body_length = Value(NumeralTo(s, k))
    BY <1>4 DEF Rest, Stage, AtBody
  <2>2. Len(s) - p.current_index < p.body_length /\ p.body_length \in Nat
    BY <1>4, ConstantTypes DEF Rest, Parser
  <2>3. ViableBody(s)
    BY <1>0, <2>1, <2>2 DEF ViableBody
  <2> QED BY <2>3, ViableIs
<1> QED BY <1>0, <1>1, <1>2, <1>3, <1>4

(* What parse has found is the frame that s starts with.                    *)
LEMMA FoundIsFrame ==
  ASSUME NEW s \in Seq(Byte), NEW p \in Parser, Found(p, s)
  PROVE  \E n \in 0..Len(s), k \in Nat :
           /\ FrameEndsAt(s, k, n) /\ IsFrame(SubSeq(s, 1, n), p.body)
           /\ p.buffer = Suffix(s, n) /\ Len(p.buffer) = Len(s) - n
<1>0. Len(s) \in Nat /\ Len(Header) \in Nat
  BY ConstantTypes
<1>1. PICK k \in Len(Header)..Len(s), n \in 0..Len(s) :
        /\ FrameEndsAt(s, k, n)
        /\ p.body = SubSeq(s, k + 3, n) /\ p.buffer = SubSeq(s, n + 1, Len(s))
  BY DEF Found
<1>2. k \in Nat /\ n \in Nat /\ n <= Len(s)
  BY <1>0
<1>3. SplitsAt(s, k) /\ n = k + 2 + Value(NumeralTo(s, k))
  BY <1>1 DEF FrameEndsAt
<1>4. Value(NumeralTo(s, k)) \in Nat
  <2>1. DigitsTo(s, k)
    BY <1>3 DEF SplitsAt
  <2> QED BY <2>1, NumeralType, ValueIsNat
<1>5. k + 2 <= n /\ k + 2 \in 0..n /\ n - (k + 2) = Value(NumeralTo(s, k))
  BY <1>2, <1>3, <1>4
<1> DEFINE u == Start(s, n)
<1>6. SplitsAt(u, k) /\ k \in Len(Header)..n
  BY <1>2, <1>3, <1>5, StartHasSplit
<1>7. /\ u \in Seq(Byte) /\ Len(u) = n
      /\ \A j \in Len(Header)..n : NumeralTo(u, j) = NumeralTo(s, j)
  BY StartType
<1>8. SubSeq(u, k + 3, n) = SubSeq(s, k + 3, n)
  <2>1. k + 3 \in Nat /\ k + 3 > 0 /\ n <= n
    BY <1>2
  <2> QED BY <2>1, <1>2, PieceOfPiece DEF Start
<1> HIDE DEF u
<1>9. p.body = Suffix(u, k + 2) /\ Len(p.body) = Value(NumeralTo(u, k))
  <2>1. Suffix(u, k + 2) = SubSeq(u, k + 3, n)
    <3>1. (k + 2) + 1 = k + 3
      BY <1>2
    <3> QED BY <3>1, <1>7 DEF Suffix
  <2>2. p.body = Suffix(u, k + 2)
    BY <2>1, <1>1, <1>8
  <2>3. Len(Suffix(u, k + 2)) = n - (k + 2)
    BY <1>5, <1>7, SuffixType
  <2> QED BY <2>2, <2>3, <1>5, <1>6, <1>7
<1>10. IsFrame(u, p.body)
  BY <1>6, <1>7, <1>9, FrameIs
<1>11. p.buffer = Suffix(s, n) /\ Len(p.buffer) = Len(s) - n
  BY <1>1, SuffixType DEF Suffix
<1> QED BY <1>1, <1>2, <1>10, <1>11 DEF u, Start

-------------------------------------------------------------------------------
(***************************************************************************)
(* The inductive invariant: the parser's state says what fed is, and every  *)
(* packet has its frame.                                                    *)
(***************************************************************************)
ParserOK ==
  /\ usage \in {"socket", "library"} /\ parser \in Parser /\ fed \in Seq(Byte)
  /\ parser.out = "None" => Rest(parser, fed)
  /\ parser.out = "Err" => Failed(parser, fed)
  /\ parser.out = "Some" => Found(parser, fed)

PacketsOK ==
  /\ packets \in Seq(Seq(Byte)) /\ frames \in Seq(Seq(Byte))
  /\ Len(packets) = Len(frames)
  /\ PacketsAreFrames

IInv == ParserOK /\ PacketsOK

LEMMA InitIInv == Init => IInv
<1> SUFFICES ASSUME Init PROVE IInv
  OBVIOUS
<1>1. parser = NewParser /\ fed = <<>> /\ packets = <<>> /\ frames = <<>>
  BY DEF Init
<1>2. parser.out = "None"
  BY <1>1 DEF NewParser
<1>3. ParserOK
  BY <1>1, <1>2, NewRests DEF Init, ParserOK
<1>4. PacketsOK
  BY <1>1 DEF PacketsOK, PacketsAreFrames
<1> QED BY <1>3, <1>4 DEF IInv

LEMMA ParsedIs ==
  ASSUME ParserOK, parser.out = "None", NEW bytes \in Seq(Byte)
  PROVE  LET q == Parse(Header, AddToBuffer(parser, bytes))
             t == fed \o bytes
         IN  /\ t \in Seq(Byte) /\ q \in Parser
             /\ q.out = "None" => Rest(q, t)
             /\ q.out = "Err" => Failed(q, t)
             /\ q.out = "Some" => Found(q, t)
<1> DEFINE q == Parse(Header, AddToBuffer(parser, bytes))
           t == fed \o bytes
<1>1. parser \in Parser /\ fed \in Seq(Byte) /\ Rest(parser, fed)
  BY DEF ParserOK
<1>2. t \in Seq(Byte) /\ q \in Parser /\ (Failed(q, t) \/ Found(q, t) \/ Rest(q, t))
  BY <1>1, ParseMore
<1> HIDE DEF q, t
<1>3. /\ Failed(q, t) => q.out = "Err"
      /\ Found(q, t) => q.out = "Some"
      /\ Rest(q, t) => q.out = "None"
  BY DEF Failed, Found, Rest, Stage
<1> QED BY <1>2, <1>3 DEF q, t

(* The byte that completes a frame is its last one.                         *)
LEMMA FoundAtLastByte ==
  ASSUME NEW s \in Seq(Byte), NEW b \in Byte, NEW p \in Parser, Rest(p, s),
         NEW q \in Parser, Found(q, s \o <<b>>)
  PROVE  IsFrame(Append(s, b), q.body)
<1> DEFINE t == s \o <<b>>
<1>0. /\ Len(s) \in Nat /\ Len(Header) \in Nat /\ <<b>> \in Seq(Byte) /\ Len(<<b>>) = 1
  BY ConstantTypes
<1>1. /\ t \in Seq(Byte) /\ Len(t) = Len(s) + 1
      /\ \A i \in 1..Len(s) : t[i] = s[i]
  <2>1. /\ t \in Seq(Byte) /\ Len(t) = Len(s) + Len(<<b>>)
        /\ \A i \in 1..Len(s) : t[i] = s[i]
    BY <1>0, Concat
  <2> QED BY <2>1, <1>0
<1>2. Append(s, b) = t
  OBVIOUS
<1> HIDE DEF t
<1>3. PICK n \in 0..Len(t), k \in Nat :
        FrameEndsAt(t, k, n) /\ IsFrame(SubSeq(t, 1, n), q.body)
  BY <1>1, FoundIsFrame DEF t
<1>4. n \in Nat /\ n <= Len(t)
  BY <1>0, <1>1
<1>5. n = Len(t)
  <2> SUFFICES ASSUME n # Len(t) PROVE FALSE
    OBVIOUS
  <2>1. n <= Len(s) /\ Len(s) \in 0..Len(t)
    BY <1>0, <1>1, <1>4
  <2>2. SplitsAt(t, k) /\ n = k + 2 + Value(NumeralTo(t, k))
    BY <1>3 DEF FrameEndsAt
  <2>3. k \in Len(Header)..Len(t) /\ DigitsTo(t, k)
    BY <2>2, <1>0, <1>1 DEF SplitsAt
  <2>4. Value(NumeralTo(t, k)) \in Nat
    BY <2>3, <1>1, NumeralType, ValueIsNat
  <2>5. k + 2 <= Len(s)
    BY <2>1, <2>2, <2>4, <1>0
  <2>6. Start(t, Len(s)) = s
    <3>1. /\ Start(t, Len(s)) \in Seq(Byte) /\ Len(Start(t, Len(s))) = Len(s)
          /\ \A i \in 1..Len(s) : Start(t, Len(s))[i] = t[i]
      BY <2>1, <1>1, StartType
    <3> QED BY <3>1, <1>1, SameSeq
  <2>7. SplitsAt(Start(t, Len(s)), k) /\ k \in Len(Header)..Len(s)
    BY <2>1, <2>2, <2>5, <1>1, StartHasSplit
  <2>8. NumeralTo(Start(t, Len(s)), k) = NumeralTo(t, k)
    BY <2>1, <2>7, <1>1, StartType
  <2>9. FrameEndsAt(s, k, n)
    BY <2>1, <2>2, <2>6, <2>7, <2>8 DEF FrameEndsAt
  <2> QED BY <2>9, <1>4, RestHasNoFrame
<1>6. SubSeq(t, 1, Len(t)) = t
  BY <1>1
<1> QED BY <1>2, <1>3, <1>5, <1>6

LEMMA PacketIsFrame ==
  ASSUME PacketsOK, NEW body \in Seq(Byte), NEW frame \in Seq(Byte), IsFrame(frame, body),
         packets' = Append(packets, body), frames' = Append(frames, frame)
  PROVE  PacketsOK'
<1>1. /\ packets' \in Seq(Seq(Byte)) /\ frames' \in Seq(Seq(Byte))
      /\ Len(packets') = Len(frames')
  BY DEF PacketsOK
<1>2. ASSUME NEW i \in DOMAIN packets' PROVE IsFrame(frames'[i], packets'[i])
  <2>1. CASE i = Len(packets) + 1
    <3>1. packets'[i] = body /\ frames'[i] = frame
      BY <2>1 DEF PacketsOK
    <3> QED BY <3>1
  <2>2. CASE i # Len(packets) + 1
    <3>1. i \in DOMAIN packets /\ packets'[i] = packets[i] /\ frames'[i] = frames[i]
      BY <2>2, <1>2 DEF PacketsOK
    <3> QED BY <3>1 DEF PacketsOK, PacketsAreFrames
  <2> QED BY <2>1, <2>2
<1> QED BY <1>1, <1>2, Zenon DEF PacketsOK, PacketsAreFrames

LEMMA ReadByteIInv == ASSUME IInv, NEW b \in Byte, ReadByte(b) PROVE IInv'
<1> DEFINE q == Parse(Header, AddToBuffer(parser, <<b>>))
           t == fed \o <<b>>
<1>1. /\ parser.out = "None" /\ usage' = usage
      /\ usage \in {"socket", "library"} /\ fed \in Seq(Byte) /\ parser \in Parser
      /\ Rest(parser, fed) /\ PacketsOK
  BY DEF ReadByte, IInv, ParserOK
<1>2. /\ t \in Seq(Byte) /\ q \in Parser
      /\ q.out = "None" => Rest(q, t)
      /\ q.out = "Err" => Failed(q, t)
      /\ q.out = "Some" => Found(q, t)
  <2>1. <<b>> \in Seq(Byte)
    OBVIOUS
  <2>2. ParserOK
    BY DEF IInv
  <2> QED BY <1>1, <2>1, <2>2, ParsedIs
<1>3. Append(fed, b) = t
  BY <1>1
<1>4. CASE q.out = "Some"
  <2>1. /\ packets' = Append(packets, q.body) /\ frames' = Append(frames, Append(fed, b))
        /\ parser' = NewParser /\ fed' = <<>>
    BY <1>4 DEF ReadByte
  <2> HIDE DEF q
  <2>2. IsFrame(Append(fed, b), q.body)
    BY <1>1, <1>2, <1>4, FoundAtLastByte
  <2>3. q.body \in Seq(Byte)
    BY <1>2 DEF Parser
  <2>4. PacketsOK'
    BY <1>1, <1>2, <1>3, <2>1, <2>2, <2>3, PacketIsFrame
  <2>5. NewParser.out = "None"
    BY DEF NewParser
  <2>6. ParserOK'
    BY <1>1, <2>1, <2>5, NewRests DEF ParserOK
  <2> QED BY <2>4, <2>6 DEF IInv
<1>5. CASE q.out # "Some"
  <2>1. parser' = q /\ fed' = Append(fed, b) /\ UNCHANGED <<packets, frames>>
    BY <1>5 DEF ReadByte
  <2> HIDE DEF q, t
  <2>2. ParserOK'
    BY <1>1, <1>2, <1>3, <2>1 DEF ParserOK
  <2>3. PacketsOK'
    BY <1>1, <2>1 DEF PacketsOK, PacketsAreFrames
  <2> QED BY <2>2, <2>3 DEF IInv
<1> QED BY <1>4, <1>5

LEMMA ReadBatchIInv == ASSUME IInv, NEW bytes \in Seq(Byte), ReadBatch(bytes) PROVE IInv'
<1> DEFINE q == Parse(Header, AddToBuffer(parser, bytes))
           t == fed \o bytes
<1>1. /\ parser.out = "None" /\ usage' = usage
      /\ usage \in {"socket", "library"} /\ PacketsOK
      /\ parser' = q /\ fed' = t /\ UNCHANGED <<packets, frames>>
  BY DEF ReadBatch, IInv, ParserOK
<1>2. /\ t \in Seq(Byte) /\ q \in Parser
      /\ q.out = "None" => Rest(q, t)
      /\ q.out = "Err" => Failed(q, t)
      /\ q.out = "Some" => Found(q, t)
  BY <1>1, ParsedIs DEF IInv
<1> HIDE DEF q, t
<1>3. ParserOK'
  BY <1>1, <1>2 DEF ParserOK
<1>4. PacketsOK'
  BY <1>1 DEF PacketsOK, PacketsAreFrames
<1> QED BY <1>3, <1>4 DEF IInv

LEMMA StepIInv == IInv /\ [Next]_vars => IInv'
<1> SUFFICES ASSUME IInv, [Next]_vars PROVE IInv'
  OBVIOUS
<1>1. ASSUME NEW b \in Byte, ReadByte(b) PROVE IInv'
  BY <1>1, ReadByteIInv
<1>2. ASSUME NEW n \in 0..MaxBatch, NEW bytes \in [1..n -> Byte], ReadBatch(bytes) PROVE IInv'
  <2>1. n \in Nat
    BY ParserAssumption
  <2>2. bytes \in Seq(Byte)
    BY <2>1
  <2> QED BY <1>2, <2>2, ReadBatchIInv
<1>3. CASE UNCHANGED vars
  BY <1>3 DEF vars, IInv, ParserOK, PacketsOK, PacketsAreFrames
<1> QED BY <1>1, <1>2, <1>3 DEF Next

(* The parser's state tells what it was fed, and each packet that           *)
(* run_on_socket published is the body of the frame it read for it.         *)
THEOREM Invariance == Spec => []IInv
  BY InitIInv, StepIInv, PTL DEF Spec

(* The fields of the parser keep their types, whatever arrives and in       *)
(* whatever pieces (rlpg/src/lib.rs).                                       *)
THEOREM TypeCorrect == Spec => []TypeOK
<1>1. IInv => TypeOK
  BY DEF IInv, ParserOK, Parser, TypeOK
<1> QED BY Invariance, <1>1, PTL

(* run_on_socket publishes the bodies of the frames of its stream, and      *)
(* nothing else.                                                            *)
THEOREM PublishesFrames == Spec => []PacketsAreFrames
<1>1. IInv => PacketsAreFrames
  BY DEF IInv, PacketsOK
<1> QED BY Invariance, <1>1, PTL

(* parse neither passes over the end of a frame nor goes on with what none  *)
(* starts with, and it fails only for bytes that no frame starts with.      *)
THEOREM FollowsGrammar == Spec => []GrammarDecides
<1>1. IInv => GrammarDecides
  <2> SUFFICES ASSUME IInv PROVE GrammarDecides
    OBVIOUS
  <2>1. /\ parser \in Parser /\ fed \in Seq(Byte) /\ parser.out \in {"None", "Some", "Err"}
        /\ parser.out = "None" => Rest(parser, fed)
        /\ parser.out = "Err" => Failed(parser, fed)
    BY DEF IInv, ParserOK, Parser
  <2>2. Len(fed) \in Nat
    BY <2>1
  <2>3. ASSUME parser.out # "Some", NEW n \in 0..Len(fed),
               \E split \in SplitsOf(SubSeq(fed, 1, n)) : Len(split[2]) = Value(split[1])
        PROVE  FALSE
    <3>1. PICK k \in Nat : FrameEndsAt(fed, k, n)
      BY <2>1, <2>3, FrameAtStart
    <3>2. CASE parser.out = "None"
      <4>1. n \in Nat
        BY <2>2
      <4> QED BY <2>1, <3>1, <3>2, <4>1, RestHasNoFrame
    <3>3. CASE parser.out = "Err"
      <4>1. PICK m \in 1..Len(fed) : WrongAt(fed, m)
        BY <2>1, <3>3 DEF Failed
      <4>2. ~SplitsAt(fed, k)
        BY <2>1, <4>1, WrongHasNoSplit
      <4> QED BY <3>1, <4>2 DEF FrameEndsAt
    <3> QED BY <2>1, <2>3, <3>2, <3>3
  <2>4. parser.out = "None" => Viable(fed) \/ TooLong(fed)
    BY <2>1, RestIsViable
  <2>5. ASSUME parser.out = "Err" PROVE \E n \in 0..Len(fed) : ~Viable(SubSeq(fed, 1, n))
    <3>1. PICK m \in 1..Len(fed) : WrongAt(fed, m)
      BY <2>1, <2>5 DEF Failed
    <3> QED BY <2>1, <3>1, WrongStart DEF Start
  <2> QED BY <2>3, <2>4, <2>5 DEF GrammarDecides
<1> QED BY Invariance, <1>1, PTL

(* However the bytes are cut into batches, parse returns the body of the    *)
(* first frame, and the buffer keeps the bytes after it.                    *)
THEOREM ReturnsFirstFrame == Spec => []FirstFrameAndRest
<1>1. IInv => FirstFrameAndRest
  <2> SUFFICES ASSUME IInv, parser.out = "Some"
               PROVE  /\ Len(parser.buffer) <= Len(fed)
                      /\ LET n == Len(fed) - Len(parser.buffer)
                         IN  /\ IsFrame(SubSeq(fed, 1, n), parser.body)
                             /\ parser.buffer = Suffix(fed, n)
    BY DEF FirstFrameAndRest
  <2>1. parser \in Parser /\ fed \in Seq(Byte) /\ Found(parser, fed)
    BY DEF IInv, ParserOK
  <2>2. PICK n \in 0..Len(fed), k \in Nat :
          /\ IsFrame(SubSeq(fed, 1, n), parser.body)
          /\ parser.buffer = Suffix(fed, n) /\ Len(parser.buffer) = Len(fed) - n
    BY <2>1, FoundIsFrame
  <2>3. Len(fed) \in Nat /\ n \in Nat /\ n <= Len(fed)
    BY <2>1
  <2>4. Len(parser.buffer) <= Len(fed) /\ n = Len(fed) - Len(parser.buffer)
    BY <2>2, <2>3
  <2> QED BY <2>2, <2>4
<1> QED BY Invariance, <1>1, PTL

(* Between calls of parse the index stays within the buffer, so that        *)
(* remaining_bytes of parse_body cannot underflow, and within the header    *)
(* until that is read, as parse_header_start asserts (rlpg/src/lib.rs).     *)
IndexInBuffer ==
  parser.out = "None" =>
    /\ parser.current_index <= Len(parser.buffer)
    /\ parser.state = "HeaderStart" => parser.current_index <= Len(Header)

(* Whatever the batches, the index that parse leaves behind is one that its *)
(* next call can start from.                                                *)
THEOREM IndexStaysInBuffer == Spec => []IndexInBuffer
<1>1. IInv => IndexInBuffer
  <2> SUFFICES ASSUME IInv, parser.out = "None"
               PROVE  /\ parser.current_index <= Len(parser.buffer)
                      /\ parser.state = "HeaderStart" => parser.current_index <= Len(Header)
    BY DEF IndexInBuffer
  <2>1. parser \in Parser /\ fed \in Seq(Byte) /\ Stage(parser, fed)
    BY DEF IInv, ParserOK, Rest
  <2> QED BY <2>1, ConstantTypes DEF Stage, AtHeader, Parser
<1> QED BY Invariance, <1>1, PTL
===============================================================================
