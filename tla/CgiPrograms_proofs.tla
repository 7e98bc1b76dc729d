------------------------- MODULE CgiPrograms_proofs --------------------------
(***************************************************************************)
(* What test_cgi prints and mysql_cgi inserts, for queries of any length   *)
(* and ints of any width.                                                  *)
(***************************************************************************)
EXTENDS CgiPrograms, TLAPS, SequenceTheorems, WellFoundedInduction

-----------------------------------------------------------------------------
(* Induction *)

(* Numbers are well-founded: where there are some, there is a least.       *)
LEMMA LeastNatural ==
  ASSUME NEW T, T \subseteq Nat, T # {}
  PROVE  \E n \in T : \A m \in T : n <= m
<1> DEFINE R == OpToRel(<, Nat)
<1>1. IsWellFoundedOn(R, Nat)
  BY NatLessThanWellFounded
<1>2. \A m, n \in Nat : m < n => <<m, n>> \in R
  BY DEF OpToRel
<1>3. PICK n \in T : \A m \in T : ~(<<m, n>> \in R)
  <2> HIDE DEF R
  <2> QED BY <1>1, WFMin
<1>4. \A m \in T : ~(m < n)
  <2> HIDE DEF R
  <2> QED BY <1>2, <1>3
<1> QED BY <1>4

(* Induction, over a set rather than a predicate: a least number that is   *)
(* not in the set would follow one that is.                                *)
LEMMA SetInduction ==
  ASSUME NEW S, 0 \in S, \A n \in Nat : n \in S => n + 1 \in S
  PROVE  Nat \subseteq S
<1>1. SUFFICES ASSUME Nat \ S # {}
               PROVE  FALSE
  OBVIOUS
<1>2. PICK n \in Nat \ S : \A m \in Nat \ S : n <= m
  <2>1. Nat \ S \subseteq Nat
    OBVIOUS
  <2> QED BY <1>1, <2>1, LeastNatural
<1>3. n - 1 \in Nat /\ (n - 1) + 1 = n /\ ~(n <= n - 1)
  OBVIOUS
<1>4. n - 1 \in S
  BY <1>2, <1>3
<1> QED BY <1>2, <1>3, <1>4

IsFlat(f, ss) == f = [i \in 1..Len(ss) |-> IF i = 1 THEN ss[i] ELSE f[i - 1] \o ss[i]]

-----------------------------------------------------------------------------
(* Cutting a query *)

(* A part of a part of s is a part of s.                                   *)
LEMMA PartOfPart ==
  ASSUME NEW S, NEW s \in Seq(S), NEW i \in Nat, NEW j \in Nat, 1 <= i, j <= Len(s),
         NEW m \in Nat, NEW n \in Int, 1 <= m, n <= j - i + 1
  PROVE  SubSeq(SubSeq(s, i, j), m, n) = SubSeq(s, i + m - 1, i + n - 1)
<1> DEFINE t == SubSeq(s, i, j)
           a == i + m - 1
           b == i + n - 1
<1>0. a \in Int /\ b \in Int /\ Len(s) \in Nat
  BY LenProperties
<1>1. CASE n < m
  <2>1. b < a
    BY <1>1
  <2>2. SubSeq(t, m, n) = <<>>
    BY <1>1, SubSeqEmpty
  <2>3. SubSeq(s, a, b) = <<>>
    <3> HIDE DEF a, b
    <3> QED BY <1>0, <2>1, SubSeqEmpty
  <2> QED BY <2>2, <2>3
<1>2. CASE m <= n
  <2>1. i \in 1..Len(s) /\ j \in 1..Len(s) /\ m \in 1..(j - i + 1) /\ n \in 1..(j - i + 1)
    BY <1>0, <1>2
  <2> QED BY <2>1, SubSeqOfSubSeq
<1> QED BY <1>1, <1>2

(* A part of s, its length and its elements; it may be empty. *)
LEMMA PartType ==
  ASSUME NEW S, NEW s \in Seq(S), NEW i \in Nat, NEW j \in Int, 1 <= i, j <= Len(s)
  PROVE  /\ SubSeq(s, i, j) \in Seq(S)
         /\ Len(SubSeq(s, i, j)) = IF i <= j THEN j - i + 1 ELSE 0
         /\ \A n \in 1..(j - i + 1) : SubSeq(s, i, j)[n] = s[i + n - 1]
<1>1. Len(s) \in Nat
  BY LenProperties
<1>2. \A n \in i..j : s[n] \in S
  <2>1. \A n \in i..j : n \in 1..Len(s)
    BY <1>1
  <2> QED BY <2>1, ElementOfSeq
<1>3. i \in Int
  OBVIOUS
<1>4. \A n \in 1..(j - i + 1) : SubSeq(s, i, j)[n] = s[i + n - 1]
  BY <1>2, <1>3, SubSeqProperties
<1> QED BY <1>2, <1>3, <1>4, SubSeqProperties

(* A string is cut at its first separator.                                 *)
LEMMA CutAt ==
  ASSUME NEW s, NEW sep, Len(s) \in Nat, NEW i \in 1..Len(s), s[i] = sep,
         \A n \in 1..(i - 1) : s[n] # sep
  PROVE  CutString(s, sep) = <<SubSeq(s, 1, i - 1), SubSeq(s, i + 1, Len(s))>>
<1>1. i \in Found(s, sep) /\ \A n \in Found(s, sep) : i <= n
  <2>1. \A n \in 1..Len(s) : ~(i <= n) => n \in 1..(i - 1)
    OBVIOUS
  <2> QED BY <2>1 DEF Found
<1> DEFINE c == CHOOSE n \in Found(s, sep) : \A m \in Found(s, sep) : n <= m
<1>2. c \in Found(s, sep) /\ \A m \in Found(s, sep) : c <= m
  BY <1>1
<1>3. c = i
  <2> HIDE DEF c
  <2>1. c \in 1..Len(s)
    BY <1>2 DEF Found
  <2> QED BY <1>1, <1>2, <2>1
<1>4. Found(s, sep) # {}
  BY <1>1
<1> QED BY <1>3, <1>4 DEF CutString

(* A string without separator gives two empty ones. *)
LEMMA CutNowhere ==
  ASSUME NEW s, NEW sep, \A n \in 1..Len(s) : s[n] # sep
  PROVE  CutString(s, sep) = << <<>>, <<>> >>
BY DEF CutString, Found

(* Both parts are strings, and the second has what follows a separator.    *)
LEMMA CutType ==
  ASSUME NEW S, NEW s \in Seq(S), NEW sep
  PROVE  /\ CutString(s, sep)[1] \in Seq(S) /\ CutString(s, sep)[2] \in Seq(S)
         /\ \/ CutString(s, sep)[2] = <<>>
            \/ \E i \in 1..Len(s) :
                 s[i] = sep /\ CutString(s, sep)[2] = SubSeq(s, i + 1, Len(s))
<1>0. Len(s) \in Nat
  BY LenProperties
<1>1. CASE \A n \in 1..Len(s) : s[n] # sep
  <2>1. CutString(s, sep) = << <<>>, <<>> >>
    BY <1>1, CutNowhere
  <2>2. CutString(s, sep)[1] = <<>> /\ CutString(s, sep)[2] = <<>>
    BY <2>1
  <2>3. <<>> \in Seq(S)
    BY EmptySeq
  <2> QED BY <2>2, <2>3
<1>2. CASE \E n \in 1..Len(s) : s[n] = sep
  <2>1. PICK i \in Found(s, sep) : \A n \in Found(s, sep) : i <= n
    <3>1. Found(s, sep) # {} /\ Found(s, sep) \subseteq Nat
      BY <1>0, <1>2 DEF Found
    <3> QED BY <3>1, LeastNatural
  <2>2. i \in 1..Len(s) /\ s[i] = sep /\ i \in Nat
    BY <1>0, <2>1 DEF Found
  <2>3. \A n \in 1..(i - 1) : s[n] # sep
    <3>1. \A n \in 1..(i - 1) : n \in 1..Len(s) /\ ~(i <= n)
      BY <1>0, <2>2
    <3> QED BY <2>1, <3>1 DEF Found
  <2>4. CutString(s, sep) = <<SubSeq(s, 1, i - 1), SubSeq(s, i + 1, Len(s))>>
    BY <1>0, <2>2, <2>3, CutAt
  <2>5. SubSeq(s, 1, i - 1) \in Seq(S)
    <3>1. i - 1 \in Int /\ i - 1 <= Len(s) /\ 1 \in Nat /\ 1 <= 1
      BY <1>0, <2>2
    <3> QED BY <3>1, PartType
  <2>6. SubSeq(s, i + 1, Len(s)) \in Seq(S)
    <3>1. i + 1 \in Nat /\ 1 <= i + 1 /\ Len(s) \in Int /\ Len(s) <= Len(s)
      BY <1>0, <2>2
    <3> QED BY <3>1, PartType
  <2> QED BY <2>2, <2>4, <2>5, <2>6
<1> QED BY <1>1, <1>2

(* Names and values are strings, of whatever query. *)
LEMMA OperandsType ==
  ASSUME NEW q \in Seq(Symbol)
  PROVE  /\ Operands(q).name1 \in Seq(Symbol) /\ Operands(q).value1 \in Seq(Symbol)
         /\ Operands(q).name2 \in Seq(Symbol) /\ Operands(q).value2 \in Seq(Symbol)
<1> DEFINE strs == CutString(q, "&")
           one  == CutString(strs[1], "=")
           two  == CutString(strs[2], "=")
<1>1. strs[1] \in Seq(Symbol) /\ strs[2] \in Seq(Symbol)
  BY CutType
<1> HIDE DEF strs
<1>2. /\ one[1] \in Seq(Symbol) /\ one[2] \in Seq(Symbol)
      /\ two[1] \in Seq(Symbol) /\ two[2] \in Seq(Symbol)
  BY <1>1, CutType
<1> HIDE DEF one, two
<1>3. Operands(q) = [name1 |-> one[1], value1 |-> one[2], name2 |-> two[1], value2 |-> two[2]]
  BY DEF Operands, one, two, strs
<1> QED BY <1>2, <1>3

(* Of a form, the operands are its names and values.                       *)
LEMMA OperandsOfForm ==
  ASSUME NEW q \in Seq(Symbol), NEW i \in 1..Len(q), NEW j \in 1..Len(q), NEW k \in 1..Len(q),
         IsForm(q, i, j, k)
  PROVE  Operands(q) =
           [name1 |-> SubSeq(q, 1, i - 1), value1 |-> SubSeq(q, i + 1, j - 1),
            name2 |-> SubSeq(q, j + 1, k - 1), value2 |-> SubSeq(q, k + 1, Len(q))]
<1> DEFINE N    == Len(q)
           strs == CutString(q, "&")
           a    == SubSeq(q, 1, j - 1)
           b    == SubSeq(q, j + 1, N)
           m    == k - j
<1>1. /\ N \in Nat /\ i \in Nat /\ j \in Nat /\ k \in Nat /\ i < j /\ j < k /\ 1 <= i /\ k <= N
      /\ q[i] = "=" /\ q[j] = "&" /\ q[k] = "="
      /\ \A n \in 1..(i - 1) : q[n] # "="
      /\ \A n \in 1..(j - 1) : q[n] # "&"
      /\ \A n \in (j + 1)..(k - 1) : q[n] # "="
  BY LenProperties DEF IsForm
<1>2. strs = <<a, b>>
  BY <1>1, CutAt
<1>3. /\ a \in Seq(Symbol) /\ Len(a) = j - 1
      /\ \A n \in 1..(j - 1) : a[n] = q[n]
  <2>1. /\ j - 1 \in Int /\ 1 <= 1 /\ 1 \in Nat /\ j - 1 <= N /\ 1 <= j - 1 /\ (j - 1) - 1 + 1 = j - 1
        /\ \A n \in 1..(j - 1) : 1 + n - 1 = n
    BY <1>1
  <2> QED BY <2>1, PartType
<1>4. /\ b \in Seq(Symbol) /\ Len(b) = N - j
      /\ \A n \in 1..(N - j) : b[n] = q[j + n]
  <2>1. /\ j + 1 \in Nat /\ 1 <= j + 1 /\ N \in Int /\ N <= N /\ j + 1 <= N /\ N - (j + 1) + 1 = N - j
        /\ \A n \in 1..(N - j) : (j + 1) + n - 1 = j + n
    BY <1>1
  <2> QED BY <2>1, PartType
<1>5. /\ Len(a) \in Nat /\ i \in 1..Len(a) /\ a[i] = "="
      /\ \A n \in 1..(i - 1) : a[n] # "="
  <2>1. i \in 1..(j - 1) /\ \A n \in 1..(i - 1) : n \in 1..(j - 1)
    BY <1>1
  <2> HIDE DEF a
  <2> QED BY <1>1, <1>3, <2>1
<1>6. /\ Len(b) \in Nat /\ m \in 1..Len(b) /\ b[m] = "="
      /\ \A n \in 1..(m - 1) : b[n] # "="
  <2>1. m \in 1..(N - j) /\ j + m = k /\ N - j \in Nat
    BY <1>1
  <2>2. \A n \in 1..(m - 1) : n \in 1..(N - j) /\ j + n \in (j + 1)..(k - 1)
    BY <1>1
  <2> HIDE DEF b, m
  <2> QED BY <1>1, <1>4, <2>1, <2>2
<1>7. CutString(a, "=") = <<SubSeq(q, 1, i - 1), SubSeq(q, i + 1, j - 1)>>
  <2>1. CutString(a, "=") = <<SubSeq(a, 1, i - 1), SubSeq(a, i + 1, Len(a))>>
    <3> HIDE DEF a
    <3> QED BY <1>5, CutAt
  <2>2. SubSeq(a, 1, i - 1) = SubSeq(q, 1, i - 1)
    <3>1. /\ 1 \in Nat /\ j - 1 \in Nat /\ 1 <= 1 /\ j - 1 <= Len(q) /\ i - 1 \in Int
          /\ i - 1 <= (j - 1) - 1 + 1 /\ 1 + 1 - 1 = 1 /\ 1 + (i - 1) - 1 = i - 1
      BY <1>1
    <3>2. SubSeq(SubSeq(q, 1, j - 1), 1, i - 1) = SubSeq(q, 1 + 1 - 1, 1 + (i - 1) - 1)
      BY <3>1, PartOfPart
    <3> QED BY <3>1, <3>2
  <2>3. SubSeq(a, i + 1, Len(a)) = SubSeq(q, i + 1, j - 1)
    <3>1. /\ 1 \in Nat /\ j - 1 \in Nat /\ 1 <= 1 /\ j - 1 <= Len(q) /\ i + 1 \in Nat /\ 1 <= i + 1
          /\ j - 1 \in Int
          /\ j - 1 <= (j - 1) - 1 + 1 /\ 1 + (i + 1) - 1 = i + 1 /\ 1 + (j - 1) - 1 = j - 1
      BY <1>1
    <3>2. SubSeq(SubSeq(q, 1, j - 1), i + 1, j - 1) = SubSeq(q, 1 + (i + 1) - 1, 1 + (j - 1) - 1)
      BY <3>1, PartOfPart
    <3> QED BY <1>3, <3>1, <3>2
  <2> QED BY <2>1, <2>2, <2>3
<1>8. CutString(b, "=") = <<SubSeq(q, j + 1, k - 1), SubSeq(q, k + 1, N)>>
  <2>1. CutString(b, "=") = <<SubSeq(b, 1, m - 1), SubSeq(b, m + 1, Len(b))>>
    <3> HIDE DEF b, m
    <3> QED BY <1>6, CutAt
  <2>2. SubSeq(b, 1, m - 1) = SubSeq(q, j + 1, k - 1)
    <3>1. /\ j + 1 \in Nat /\ N \in Nat /\ 1 <= j + 1 /\ N <= Len(q) /\ m - 1 \in Int /\ 1 \in Nat
          /\ 1 <= 1 /\ m - 1 <= N - (j + 1) + 1
          /\ (j + 1) + 1 - 1 = j + 1 /\ (j + 1) + (m - 1) - 1 = k - 1
      BY <1>1
    <3>2. SubSeq(SubSeq(q, j + 1, N), 1, m - 1) = SubSeq(q, (j + 1) + 1 - 1, (j + 1) + (m - 1) - 1)
      <4> HIDE DEF m, N
      <4> QED BY <3>1, PartOfPart
    <3> QED BY <3>1, <3>2
  <2>3. SubSeq(b, m + 1, Len(b)) = SubSeq(q, k + 1, N)
    <3>0. PICK d, e, n : d = j + 1 /\ e = m + 1 /\ n = N - j
      OBVIOUS
    <3>1. /\ d \in Nat /\ N \in Nat /\ 1 <= d /\ N <= Len(q) /\ e \in Nat
          /\ n \in Int /\ 1 <= e /\ n <= N - d + 1
          /\ d + e - 1 = k + 1 /\ d + n - 1 = N
      BY <1>1, <3>0
    <3>2. SubSeq(SubSeq(q, d, N), e, n) = SubSeq(q, d + e - 1, d + n - 1)
      <4> HIDE DEF m, N
      <4> QED BY <3>1, PartOfPart
    <3> QED BY <1>4, <3>0, <3>1, <3>2
  <2> QED BY <2>1, <2>2, <2>3
<1>9. strs[1] = a /\ strs[2] = b
  BY <1>2
<1> HIDE DEF strs, a, b
<1>10. PICK one, two : one = CutString(strs[1], "=") /\ two = CutString(strs[2], "=")
  OBVIOUS
<1>11. Operands(q) = [name1 |-> one[1], value1 |-> one[2], name2 |-> two[1], value2 |-> two[2]]
  BY <1>10 DEF Operands, strs
<1>12. one = <<SubSeq(q, 1, i - 1), SubSeq(q, i + 1, j - 1)>>
  BY <1>7, <1>9, <1>10
<1>13. two = <<SubSeq(q, j + 1, k - 1), SubSeq(q, k + 1, N)>>
  BY <1>8, <1>9, <1>10
<1> QED BY <1>11, <1>12, <1>13

(* A second value that is not empty follows both separators.               *)
LEMMA SecondValue ==
  ASSUME NEW q \in Seq(Symbol), Operands(q).value2 # <<>>
  PROVE  \E j, k \in 1..Len(q) : j < k /\ q[j] = "&" /\ q[k] = "="
<1>0. Len(q) \in Nat
  BY LenProperties
<1>1. PICK t : t = CutString(q, "&")[2]
  OBVIOUS
<1>2. t \in Seq(Symbol) /\ (t = <<>> \/ \E i \in 1..Len(q) : q[i] = "&" /\ t = SubSeq(q, i + 1, Len(q)))
  BY <1>1, CutType
<1>3. CutString(t, "=")[2] # <<>>
  BY <1>1 DEF Operands
<1>4. PICK n \in 1..Len(t) : t[n] = "="
  BY <1>2, <1>3, CutType
<1>5. t # <<>>
  BY <1>4
<1>6. PICK i \in 1..Len(q) : q[i] = "&" /\ t = SubSeq(q, i + 1, Len(q))
  BY <1>2, <1>5
<1>7. /\ Len(t) = IF i + 1 <= Len(q) THEN Len(q) - (i + 1) + 1 ELSE 0
      /\ \A p \in 1..(Len(q) - (i + 1) + 1) : t[p] = q[(i + 1) + p - 1]
  <2>1. i + 1 \in Nat /\ 1 <= i + 1 /\ Len(q) \in Int /\ Len(q) <= Len(q)
    BY <1>0
  <2> QED BY <1>6, <2>1, PartType
<1>8. n \in 1..(Len(q) - (i + 1) + 1) /\ (i + 1) + n - 1 = i + n /\ i + n \in 1..Len(q) /\ i < i + n
  BY <1>0, <1>7
<1>9. q[i + n] = "="
  BY <1>4, <1>7, <1>8
<1> QED BY <1>6, <1>8, <1>9

-----------------------------------------------------------------------------
(* Multiples and remainders *)

(* Division with rest, for a positive divisor. *)
LEMMA DivMod ==
  ASSUME NEW n \in Int, NEW M \in Nat \ {0}
  PROVE  n % M \in 0..(M - 1) /\ n \div M \in Int /\ n = (M * (n \div M)) + (n % M)
OBVIOUS

(* The same for natural numbers, with names for quotient and rest. *)
LEMMA DivModNat ==
  ASSUME NEW n \in Nat, NEW M \in Nat \ {0}
  PROVE  \E d, r : d = n \div M /\ d \in Nat /\ r \in 0..(M - 1) /\ n = (M * d) + r
<1>1. PICK d, r : d = n \div M /\ r = n % M
  OBVIOUS
<1>2. d \in Nat /\ r \in 0..(M - 1) /\ n = (M * d) + r
  BY <1>1
<1> QED BY <1>1, <1>2

(* Multiples leave no rest. *)
LEMMA TimesMod ==
  ASSUME NEW k \in Int, NEW M \in Nat \ {0}
  PROVE  (M * k) % M = 0
OBVIOUS

(* The rules of signs. *)
LEMMA TimesMinus ==
  ASSUME NEW a \in Int, NEW b \in Int
  PROVE  /\ a * b \in Int /\ a * (-b) = -(a * b) /\ (-a) * b = -(a * b) /\ (-a) * (-b) = a * b
         /\ a * b = b * a
OBVIOUS

-----------------------------------------------------------------------------
(* Numbers *)

(* A digit has a value. *)
LEMMA DigitType ==
  ASSUME NEW c, IsDigit(c)
  PROVE  DigitOf(c) \in 0..9
BY DEF IsDigit, DigitOf

(* The number of the digits from a on is the last value of such an f.      *)
IsValue(f, s, a, n) ==
  f = [m \in (a - 1)..n |-> IF m < a THEN 0 ELSE 10 * f[m - 1] + DigitOf(s[m])]
IsLast(s, a, n) == (\A i \in a..n : IsDigit(s[i])) /\ (n < Len(s) => ~IsDigit(s[n + 1]))

(* Number in these terms. *)
LEMMA NumberIsValue ==
  ASSUME NEW s, NEW a, NEW n, n = CHOOSE m \in (a - 1)..Len(s) : IsLast(s, a, m)
  PROVE  Number(s, a) = (CHOOSE f : IsValue(f, s, a, n))[n]
BY DEF Number, IsLast, IsValue

(* There is a last digit, or none at all and the last place before. *)
LEMMA LastExists ==
  ASSUME NEW s, Len(s) \in Nat, NEW a \in Nat, 1 <= a, a - 1 <= Len(s)
  PROVE  \E n \in (a - 1)..Len(s) : IsLast(s, a, n)
<1> DEFINE T == {n \in (a - 1)..Len(s) : n < Len(s) => ~IsDigit(s[n + 1])}
<1>1. T \subseteq Nat /\ Len(s) \in T
  OBVIOUS
<1>2. PICK n \in T : \A m \in T : n <= m
  BY <1>1, LeastNatural
<1>3. ASSUME NEW i \in a..n
      PROVE  IsDigit(s[i])
  <2>1. i - 1 \in (a - 1)..Len(s) /\ ~(n <= i - 1) /\ (i - 1) + 1 = i
    BY <1>1, <1>2
  <2>2. ~(i - 1 \in T)
    <3> HIDE DEF T
    <3> QED BY <1>2, <2>1
  <2> QED BY <2>1, <2>2
<1>4. n \in (a - 1)..Len(s) /\ (n < Len(s) => ~IsDigit(s[n + 1]))
  BY <1>2
<1> QED BY <1>3, <1>4 DEF IsLast

(* Each digit adds itself to ten times the number before it. *)
LEMMA ValueRound ==
  ASSUME NEW s, NEW a \in Nat, NEW n, NEW f, IsValue(f, s, a, n), NEW m \in (a - 1)..n
  PROVE  f[m] = IF m < a THEN 0 ELSE 10 * f[m - 1] + DigitOf(s[m])
<1>1. f = [i \in (a - 1)..n |-> IF i < a THEN 0 ELSE 10 * f[i - 1] + DigitOf(s[i])]
  BY DEF IsValue
<1> QED BY <1>1

(* One more digit, one more round. *)
LEMMA ValueExtends ==
  ASSUME NEW s, NEW a \in Nat, 1 <= a, NEW n \in Nat, a - 1 <= n, NEW f, IsValue(f, s, a, n)
  PROVE  \E g : IsValue(g, s, a, n + 1)
<1>0. \A m \in (a - 1)..n : f[m] = IF m < a THEN 0 ELSE 10 * f[m - 1] + DigitOf(s[m])
  BY ValueRound
<1> DEFINE e == 10 * f[n] + DigitOf(s[n + 1])
           g == [m \in (a - 1)..(n + 1) |-> IF m = n + 1 THEN e ELSE f[m]]
<1>1. ASSUME NEW m \in (a - 1)..(n + 1)
      PROVE  g[m] = IF m < a THEN 0 ELSE 10 * g[m - 1] + DigitOf(s[m])
  <2>1. CASE m = n + 1
    <3>1. ~(m < a) /\ m - 1 = n /\ m - 1 \in (a - 1)..(n + 1) /\ m - 1 # n + 1
      BY <2>1
    <3>2. g[m] = e /\ g[m - 1] = f[n]
      <4> HIDE DEF e
      <4> QED BY <2>1, <3>1
    <3> QED BY <2>1, <3>1, <3>2
  <2>2. CASE m # n + 1
    <3>1. m \in (a - 1)..n
      BY <2>2
    <3>2. g[m] = f[m]
      BY <2>2
    <3>3. f[m] = IF m < a THEN 0 ELSE 10 * f[m - 1] + DigitOf(s[m])
      BY <1>0, <3>1
    <3>4. ~(m < a) => g[m - 1] = f[m - 1]
      <4>1. ~(m < a) => m - 1 \in (a - 1)..(n + 1) /\ m - 1 # n + 1
        BY <3>1
      <4> HIDE DEF e
      <4> QED BY <4>1
    <3> HIDE DEF g
    <3> QED BY <3>2, <3>3, <3>4
  <2> QED BY <2>1, <2>2
<1>2. g = [m \in (a - 1)..(n + 1) |-> g[m]]
  OBVIOUS
<1> HIDE DEF g
<1>3. g = [m \in (a - 1)..(n + 1) |-> IF m < a THEN 0 ELSE 10 * g[m - 1] + DigitOf(s[m])]
  BY <1>1, <1>2
<1> QED BY <1>3 DEF IsValue

(* There are such rounds for any number of digits. *)
LEMMA ValueExists ==
  ASSUME NEW s, NEW a \in Nat, 1 <= a, NEW n \in Nat, a - 1 <= n
  PROVE  \E f : IsValue(f, s, a, n)
<1> DEFINE A == {d \in Nat : \E f : IsValue(f, s, a, (a - 1) + d)}
<1>1. 0 \in A
  <2> DEFINE f == [m \in (a - 1)..((a - 1) + 0) |-> 0]
  <2>1. \A m \in (a - 1)..((a - 1) + 0) : m < a
    OBVIOUS
  <2>2. f = [m \in (a - 1)..((a - 1) + 0) |-> IF m < a THEN 0 ELSE 10 * f[m - 1] + DigitOf(s[m])]
    BY <2>1
  <2> HIDE DEF f
  <2>3. IsValue(f, s, a, (a - 1) + 0)
    BY <2>2 DEF IsValue
  <2> QED BY <2>3
<1>2. ASSUME NEW d \in Nat, d \in A
      PROVE  d + 1 \in A
  <2>1. PICK f : IsValue(f, s, a, (a - 1) + d)
    BY <1>2
  <2>2. (a - 1) + d \in Nat /\ a - 1 <= (a - 1) + d /\ ((a - 1) + d) + 1 = (a - 1) + (d + 1)
    OBVIOUS
  <2>3. \E g : IsValue(g, s, a, ((a - 1) + d) + 1)
    BY <2>1, <2>2, ValueExtends
  <2> QED BY <2>2, <2>3
<1>3. Nat \subseteq A
  <2> HIDE DEF A
  <2> QED BY <1>1, <1>2, SetInduction
<1>4. n - (a - 1) \in Nat /\ (a - 1) + (n - (a - 1)) = n
  OBVIOUS
<1>5. n - (a - 1) \in A
  BY <1>3, <1>4
<1> QED BY <1>4, <1>5

(* Each of them gives a natural number. *)
LEMMA ValueType ==
  ASSUME NEW s, NEW a \in Nat, 1 <= a, NEW n \in Nat, NEW f, IsValue(f, s, a, n),
         \A i \in a..n : IsDigit(s[i])
  PROVE  \A m \in (a - 1)..n : f[m] \in Nat
<1> DEFINE A == {d \in Nat : (a - 1) + d <= n => f[(a - 1) + d] \in Nat}
<1>1. 0 \in A
  <2>1. SUFFICES ASSUME (a - 1) + 0 <= n PROVE f[(a - 1) + 0] \in Nat
    OBVIOUS
  <2>2. (a - 1) + 0 \in (a - 1)..n /\ (a - 1) + 0 < a
    BY <2>1
  <2> QED BY <2>2, ValueRound
<1>2. ASSUME NEW d \in Nat, d \in A
      PROVE  d + 1 \in A
  <2>1. SUFFICES ASSUME (a - 1) + (d + 1) <= n PROVE f[(a - 1) + (d + 1)] \in Nat
    OBVIOUS
  <2>2. PICK m : m = (a - 1) + (d + 1)
    OBVIOUS
  <2>3. /\ m \in (a - 1)..n /\ ~(m < a) /\ m \in a..n
        /\ m - 1 = (a - 1) + d /\ (a - 1) + d <= n
    BY <2>1, <2>2
  <2>4. f[m - 1] \in Nat
    BY <1>2, <2>3
  <2>5. DigitOf(s[m]) \in 0..9
    BY <2>3, DigitType
  <2>6. f[m] = 10 * f[m - 1] + DigitOf(s[m])
    BY <2>3, ValueRound
  <2>7. f[m] \in Nat
    BY <2>4, <2>5, <2>6
  <2> QED BY <2>2, <2>7
<1>3. Nat \subseteq A
  <2> HIDE DEF A
  <2> QED BY <1>1, <1>2, SetInduction
<1>4. ASSUME NEW m \in (a - 1)..n
      PROVE  f[m] \in Nat
  <2>1. PICK d : d = m - (a - 1)
    OBVIOUS
  <2>2. d \in Nat /\ (a - 1) + d = m /\ (a - 1) + d <= n
    BY <2>1
  <2>3. d \in A
    BY <1>3, <2>2
  <2> QED BY <2>2, <2>3
<1> QED BY <1>4

(* Number is a natural number, with or without digits. *)
LEMMA NumberType ==
  ASSUME NEW s, Len(s) \in Nat, NEW a \in Nat, 1 <= a, a - 1 <= Len(s)
  PROVE  Number(s, a) \in Nat
<1>1. PICK n : n = CHOOSE m \in (a - 1)..Len(s) : IsLast(s, a, m)
  OBVIOUS
<1>2. n \in (a - 1)..Len(s) /\ IsLast(s, a, n)
  BY <1>1, LastExists
<1>3. n \in Nat /\ a - 1 <= n
  BY <1>2
<1>4. PICK f : f = CHOOSE g : IsValue(g, s, a, n)
  OBVIOUS
<1>5. IsValue(f, s, a, n)
  BY <1>3, <1>4, ValueExists
<1>6. f[n] \in Nat
  <2>1. n \in (a - 1)..n
    BY <1>3
  <2> QED BY <1>2, <1>3, <1>5, <2>1, ValueType DEF IsLast
<1>7. Number(s, a) = f[n]
  BY <1>1, <1>4, NumberIsValue
<1> QED BY <1>6, <1>7

(* Conversion to int gives an int that differs by a multiple of the number *)
(* of ints.                                                                *)
LEMMA ToIntType ==
  ASSUME NEW n \in Int
  PROVE  /\ Ints \in Nat \ {0} /\ ToInt(n) \in -(MaxInt + 1)..MaxInt
         /\ (ToInt(n) - n) % Ints = 0
<1>1. MaxInt \in Nat /\ MaxInt + 1 \in Nat
  BY ProgramAssumption
<1>2. PICK M : M = Ints
  OBVIOUS
<1>3. M \in Nat \ {0} /\ M = 2 * (MaxInt + 1)
  BY <1>1, <1>2 DEF Ints
<1>4. PICK u \in Int : u = n + (MaxInt + 1)
  BY <1>1
<1>5. PICK r, k, h \in Int : r = u % M /\ r \in 0..(M - 1) /\ u = (M * k) + r /\ h = -k
  <2>1. PICK r, k : r = u % M /\ k = u \div M
    OBVIOUS
  <2>2. r \in 0..(M - 1) /\ k \in Int /\ u = (M * k) + r
    BY <1>3, <2>1, DivMod
  <2>3. r \in Int /\ -k \in Int
    BY <1>3, <2>2
  <2> QED BY <2>1, <2>2, <2>3
<1>6. ToInt(n) = r - (MaxInt + 1)
  BY <1>2, <1>4, <1>5 DEF ToInt
<1>7. ToInt(n) \in -(MaxInt + 1)..MaxInt
  BY <1>1, <1>3, <1>5, <1>6
<1>8. ToInt(n) - n = M * h
  <2>1. ToInt(n) - n = r - u
    BY <1>1, <1>4, <1>5, <1>6
  <2>2. r - u = -(M * k)
    BY <1>3, <1>5
  <2> QED BY <1>3, <1>5, <2>1, <2>2, TimesMinus
<1>9. (M * h) % M = 0
  BY <1>3, <1>5, TimesMod
<1> QED BY <1>2, <1>3, <1>7, <1>8, <1>9

(* An int stays what it is. *)
LEMMA ToIntOfInt ==
  ASSUME NEW n \in -(MaxInt + 1)..MaxInt
  PROVE  ToInt(n) = n
<1>1. MaxInt \in Nat /\ MaxInt + 1 \in Nat
  BY ProgramAssumption
<1>2. PICK M : M = Ints
  OBVIOUS
<1>3. M \in Nat \ {0} /\ M = 2 * (MaxInt + 1)
  BY <1>1, <1>2 DEF Ints
<1>4. n + (MaxInt + 1) \in 0..(M - 1)
  BY <1>1, <1>3
<1>5. (n + (MaxInt + 1)) % M = n + (MaxInt + 1)
  BY <1>3, <1>4
<1> QED BY <1>1, <1>2, <1>5 DEF ToInt

(* atoi gives an int, and 0 for no text at all. *)
LEMMA AtoiType ==
  ASSUME NEW s \in Seq(Symbol)
  PROVE  Atoi(s) \in -(MaxInt + 1)..MaxInt /\ (s = <<>> => Atoi(s) = 0)
<1>0. Len(s) \in Nat /\ (s # <<>> => 1 <= Len(s)) /\ MaxInt \in Nat /\ MaxLong \in Nat
  BY LenProperties, EmptySeq, ProgramAssumption
<1>1. PICK v : v = IF s = <<>> THEN 0
                   ELSE IF s[1] = "-" THEN -Number(s, 2)
                   ELSE Number(s, IF s[1] = "+" THEN 2 ELSE 1)
  OBVIOUS
<1>2. s # <<>> => Number(s, 1) \in Nat /\ Number(s, 2) \in Nat
  BY <1>0, NumberType
<1>3. v \in Int /\ (s = <<>> => v = 0)
  BY <1>1, <1>2
<1>4. ToLong(v) \in Int /\ (s = <<>> => ToLong(v) = 0)
  BY <1>0, <1>3 DEF ToLong
<1>5. Atoi(s) = ToInt(ToLong(v))
  BY <1>1 DEF Atoi
<1>6. ToInt(0) = 0
  <2>1. 0 \in -(MaxInt + 1)..MaxInt
    BY <1>0
  <2> QED BY <2>1, ToIntOfInt
<1> QED BY <1>4, <1>5, <1>6, ToIntType

(* Division drops what is behind the point: the rest is smaller than the   *)
(* divisor and has the sign of the dividend.                               *)
LEMMA Division ==
  ASSUME NEW u \in Int, NEW w \in Int, w # 0, NEW q,
         q = IF (u < 0) # (w < 0) THEN -(Abs(u) \div Abs(w)) ELSE Abs(u) \div Abs(w)
  PROVE  /\ q \in Int /\ Abs(u - q * w) < Abs(w)
         /\ u - q * w = 0 \/ (u - q * w < 0 <=> u < 0)
<1>1. PICK n, m : n = Abs(u) /\ m = Abs(w)
  OBVIOUS
<1>2. n \in Nat /\ m \in Nat \ {0}
  BY <1>1 DEF Abs
<1>3. PICK d, r : d = n \div m /\ d \in Nat /\ r \in 0..(m - 1) /\ n = (m * d) + r
  BY <1>2, DivModNat, Zenon
<1>4. d \in Nat /\ r \in 0..(m - 1) /\ n = (m * d) + r
  BY <1>3
<1>5. PICK t : t = m * d
  OBVIOUS
<1>6. t \in Int /\ n = t + r /\ d * m = t /\ (-d) * m = -t /\ d * (-m) = -t /\ (-d) * (-m) = t
  BY <1>2, <1>4, <1>5, TimesMinus
<1>7. q = IF (u < 0) # (w < 0) THEN -d ELSE d
  BY <1>1, <1>3
<1>8. CASE u < 0 /\ w < 0
  <2>1. u = -n /\ w = -m /\ q = d
    BY <1>1, <1>7, <1>8 DEF Abs
  <2>2. u - q * w = -r
    <3>1. q * w = -t
      BY <1>6, <2>1
    <3> QED BY <1>2, <1>4, <1>6, <2>1, <3>1
  <2> QED BY <1>1, <1>2, <1>4, <1>8, <2>1, <2>2 DEF Abs
<1>9. CASE u < 0 /\ ~(w < 0)
  <2>1. u = -n /\ w = m /\ q = -d
    BY <1>1, <1>7, <1>9 DEF Abs
  <2>2. u - q * w = -r
    <3>1. q * w = -t
      BY <1>6, <2>1
    <3> QED BY <1>2, <1>4, <1>6, <2>1, <3>1
  <2> QED BY <1>1, <1>2, <1>4, <1>9, <2>1, <2>2 DEF Abs
<1>10. CASE ~(u < 0) /\ w < 0
  <2>1. u = n /\ w = -m /\ q = -d
    BY <1>1, <1>7, <1>10 DEF Abs
  <2>2. u - q * w = r
    <3>1. q * w = t
      BY <1>6, <2>1
    <3> QED BY <1>2, <1>4, <1>6, <2>1, <3>1
  <2> QED BY <1>1, <1>2, <1>4, <1>10, <2>1, <2>2 DEF Abs
<1>11. CASE ~(u < 0) /\ ~(w < 0)
  <2>1. u = n /\ w = m /\ q = d
    BY <1>1, <1>7, <1>11 DEF Abs
  <2>2. u - q * w = r
    <3>1. q * w = t
      BY <1>6, <2>1
    <3> QED BY <1>2, <1>4, <1>6, <2>1, <3>1
  <2> QED BY <1>1, <1>2, <1>4, <1>11, <2>1, <2>2 DEF Abs
<1> QED BY <1>8, <1>9, <1>10, <1>11

(* The least int is its own negative.                                      *)
LEMMA LeastInt ==
  ASSUME NEW n, n = -(MaxInt + 1)
  PROVE  n # 0 /\ ToInt(-n) = n
<1>1. MaxInt \in Nat
  BY ProgramAssumption
<1>2. PICK M : M = Ints
  OBVIOUS
<1>3. M \in Nat \ {0} /\ M = 2 * (MaxInt + 1) /\ 1 \in Int
  BY <1>1, <1>2 DEF Ints
<1>4. -n + (MaxInt + 1) = M * 1 /\ n # 0
  BY <1>1, <1>3
<1>5. (M * 1) % M = 0
  BY <1>3, TimesMod
<1>6. ToInt(-n) = 0 - (MaxInt + 1)
  BY <1>2, <1>4, <1>5 DEF ToInt
<1> QED BY <1>1, <1>4, <1>6

-----------------------------------------------------------------------------
(* The programs *)

(* Nothing is read and nothing written. *)
LEMMA InitProg == ProgInit => ProgIInv
<1> SUFFICES ASSUME ProgInit
             PROVE  ProgIInv
  OBVIOUS
<1>1. query \in Seq(Symbol) /\ Len(query) \in Nat
  <2>1. PICK n \in 0..MaxQuery : query \in [1..n -> Symbol]
    BY DEF ProgInit, Query
  <2>2. n \in Nat
    BY <2>1, ProgramAssumption
  <2> QED BY <2>1, <2>2
<1>2. got = <<>> /\ got \in Seq(Symbol) /\ Len(got) = 0
  BY EmptySeq DEF ProgInit
<1>3. /\ program \in {"test_cgi", "mysql_cgi"} /\ method \in {"GET", "POST"}
      /\ progPc = "get" /\ page = <<>> /\ user = <<>>
  BY DEF ProgInit
<1>4. Len(got) <= Len(query) /\ \A i \in 1..Len(got) : got[i] = query[i]
  BY <1>1, <1>2
<1> QED BY <1>1, <1>2, <1>3, <1>4 DEF ProgIInv

(* What the invariant says of what has been read, and of what is written.  *)
Reading == /\ program \in {"test_cgi", "mysql_cgi"} /\ method \in {"GET", "POST"}
           /\ query \in Seq(Symbol) /\ got \in Seq(Symbol)
           /\ Len(got) <= Len(query) /\ \A i \in 1..Len(got) : got[i] = query[i]

(* The environment has all of the query. *)
LEMMA GetEnvProg ==
  ASSUME ProgIInv, GetEnv
  PROVE  ProgIInv'
<1>1. /\ progPc = "get" /\ progPc' = "cut" /\ got' = query
      /\ UNCHANGED <<program, method, query, page, user>>
  BY DEF GetEnv
<1>2. Len(query) \in Nat
  BY LenProperties DEF ProgIInv
<1>3. /\ got' \in Seq(Symbol) /\ Len(got') <= Len(query')
      /\ \A i \in 1..Len(got') : got'[i] = query'[i]
  BY <1>1, <1>2 DEF ProgIInv
<1>4. page = <<>> /\ user = <<>>
  BY <1>1 DEF ProgIInv
<1>6. program \in {"test_cgi", "mysql_cgi"} /\ method \in {"GET", "POST"} /\ query \in Seq(Symbol)
  BY DEF ProgIInv
<1> QED BY <1>1, <1>3, <1>4, <1>6 DEF ProgIInv

(* Each byte read is the next of the query, and the count is zero when all *)
(* of them are there.                                                      *)
LEMMA ReadBodyProg ==
  ASSUME ProgIInv, ReadBody
  PROVE  ProgIInv'
<1>1. progPc = "get" /\ UNCHANGED <<program, method, query, page, user>>
  BY DEF ReadBody
<1>2. /\ query \in Seq(Symbol) /\ got \in Seq(Symbol) /\ Len(got) <= Len(query)
      /\ \A i \in 1..Len(got) : got[i] = query[i]
  BY DEF ProgIInv
<1>3. Len(query) \in Nat /\ Len(got) \in Nat
  BY <1>2, LenProperties
<1>4. progPc' \in {"get", "cut"} /\ (progPc' = "cut" => got' = query)
  <2>1. Len(got) = Len(query) => got = query
    BY <1>2, SeqEqual
  <2> QED BY <1>1, <2>1 DEF ReadBody
<1>5. /\ got' \in Seq(Symbol) /\ Len(got') <= Len(query)
      /\ \A i \in 1..Len(got') : got'[i] = query[i]
  <2>1. CASE got' = got
    BY <1>2, <2>1
  <2>2. CASE Len(got) # Len(query) /\ got' = Append(got, query[Len(got) + 1])
    <3>1. PICK n \in Nat : n = Len(got)
      BY <1>3
    <3>2. n + 1 \in 1..Len(query) /\ n + 1 <= Len(query)
      BY <1>2, <1>3, <2>2, <3>1
    <3>3. query[n + 1] \in Symbol
      BY <1>2, <3>2, ElementOfSeq
    <3>4. /\ got' \in Seq(Symbol) /\ Len(got') = n + 1 /\ got'[n + 1] = query[n + 1]
          /\ \A i \in 1..n : got'[i] = got[i]
      BY <1>2, <2>2, <3>1, <3>3, AppendProperties
    <3>5. ASSUME NEW i \in 1..(n + 1)
          PROVE  got'[i] = query[i]
      <4>1. i = n + 1 \/ i \in 1..n
        OBVIOUS
      <4> QED BY <1>2, <3>1, <3>4, <4>1
    <3> QED BY <3>2, <3>4, <3>5
  <2> QED BY <2>1, <2>2 DEF ReadBody
<1>6. page = <<>> /\ user = <<>>
  BY <1>1 DEF ProgIInv
<1>8. program \in {"test_cgi", "mysql_cgi"} /\ method \in {"GET", "POST"}
  BY DEF ProgIInv
<1> QED BY <1>1, <1>2, <1>4, <1>5, <1>6, <1>8 DEF ProgIInv

(* The operands printed are those of the whole query. *)
LEMMA PrintOperandsProg ==
  ASSUME ProgIInv, PrintOperands
  PROVE  ProgIInv'
<1>1. /\ progPc = "cut" /\ program = "test_cgi" /\ page' = <<Operands(got)>> /\ progPc' = "print"
      /\ UNCHANGED <<program, method, query, got, user>>
  BY DEF PrintOperands
<1>2. got = query /\ user = <<>>
  BY <1>1 DEF ProgIInv
<1>3. Reading'
  BY <1>1 DEF ProgIInv, Reading
<1> QED BY <1>1, <1>2, <1>3 DEF ProgIInv, Reading

(* The signal changes nothing that has been printed. *)
LEMMA DivideProg ==
  ASSUME ProgIInv, Divide
  PROVE  ProgIInv'
<1>1. /\ progPc = "print" /\ NoQuotient /\ progPc' = "signal"
      /\ UNCHANGED <<program, method, query, got, page, user>>
  BY DEF Divide
<1>2. program = "test_cgi" /\ page = <<Operands(query)>> /\ user = <<>> /\ got = query
  BY <1>1 DEF ProgIInv
<1>3. Reading'
  BY <1>1 DEF ProgIInv, Reading
<1>4. NoQuotient'
  BY <1>1 DEF NoQuotient, x, y
<1> QED BY <1>1, <1>2, <1>3, <1>4 DEF ProgIInv, Reading

(* The results come behind the operands. *)
LEMMA TwoPages ==
  ASSUME NEW a, NEW b
  PROVE  Append(<<a>>, b) = <<a, b>> /\ <<a, b>>[1] = a /\ <<a, b>>[2] = b /\ <<a>>[1] = a
<1>1. <<a>> \in Seq({a, b}) /\ Len(<<a>>) = 1 /\ <<a>>[1] = a
  OBVIOUS
<1>2. <<a, b>> \in Seq({a, b}) /\ Len(<<a, b>>) = 2 /\ <<a, b>>[1] = a /\ <<a, b>>[2] = b
  OBVIOUS
<1>3. PICK s, t : s = <<a>> /\ t = <<a, b>>
  OBVIOUS
<1>4. /\ Append(s, b) \in Seq({a, b}) /\ Len(Append(s, b)) = 2
      /\ Append(s, b)[1] = a /\ Append(s, b)[2] = b
  BY <1>1, <1>3, AppendProperties
<1>5. PICK u : u = Append(s, b)
  OBVIOUS
<1>6. \A i \in 1..Len(u) : u[i] = t[i]
  BY <1>2, <1>3, <1>4, <1>5
<1>7. u = t
  BY <1>2, <1>3, <1>4, <1>5, <1>6, SeqEqual
<1> QED BY <1>1, <1>2, <1>3, <1>5, <1>7

(* The results are those of the operands printed before. *)
LEMMA PrintResultsProg ==
  ASSUME ProgIInv, PrintResults
  PROVE  ProgIInv'
<1>1. /\ progPc = "print" /\ ~NoQuotient /\ progPc' = "exit0"
      /\ page' = Append(page, Results(Quotient))
      /\ UNCHANGED <<program, method, query, got, user>>
  BY DEF PrintResults
<1>2. program = "test_cgi" /\ page = <<Operands(query)>> /\ user = <<>> /\ got = query
  BY <1>1 DEF ProgIInv
<1>3. Reading'
  BY <1>1 DEF ProgIInv, Reading
<1>4. page' = <<Operands(query), Results(Quotient)>> /\ page'[1] = page[1]
  BY <1>1, <1>2, TwoPages
<1>5. x' = x /\ y' = y
  BY <1>4 DEF x, y
<1>6. Results(Quotient)' = Results(Quotient) /\ ~NoQuotient'
  BY <1>1, <1>5 DEF Results, Quotient, NoQuotient
<1>7. page' = <<Operands(query'), Results(Quotient)'>>
  BY <1>1, <1>4, <1>6
<1> QED BY <1>1, <1>2, <1>3, <1>6, <1>7 DEF ProgIInv, Reading

(* The row inserted, if it is, is that of the whole query. *)
LEMMA InsertSqlProg ==
  ASSUME ProgIInv, InsertSql \/ InsertSqlFails
  PROVE  ProgIInv'
<1>1. /\ progPc = "cut" /\ program = "mysql_cgi" /\ progPc' = "exit0"
      /\ user' \in {user, Append(user, Row(got))}
      /\ UNCHANGED <<program, method, query, got, page>>
  BY DEF InsertSql, InsertSqlFails
<1>2. got = query /\ page = <<>> /\ user = <<>>
  BY <1>1 DEF ProgIInv
<1>3. Reading'
  BY <1>1 DEF ProgIInv, Reading
<1>4. user' \in {<<>>, <<Row(query')>>}
  BY <1>1, <1>2
<1> QED BY <1>1, <1>2, <1>3, <1>4 DEF ProgIInv, Reading

(* Every step keeps the invariant. *)
LEMMA NextProg == ProgIInv /\ [ProgNext]_progVars => ProgIInv'
<1> SUFFICES ASSUME ProgIInv, [ProgNext]_progVars
             PROVE  ProgIInv'
  OBVIOUS
<1>1. CASE ProgNext
  BY <1>1, GetEnvProg, ReadBodyProg, PrintOperandsProg, DivideProg, PrintResultsProg,
     InsertSqlProg DEF ProgNext
<1>2. CASE UNCHANGED progVars
  BY <1>2 DEF progVars, ProgIInv, NoQuotient, Results, Quotient, x, y
<1> QED BY <1>1, <1>2

(* What has been read is what was sent so far, and what is printed or      *)
(* inserted has been made of all of it.                                    *)
THEOREM ProgInvariant == ProgSpec => []ProgIInv
<1> QED BY InitProg, NextProg, PTL DEF ProgSpec

(* Of a form, test_cgi prints and mysql_cgi inserts the names and values   *)
(* that were sent, however long they are and however many separators they  *)
(* have in them.                                                           *)
THEOREM SentIsWritten == ProgSpec => []OperandsAsSent
<1>1. ProgIInv => OperandsAsSent
  <2> SUFFICES ASSUME ProgIInv, NEW i \in 1..Len(query), NEW j \in 1..Len(query),
                      NEW k \in 1..Len(query), IsForm(query, i, j, k)
               PROVE  LET value1 == SubSeq(query, i + 1, j - 1)
                          value2 == SubSeq(query, k + 1, Len(query))
                      IN  /\ page # <<>> =>
                               page[1] = [name1 |-> SubSeq(query, 1, i - 1), value1 |-> value1,
                                          name2 |-> SubSeq(query, j + 1, k - 1),
                                          value2 |-> value2]
                          /\ user # <<>> => user = <<[name |-> value1, passwd |-> value2]>>
    BY DEF OperandsAsSent
  <2>1. query \in Seq(Symbol)
    BY DEF ProgIInv
  <2>2. Operands(query) =
          [name1 |-> SubSeq(query, 1, i - 1), value1 |-> SubSeq(query, i + 1, j - 1),
           name2 |-> SubSeq(query, j + 1, k - 1), value2 |-> SubSeq(query, k + 1, Len(query))]
    BY <2>1, OperandsOfForm
  <2>3. page # <<>> => page[1] = Operands(query)
    BY DEF ProgIInv
  <2>4. user # <<>> => user = <<Row(query)>>
    BY DEF ProgIInv
  <2>5. Row(query) = [name |-> SubSeq(query, i + 1, j - 1),
                      passwd |-> SubSeq(query, k + 1, Len(query))]
    BY <2>2 DEF Row
  <2> QED BY <2>2, <2>3, <2>4, <2>5
<1> QED BY <1>1, ProgInvariant, PTL

(* A page with results has the right ones for ints of any width, and only  *)
(* a division by zero, or of the least int by minus one, kills test_cgi.   *)
THEOREM ResultsHold == ProgSpec => []ResultsAreRight
<1>1. ASSUME ProgIInv, program = "test_cgi", page # <<>>, page[1] = Operands(query)
      PROVE  /\ x \in -(MaxInt + 1)..MaxInt /\ y \in -(MaxInt + 1)..MaxInt
             /\ y # 0 => \E j, k \in 1..Len(query) : j < k /\ query[j] = "&" /\ query[k] = "="
  <2>1. query \in Seq(Symbol)
    BY <1>1 DEF ProgIInv
  <2>2. Operands(query).value1 \in Seq(Symbol) /\ Operands(query).value2 \in Seq(Symbol)
    BY <2>1, OperandsType
  <2>3. x = Atoi(Operands(query).value1) /\ y = Atoi(Operands(query).value2)
    BY <1>1 DEF x, y
  <2>4. y # 0 => Operands(query).value2 # <<>>
    BY <2>2, <2>3, AtoiType
  <2> QED BY <2>1, <2>2, <2>3, <2>4, AtoiType, SecondValue
<1>2. ASSUME ProgIInv
      PROVE  ResultsAreRight
  <2>1. CASE progPc = "exit0" /\ program = "test_cgi"
    <3>1. ~NoQuotient /\ page = <<Operands(query), Results(Quotient)>>
      BY <1>2, <2>1 DEF ProgIInv
    <3>2. page # <<>> /\ page[1] = Operands(query) /\ page[2] = Results(Quotient)
      BY <3>1
    <3>3. PICK u, w, q : u = x /\ w = y /\ q = Quotient
      OBVIOUS
    <3>4. /\ u \in Int /\ w \in Int /\ w # 0
          /\ \E j, k \in 1..Len(query) : j < k /\ query[j] = "&" /\ query[k] = "="
      <4>1. MaxInt \in Nat
        BY ProgramAssumption
      <4>2. u \in -(MaxInt + 1)..MaxInt /\ w \in -(MaxInt + 1)..MaxInt
        BY <1>1, <1>2, <2>1, <3>2, <3>3
      <4>3. w # 0
        BY <3>1, <3>3 DEF NoQuotient
      <4> QED BY <1>1, <1>2, <2>1, <3>2, <3>3, <4>1, <4>2, <4>3
    <3>5. q = IF (u < 0) # (w < 0) THEN -(Abs(u) \div Abs(w)) ELSE Abs(u) \div Abs(w)
      BY <3>3 DEF Quotient
    <3>6. /\ q \in Int /\ Abs(u - q * w) < Abs(w)
          /\ u - q * w = 0 \/ (u - q * w < 0 <=> u < 0)
      BY <3>4, <3>5, Division
    <3>7. page[2] = [sum |-> ToInt(u + w), diff |-> ToInt(u - w), prod |-> ToInt(u * w), quot |-> q]
      BY <3>2, <3>3 DEF Results
    <3>8. /\ (ToInt(u + w) - (u + w)) % Ints = 0
          /\ (ToInt(u - w) - (u - w)) % Ints = 0
          /\ (ToInt(u * w) - (u * w)) % Ints = 0
      <4>1. u + w \in Int /\ u - w \in Int /\ u * w \in Int
        BY <3>4, TimesMinus
      <4> QED BY <4>1, ToIntType
    <3>9. progPc # "signal"
      BY <2>1
    <3> QED BY <3>3, <3>4, <3>6, <3>7, <3>8, <3>9 DEF ResultsAreRight
  <2>2. CASE progPc = "signal"
    <3>1. program = "test_cgi" /\ page = <<Operands(query)>> /\ NoQuotient
      BY <1>2, <2>2 DEF ProgIInv
    <3>2. y = 0 \/ (x # 0 /\ ToInt(-x) = x)
      BY <3>1, LeastInt DEF NoQuotient
    <3> QED BY <2>2, <3>2 DEF ResultsAreRight
  <2>3. CASE progPc # "signal" /\ ~(progPc = "exit0" /\ program = "test_cgi")
    BY <2>3 DEF ResultsAreRight
  <2> QED BY <2>1, <2>2, <2>3
<1> QED BY <1>2, ProgInvariant, PTL
=============================================================================
