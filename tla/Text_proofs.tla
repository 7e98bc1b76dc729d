---------------------------- MODULE Text_proofs -----------------------------
(***************************************************************************)
(* The line reader returns the lines that were sent, and the parser of     *)
(* patterns spells what it has consumed, for texts of any length.          *)
(***************************************************************************)
EXTENDS ReadLine, Formatter, TLAPS, SequenceTheorems, WellFoundedInduction

-----------------------------------------------------------------------------
(* Induction, and what FlattenSeq computes *)

(* Numbers are well-founded: where there are some, there is a least.       *)
LEMMA LeastNatural ==
  ASSUME NEW T, T \subseteq Nat, T # {}
  PROVE  \E n \in T : \A m \in T : n <= m
<1> DEFINE R == OpToRel(<, Nat)
<1>1. IsWellFoundedOn(R, Nat)
  BY NatLessThanWellFounded
<1>2. \A m, n \in Nat : m < n => <<m, n>> \in R
  BY DEF OpToRel
<1>3. PICK n \in T : \A m \in T : ~(<<m, n>> \in R)
  <2> HIDE DEF R
  <2> QED BY <1>1, WFMin
<1>4. \A m \in T : ~(m < n)
  <2> HIDE DEF R
  <2> QED BY <1>2, <1>3
<1> QED BY <1>4

(* Induction, over a set rather than a predicate: a least number that is   *)
(* not in the set would follow one that is.                                *)
LEMMA SetInduction ==
  ASSUME NEW S, 0 \in S, \A n \in Nat : n \in S => n + 1 \in S
  PROVE  Nat \subseteq S
<1>1. SUFFICES ASSUME Nat \ S # {}
               PROVE  FALSE
  OBVIOUS
<1>2. PICK n \in Nat \ S : \A m \in Nat \ S : n <= m
  <2>1. Nat \ S \subseteq Nat
    OBVIOUS
  <2> QED BY <1>1, <2>1, LeastNatural
<1>3. n - 1 \in Nat /\ (n - 1) + 1 = n /\ ~(n <= n - 1)
  OBVIOUS
<1>4. n - 1 \in S
  BY <1>2, <1>3
<1> QED BY <1>2, <1>3, <1>4

IsFlat(f, ss) == f = [i \in 1..Len(ss) |-> IF i = 1 THEN ss[i] ELSE f[i - 1] \o ss[i]]

(* FlattenSeq is the last round of such an f, as its definition has it. *)
LEMMA FlattenIsFlat ==
  ASSUME NEW ss, Len(ss) # 0
  PROVE  FlattenSeq(ss) = (CHOOSE f : IsFlat(f, ss))[Len(ss)]
BY DEF FlattenSeq, IsFlat

(* Round i of flattening puts element i behind what there is. *)
LEMMA FlatRound ==
  ASSUME NEW ss, NEW f, IsFlat(f, ss), NEW i \in 1..Len(ss)
  PROVE  f[i] = IF i = 1 THEN ss[i] ELSE f[i - 1] \o ss[i]
<1>1. f = [j \in 1..Len(ss) |-> IF j = 1 THEN ss[j] ELSE f[j - 1] \o ss[j]]
  BY DEF IsFlat
<1>2. \A g : f = [j \in 1..Len(ss) |-> g[j]] => f[i] = g[i]
  OBVIOUS
<1> QED BY <1>1

(* Sequences that begin alike are flattened alike as far as they do. *)
LEMMA FlatAgree ==
  ASSUME NEW T, NEW ss \in Seq(T), NEW tt \in Seq(T), NEW n \in Nat,
         n <= Len(ss), n <= Len(tt), \A i \in 1..n : ss[i] = tt[i],
         NEW f, IsFlat(f, ss), NEW g, IsFlat(g, tt)
  PROVE  \A i \in 1..n : f[i] = g[i]
<1> DEFINE A == {i \in Nat : i \in 1..n => f[i] = g[i]}
<1>1. 0 \in A
  OBVIOUS
<1>2. ASSUME NEW i \in Nat, i \in A  PROVE i + 1 \in A
  <2>1. SUFFICES ASSUME i + 1 \in 1..n PROVE f[i + 1] = g[i + 1]
    OBVIOUS
  <2>2. i + 1 \in 1..Len(ss) /\ i + 1 \in 1..Len(tt)
    BY <2>1, LenProperties
  <2>3. f[i + 1] = IF i + 1 = 1 THEN ss[i + 1] ELSE f[(i + 1) - 1] \o ss[i + 1]
    BY <2>2, FlatRound
  <2>4. g[i + 1] = IF i + 1 = 1 THEN tt[i + 1] ELSE g[(i + 1) - 1] \o tt[i + 1]
    BY <2>2, FlatRound
  <2>5. (i + 1) - 1 = i /\ ss[i + 1] = tt[i + 1]
    BY <2>1
  <2>6. i + 1 # 1 => i \in 1..n
    BY <2>1
  <2> QED BY <1>2, <2>3, <2>4, <2>5, <2>6
<1>3. Nat \subseteq A
  <2> HIDE DEF A
  <2> QED BY <1>1, <1>2, SetInduction
<1> QED BY <1>3

(* One more element, one more round. *)
LEMMA FlatExtends ==
  ASSUME NEW T, NEW ss \in Seq(T), NEW s \in T, NEW f, IsFlat(f, ss)
  PROVE  \E g : IsFlat(g, Append(ss, s))
<1> DEFINE n == Len(ss)
           tt == Append(ss, s)
           g == [i \in 1..(n + 1) |-> IF i <= n THEN f[i] ELSE IF i = 1 THEN s ELSE f[n] \o s]
<1>0. n \in Nat /\ Len(tt) = n + 1 /\ tt[n + 1] = s /\ \A i \in 1..n : tt[i] = ss[i]
  BY AppendProperties, LenProperties
<1>1. ASSUME NEW i \in 1..(n + 1)
      PROVE  g[i] = IF i = 1 THEN tt[i] ELSE g[i - 1] \o tt[i]
  <2>1. CASE i = n + 1
    <3> HIDE DEF tt
    <3> QED BY <1>0, <2>1
  <2>2. CASE i # n + 1
    <3>1. i \in 1..n /\ (i # 1 => i - 1 \in 1..n)
      BY <1>0, <2>2
    <3>2. f[i] = IF i = 1 THEN ss[i] ELSE f[i - 1] \o ss[i]
      BY <3>1, FlatRound
    <3>3. g[i] = f[i] /\ (i # 1 => g[i - 1] = f[i - 1])
      BY <3>1, <1>0
    <3> HIDE DEF g, tt
    <3> QED BY <1>0, <3>1, <3>2, <3>3
  <2> QED BY <2>1, <2>2
<1>2. g = [i \in 1..(n + 1) |-> IF i = 1 THEN tt[i] ELSE g[i - 1] \o tt[i]]
  <2>1. g = [i \in 1..(n + 1) |-> g[i]]
    OBVIOUS
  <2> HIDE DEF g, tt
  <2> QED BY <1>1, <2>1
<1>3. IsFlat(g, tt)
  <2> HIDE DEF g, tt
  <2> QED BY <1>0, <1>2 DEF IsFlat
<1> QED BY <1>3

(* There are such rounds for every sequence; only now FlattenSeq, a        *)
(* CHOOSE, is known to be something.                                       *)
LEMMA FlatExists ==
  ASSUME NEW T, NEW ss \in Seq(T)
  PROVE  \E f : IsFlat(f, ss)
<1> DEFINE A == {n \in Nat : \A tt \in Seq(T) : Len(tt) = n => \E f : IsFlat(f, tt)}
<1>1. 0 \in A
  <2>1. SUFFICES ASSUME NEW tt \in Seq(T), Len(tt) = 0
                 PROVE  \E f : IsFlat(f, tt)
    OBVIOUS
  <2>2. IsFlat([i \in {} |-> 0], tt)
    BY <2>1 DEF IsFlat
  <2> QED BY <2>2
<1>2. ASSUME NEW n \in Nat, n \in A  PROVE n + 1 \in A
  <2>1. SUFFICES ASSUME NEW tt \in Seq(T), Len(tt) = n + 1
                 PROVE  \E f : IsFlat(f, tt)
    OBVIOUS
  <2>2. tt # <<>>
    BY <2>1
  <2>3. PICK uu \in Seq(T), s \in T : tt = Append(uu, s)
    BY <2>2, SequenceEmptyOrAppend
  <2>4. Len(uu) = n
    <3>1. Len(tt) = Len(uu) + 1 /\ Len(uu) \in Nat
      BY <2>3, AppendProperties, LenProperties
    <3> QED BY <2>1, <3>1
  <2>5. PICK f : IsFlat(f, uu)
    BY <1>2, <2>4
  <2> QED BY <2>3, <2>5, FlatExtends
<1>3. Nat \subseteq A
  <2> HIDE DEF A
  <2> QED BY <1>1, <1>2, SetInduction
<1> QED BY <1>3, LenProperties

(* All such f end alike, so that FlattenSeq is the last round of any. *)
LEMMA FlattenByRounds ==
  ASSUME NEW T, NEW ss \in Seq(T), Len(ss) # 0, NEW f, IsFlat(f, ss)
  PROVE  FlattenSeq(ss) = f[Len(ss)]
<1> DEFINE g == CHOOSE h : IsFlat(h, ss)
<1>1. IsFlat(g, ss)
  OBVIOUS
<1>2. Len(ss) \in Nat /\ Len(ss) \in 1..Len(ss)
  BY LenProperties
<1>3. g[Len(ss)] = f[Len(ss)]
  <2> HIDE DEF g
  <2> QED BY <1>1, <1>2, FlatAgree
<1> QED BY <1>3, FlattenIsFlat

(* Nothing is flattened to nothing. *)
LEMMA FlattenEmpty == FlattenSeq(<<>>) = <<>>
BY DEF FlattenSeq

(* What is appended to a sequence of sequences is put behind what it is    *)
(* flattened to.                                                           *)
LEMMA FlattenAppend ==
  ASSUME NEW S, NEW ss \in Seq(Seq(S)), NEW s \in Seq(S)
  PROVE  FlattenSeq(Append(ss, s)) = FlattenSeq(ss) \o s
<1> DEFINE tt == Append(ss, s)
<1>0. /\ Len(ss) \in Nat /\ tt \in Seq(Seq(S)) /\ Len(tt) = Len(ss) + 1
      /\ tt[Len(ss) + 1] = s /\ \A i \in 1..Len(ss) : tt[i] = ss[i]
  BY AppendProperties, LenProperties
<1> HIDE DEF tt
<1>1. PICK g : IsFlat(g, tt)
  BY <1>0, FlatExists
<1>2. FlattenSeq(tt) = g[Len(ss) + 1]
  BY <1>0, <1>1, FlattenByRounds
<1>3. g[Len(ss) + 1] = IF Len(ss) + 1 = 1 THEN s ELSE g[Len(ss)] \o s
  <2>1. Len(ss) + 1 \in 1..Len(tt) /\ (Len(ss) + 1) - 1 = Len(ss)
    BY <1>0
  <2> QED BY <1>0, <1>1, <2>1, FlatRound
<1>4. CASE Len(ss) = 0
  <2>1. ss = <<>>
    BY <1>4, EmptySeq
  <2>2. <<>> \o s = s
    BY ConcatEmptySeq
  <2>3. FlattenSeq(ss) = <<>>
    BY <2>1, FlattenEmpty
  <2>4. FlattenSeq(tt) = s
    BY <1>2, <1>3, <1>4
  <2> QED BY <2>2, <2>3, <2>4 DEF tt
<1>5. CASE Len(ss) # 0
  <2>1. PICK f : IsFlat(f, ss)
    BY FlatExists
  <2>2. FlattenSeq(ss) = f[Len(ss)]
    BY <1>5, <2>1, FlattenByRounds
  <2>3. f[Len(ss)] = g[Len(ss)]
    <3>1. Len(ss) \in 1..Len(ss) /\ Len(ss) <= Len(tt) /\ Len(ss) <= Len(ss)
      BY <1>0, <1>5
    <3>2. \A i \in 1..Len(ss) : ss[i] = tt[i]
      BY <1>0
    <3>3. \A i \in 1..Len(ss) : f[i] = g[i]
      <4> DEFINE T == Seq(S)
                 n == Len(ss)
      <4>1. ss \in Seq(T) /\ tt \in Seq(T) /\ n \in Nat /\ n <= Len(ss) /\ n <= Len(tt)
        BY <1>0, <3>1
      <4>2. \A i \in 1..n : ss[i] = tt[i]
        BY <3>2
      <4>3. \A i \in 1..n : f[i] = g[i]
        <5> HIDE DEF T, n
        <5> QED BY <1>1, <2>1, <4>1, <4>2, FlatAgree
      <4> QED BY <4>3
    <3> QED BY <3>1, <3>3
  <2>4. Len(ss) + 1 # 1
    BY <1>0, <1>5
  <2> QED BY <1>2, <1>3, <2>2, <2>3, <2>4 DEF tt
<1> QED BY <1>4, <1>5

(* Sequences over S are flattened to one over S. *)
LEMMA FlattenType ==
  ASSUME NEW S, NEW ss \in Seq(Seq(S))
  PROVE  FlattenSeq(ss) \in Seq(S)
<1> DEFINE A == {n \in Nat : \A tt \in Seq(Seq(S)) : Len(tt) = n => FlattenSeq(tt) \in Seq(S)}
<1>1. 0 \in A
  BY FlattenEmpty, EmptySeq
<1>2. ASSUME NEW n \in Nat, n \in A  PROVE n + 1 \in A
  <2>1. SUFFICES ASSUME NEW tt \in Seq(Seq(S)), Len(tt) = n + 1
                 PROVE  FlattenSeq(tt) \in Seq(S)
    OBVIOUS
  <2>2. tt # <<>>
    BY <2>1
  <2>3. PICK uu \in Seq(Seq(S)), s \in Seq(S) : tt = Append(uu, s)
    BY <2>2, SequenceEmptyOrAppend
  <2>4. Len(uu) = n
    <3>1. Len(tt) = Len(uu) + 1 /\ Len(uu) \in Nat
      BY <2>3, AppendProperties, LenProperties
    <3> QED BY <2>1, <3>1
  <2>5. FlattenSeq(uu) \in Seq(S)
    BY <1>2, <2>4
  <2>6. FlattenSeq(tt) = FlattenSeq(uu) \o s
    BY <2>3, FlattenAppend
  <2> QED BY <2>5, <2>6, ConcatProperties
<1>3. Nat \subseteq A
  <2> HIDE DEF A
  <2> QED BY <1>1, <1>2, SetInduction
<1> QED BY <1>3, LenProperties

(* A sequence that is one element longer and begins alike is the other     *)
(* with this element appended.                                             *)
LEMMA IsAppend ==
  ASSUME NEW S, NEW s \in Seq(S), NEW e \in S, NEW t \in Seq(S),
         Len(t) = Len(s) + 1, t[Len(s) + 1] = e, \A i \in 1..Len(s) : t[i] = s[i]
  PROVE  t = Append(s, e)
<1> DEFINE r == Append(s, e)
           n == Len(s)
<1>1. r \in Seq(S) /\ Len(r) = n + 1 /\ r[n + 1] = e /\ \A i \in 1..n : r[i] = s[i]
  BY AppendProperties
<1>2. n \in Nat
  BY LenProperties
<1> HIDE DEF r, n
<1>3. ASSUME NEW i \in 1..(n + 1)
      PROVE  t[i] = r[i]
  <2>1. i = n + 1 \/ i \in 1..n
    BY <1>2
  <2> QED BY <1>1, <2>1 DEF n
<1>4. Len(t) = n + 1
  BY DEF n
<1>5. t = r
  BY <1>1, <1>3, <1>4, SeqEqual
<1> QED BY <1>5 DEF r

(* ConcatAssociative in the form in which it is used here. *)
LEMMA Associative ==
  ASSUME NEW S, NEW s, NEW t, NEW u, s \in Seq(S), t \in Seq(S), u \in Seq(S)
  PROVE  (s \o t) \o u = s \o (t \o u)
BY ConcatAssociative

(* FlattenAppend for a sequence that is known by its elements. *)
LEMMA FlattenGrows ==
  ASSUME NEW S, NEW ps \in Seq(Seq(S)), NEW e \in Seq(S), NEW qs \in Seq(Seq(S)),
         Len(qs) = Len(ps) + 1, qs[Len(ps) + 1] = e, \A i \in 1..Len(ps) : qs[i] = ps[i]
  PROVE  FlattenSeq(qs) = FlattenSeq(ps) \o e
<1>1. qs = Append(ps, e)
  <2> DEFINE T == Seq(S)
  <2>1. ps \in Seq(T) /\ e \in T /\ qs \in Seq(T)
    OBVIOUS
  <2> HIDE DEF T
  <2> QED BY <2>1, IsAppend
<1> QED BY <1>1, FlattenAppend

-----------------------------------------------------------------------------
(* ReadLine *)

(* What byte i adds to the reference. *)
Piece(s, i) == IF ~Counts(s, i) THEN <<>> ELSE <<IF s[i] = CR THEN LF ELSE s[i]>>

(* A byte adds bytes, or nothing, to the reference. *)
LEMMA PieceType ==
  ASSUME NEW s \in Seq(Byte), NEW i \in 1..Len(s)
  PROVE  Piece(s, i) \in Seq(Byte)
<1>1. s[i] \in Byte /\ LF \in Byte
  BY ElementOfSeq DEF Byte
<1> QED BY <1>1 DEF Piece

(* The reference of one byte more has what this byte adds: that it counts  *)
(* depends on the byte before it only.                                     *)
LEMMA NormalAppend ==
  ASSUME NEW s \in Seq(Byte), NEW b \in Byte
  PROVE  Normal(Append(s, b)) = Normal(s) \o Piece(Append(s, b), Len(s) + 1)
<1> DEFINE n == Len(s)
           t == Append(s, b)
           ps == [i \in 1..n |-> Piece(s, i)]
           pt == [i \in 1..Len(t) |-> Piece(t, i)]
           e == Piece(t, n + 1)
<1>1. n \in Nat /\ t \in Seq(Byte) /\ Len(t) = n + 1 /\ \A i \in 1..n : t[i] = s[i]
  BY AppendProperties, LenProperties
<1>2. \A i \in 1..n : Counts(s, i) <=> Counts(t, i)
  <2> HIDE DEF t
  <2> QED BY <1>1 DEF Counts
<1>3. \A i \in 1..n : Piece(s, i) = Piece(t, i)
  <2> HIDE DEF t
  <2> QED BY <1>1, <1>2 DEF Piece
<1>4. ps \in Seq(Seq(Byte)) /\ Len(ps) = n
  <2>1. \A i \in 1..n : Piece(s, i) \in Seq(Byte)
    BY PieceType
  <2> QED BY <1>1, <2>1
<1>5. e \in Seq(Byte)
  <2> HIDE DEF t
  <2> QED BY <1>1, PieceType
<1>6. pt = Append(ps, e)
  <2> DEFINE P == Seq(Byte)
  <2>1. ps \in Seq(P) /\ e \in P /\ Len(ps) = n
    BY <1>4, <1>5
  <2>2. \A i \in 1..(n + 1) : pt[i] = Piece(t, i)
    <3> HIDE DEF t
    <3> QED BY <1>1
  <2>3. pt[n + 1] = e /\ \A i \in 1..n : pt[i] = ps[i]
    <3>1. \A i \in 1..n : ps[i] = Piece(t, i)
      <4> HIDE DEF t
      <4> QED BY <1>3
    <3>2. n + 1 \in 1..(n + 1) /\ \A i \in 1..n : i \in 1..(n + 1)
      BY <1>1
    <3> HIDE DEF ps, pt, t
    <3> QED BY <2>2, <3>1, <3>2
  <2>4. pt \in Seq(P) /\ Len(pt) = n + 1
    <3>1. \A i \in 1..(n + 1) : Piece(t, i) \in P
      <4> HIDE DEF t
      <4> QED BY <1>1, PieceType
    <3> HIDE DEF t, P
    <3> QED BY <1>1, <3>1
  <2> HIDE DEF ps, pt, e, P
  <2> QED BY <2>1, <2>3, <2>4, IsAppend
<1>7. FlattenSeq(Append(ps, e)) = FlattenSeq(ps) \o e
  <2> HIDE DEF ps, e
  <2> QED BY <1>4, <1>5, FlattenAppend
<1>8. Normal(t) = FlattenSeq(pt) /\ Normal(s) = FlattenSeq(ps)
  BY DEF Normal, Piece
<1> QED BY <1>6, <1>7, <1>8

(* The same for the beginnings of what was sent. *)
LEMMA NormalNext ==
  ASSUME NEW s \in Seq(Byte), NEW n \in Nat, n < Len(s)
  PROVE  Normal(SubSeq(s, 1, n + 1)) = Normal(SubSeq(s, 1, n)) \o Piece(s, n + 1)
<1> DEFINE p == SubSeq(s, 1, n)
           q == SubSeq(s, 1, n + 1)
           b == s[n + 1]
<1>1. Len(s) \in Nat /\ b \in Byte /\ n + 1 \in 1..Len(s)
  BY LenProperties, ElementOfSeq
<1>2. p \in Seq(Byte) /\ Len(p) = n /\ \A i \in 1..n : p[i] = s[i]
  BY <1>1, ElementOfSeq, SubSeqProperties
<1>3. q \in Seq(Byte) /\ Len(q) = n + 1 /\ \A i \in 1..(n + 1) : q[i] = s[i]
  BY <1>1, ElementOfSeq, SubSeqProperties
<1> HIDE DEF p, q
<1>4. q[n + 1] = b /\ \A i \in 1..n : q[i] = p[i]
  BY <1>1, <1>2, <1>3
<1>5. q = Append(p, b)
  BY <1>1, <1>2, <1>3, <1>4, IsAppend
<1>6. Piece(q, n + 1) = Piece(s, n + 1)
  <2>1. q[n + 1] = s[n + 1] /\ (n + 1 > 1 => q[(n + 1) - 1] = s[(n + 1) - 1])
    BY <1>3
  <2> QED BY <2>1 DEF Piece, Counts
<1>7. Normal(Append(p, b)) = Normal(p) \o Piece(Append(p, b), Len(p) + 1)
  BY <1>1, <1>2, NormalAppend
<1> QED BY <1>2, <1>5, <1>6, <1>7 DEF p, q

(* The reference is made of bytes. *)
LEMMA NormalType ==
  ASSUME NEW s \in Seq(Byte), NEW n \in 0..Len(s)
  PROVE  Normal(SubSeq(s, 1, n)) \in Seq(Byte)
<1> DEFINE q == SubSeq(s, 1, n)
<1>1. q \in Seq(Byte)
  BY LenProperties, ElementOfSeq, SubSeqProperties
<1> HIDE DEF q
<1> DEFINE ps == [i \in 1..Len(q) |-> Piece(q, i)]
<1>2. ps \in Seq(Seq(Byte))
  <2>1. Len(q) \in Nat /\ \A i \in 1..Len(q) : Piece(q, i) \in Seq(Byte)
    BY <1>1, PieceType, LenProperties
  <2> QED BY <2>1
<1>3. Normal(q) = FlattenSeq(ps)
  BY DEF Normal, Piece
<1>4. FlattenSeq(ps) \in Seq(Byte)
  <2> HIDE DEF ps
  <2> QED BY <1>2, FlattenType
<1> QED BY <1>3, <1>4 DEF q

Taken == IF pc \in {"peek", "eat"} THEN pos - 1 ELSE pos
Text  == FlattenSeq(lines) \o out
Typed == sent \in Seq(Byte) /\ out \in Seq(Byte) /\ lines \in Seq(Seq(Byte)) /\ Text \in Seq(Byte)

(* The types the lemmas need, taken from those of the module. *)
LEMMA WellTyped == TypeOK => Typed
<1> SUFFICES ASSUME TypeOK
             PROVE  Typed
  OBVIOUS
<1>1. sent \in Seq(Byte) /\ out \in Seq(Char) /\ lines \in Seq(Seq(Byte))
  BY DEF TypeOK
<1>2. Char \subseteq Byte
  BY DEF Byte
<1>3. out \in Seq(Byte)
  BY <1>1, <1>2, SeqMonotonic
<1>4. FlattenSeq(lines) \in Seq(Byte)
  BY <1>1, FlattenType
<1>5. FlattenSeq(lines) \o out \in Seq(Byte)
  BY <1>3, <1>4, ConcatProperties
<1> QED BY <1>1, <1>3, <1>5 DEF Typed, Text

(* Only the end of what was read, and the byte after it, matter.           *)
LEMMA MatchAgain ==
  ASSUME sent' = sent, sent \in Seq(Byte), LinesMatch, Taken' = Taken, Text' = Text
  PROVE  LinesMatch'
BY DEF LinesMatch, Text, Taken

(* One more byte is taken, and adds what the reference says it adds. *)
LEMMA MatchOneMore ==
  ASSUME sent' = sent, sent \in Seq(Byte), LinesMatch,
         Taken \in Nat, Taken < Len(sent), Taken' = Taken + 1,
         Text' = Text \o Piece(sent, Taken + 1)
  PROVE  LinesMatch'
<1>1. Text = Normal(SubSeq(sent, 1, Taken))
  BY DEF LinesMatch, Text, Taken
<1>2. Normal(SubSeq(sent, 1, Taken + 1)) = Normal(SubSeq(sent, 1, Taken)) \o Piece(sent, Taken + 1)
  BY NormalNext
<1>3. Text' = Normal(SubSeq(sent', 1, Taken'))
  BY <1>1, <1>2
<1> QED BY <1>3 DEF LinesMatch, Text, Taken

(* The two ways in which a step adds to the text. *)
LEMMA Kept ==
  ASSUME TypeOK, NEW b \in Char, out' = Append(out, b), lines' = lines
  PROVE  out' \in Seq(Char) /\ Text' = Text \o <<b>>
<1>1. out \in Seq(Char)
  BY DEF TypeOK
<1>2. out' \in Seq(Char) /\ out' = out \o <<b>>
  BY <1>1, AppendProperties, AppendIsConcat
<1>3. FlattenSeq(lines) \in Seq(Byte) /\ out \in Seq(Byte) /\ b \in Byte
  BY WellTyped, FlattenType DEF Typed, Byte
<1>4. (FlattenSeq(lines) \o out) \o <<b>> = FlattenSeq(lines) \o (out \o <<b>>)
  <2>1. <<b>> \in Seq(Byte)
    BY <1>3
  <2> QED BY <1>3, <2>1, Associative
<1> QED BY <1>2, <1>4 DEF Text

LinesOK(ls) ==
  /\ ls \in Seq(Seq(Byte))
  /\ \A i \in 1..Len(ls) :
       ls[i] # <<>> /\ Last(ls[i]) = LF /\ Front(ls[i]) \in Seq(Char)

(* A line that is returned takes what was out, and a newline, to the       *)
(* lines.                                                                  *)
LEMMA Returned ==
  ASSUME TypeOK, Return
  PROVE  /\ out' \in Seq(Char) /\ pc' = "recv" /\ LinesOK(lines')
         /\ Text' = Text \o <<LF>>
<1> DEFINE line == Append(out, LF)
<1>1. /\ out \in Seq(Byte) /\ out \in Seq(Char) /\ lines \in Seq(Seq(Byte)) /\ LF \in Byte
      /\ LinesOK(lines)
  BY WellTyped DEF Typed, TypeOK, Byte, LinesOK
<1>2. lines' = Append(lines, line) /\ out' = <<>> /\ pc' = "recv"
  BY DEF Return
<1>3. /\ line \in Seq(Byte) /\ Len(line) = Len(out) + 1 /\ line[Len(out) + 1] = LF /\ line # <<>>
      /\ \A i \in 1..Len(out) : line[i] = out[i]
  BY <1>1, AppendProperties
<1>4. Front(line) = out
  <2> DEFINE f == SubSeq(line, 1, Len(out))
  <2>1. Len(out) \in Nat /\ (Len(out) + 1) - 1 = Len(out)
    BY <1>1, LenProperties
  <2>2. f \in Seq(Byte) /\ Len(f) = Len(out) /\ \A i \in 1..Len(out) : f[i] = line[i]
    <3> HIDE DEF line
    <3>1. \A i \in 1..Len(out) : line[i] \in Byte
      BY <1>1, <1>3, ElementOfSeq
    <3> QED BY <2>1, <3>1, SubSeqProperties
  <2>3. f = out
    <3> HIDE DEF f, line
    <3> QED BY <1>1, <1>3, <2>2, SeqEqual
  <2>4. Front(line) = f
    <3> HIDE DEF line
    <3> QED BY <1>3, <2>1 DEF Front
  <2> QED BY <2>3, <2>4
<1>5. Last(line) = LF
  <2> HIDE DEF line
  <2> QED BY <1>3 DEF Last
<1> HIDE DEF line
<1>6. /\ lines' \in Seq(Seq(Byte)) /\ Len(lines') = Len(lines) + 1
      /\ lines'[Len(lines) + 1] = line /\ \A i \in 1..Len(lines) : lines'[i] = lines[i]
  <2> DEFINE S == Seq(Byte)
  <2>1. lines \in Seq(S) /\ line \in S
    BY <1>1, <1>3
  <2> HIDE DEF S
  <2>2. /\ lines' \in Seq(S) /\ Len(lines') = Len(lines) + 1
        /\ lines'[Len(lines) + 1] = line /\ \A i \in 1..Len(lines) : lines'[i] = lines[i]
    BY <1>2, <2>1, AppendProperties
  <2> QED BY <2>2 DEF S
<1>7. LinesOK(lines')
  <2>1. SUFFICES ASSUME NEW i \in 1..Len(lines')
                 PROVE  lines'[i] # <<>> /\ Last(lines'[i]) = LF /\ Front(lines'[i]) \in Seq(Char)
    BY <1>6 DEF LinesOK
  <2>2. Len(lines) \in Nat
    BY <1>1, LenProperties
  <2>3. CASE i = Len(lines) + 1
    BY <1>1, <1>3, <1>4, <1>5, <1>6, <2>3
  <2>4. CASE i # Len(lines) + 1
    <3>1. i \in 1..Len(lines)
      BY <1>6, <2>2, <2>4
    <3> QED BY <1>1, <1>6, <3>1 DEF LinesOK
  <2> QED BY <2>3, <2>4
<1>8. Text' = Text \o <<LF>>
  <2> DEFINE F == FlattenSeq(lines)
  <2>1. F \in Seq(Byte) /\ FlattenSeq(lines') = F \o line
    BY <1>1, <1>2, <1>3, FlattenType, FlattenAppend
  <2>2. line = out \o <<LF>>
    BY <1>1, AppendIsConcat DEF line
  <2>3. <<LF>> \in Seq(Byte)
    BY <1>1
  <2> HIDE DEF F
  <2>4. F \o line \in Seq(Byte)
    BY <1>3, <2>1, ConcatProperties
  <2>5. (F \o line) \o <<>> = F \o line
    BY <2>4, ConcatEmptySeq
  <2>6. F \o line = (F \o out) \o <<LF>>
    BY <1>1, <2>1, <2>2, <2>3, Associative
  <2>7. Text' = F \o line
    BY <1>2, <2>1, <2>5 DEF Text
  <2> QED BY <2>6, <2>7 DEF Text, F
<1> QED BY <1>2, <1>7, <1>8, EmptySeq

(* Before the first byte there are no lines. *)
LEMMA InitLine == Init => LineIInv
<1> SUFFICES ASSUME Init
             PROVE  LineIInv
  OBVIOUS
<1>1. sent = <<>> /\ pos = 0 /\ pc = "recv" /\ out = <<>> /\ lines = <<>> /\ closed = FALSE
  BY DEF Init
<1>2. TypeOK
  <2>1. sent \in Seq(Byte) /\ out \in Seq(Char) /\ lines \in Seq(Seq(Byte)) /\ Len(lines) = 0 /\ Len(sent) = 0
    BY <1>1, EmptySeq
  <2>2. 1..Len(lines) = {} /\ pos \in 0..Len(sent)
    BY <1>1, <2>1
  <2>3. pc \in {"recv", "peek", "eat", "done"} /\ closed \in BOOLEAN
    BY <1>1
  <2> QED BY <2>1, <2>2, <2>3 DEF TypeOK
<1>3. LooksAhead
  BY <1>1 DEF LooksAhead
<1>4. LinesMatch
  <2>1. SubSeq(sent, 1, 0) = <<>>
    BY SubSeqEmpty
  <2>2. Normal(<<>>) = <<>>
    <3>1. Len(<<>>) = 0 /\ [i \in 1..0 |-> IF ~Counts(<<>>, i) THEN <<>>
                        ELSE <<IF <<>>[i] = CR THEN LF ELSE <<>>[i]>>] = <<>>
      BY EmptySeq
    <3> QED BY <3>1, FlattenEmpty DEF Normal
  <2>3. FlattenSeq(lines) \o out = <<>>
    BY <1>1, FlattenEmpty
  <2> QED BY <1>1, <2>1, <2>2, <2>3 DEF LinesMatch
<1> QED BY <1>2, <1>3, <1>4 DEF LineIInv

(* What the client has sent is not changed, only added to. *)
LEMMA SendLine ==
  ASSUME LineIInv, NEW b \in Byte, Send(b)
  PROVE  LineIInv'
<1>1. sent' = Append(sent, b) /\ ~closed /\ UNCHANGED <<closed, pos, pc, out, lines>>
  BY DEF Send
<1>2. TypeOK /\ LooksAhead /\ LinesMatch
  BY DEF LineIInv
<1>3. sent \in Seq(Byte) /\ Len(sent) \in Nat /\ pos \in 0..Len(sent)
  BY <1>2, LenProperties DEF TypeOK
<1>4. /\ sent' \in Seq(Byte) /\ Len(sent') = Len(sent) + 1
      /\ \A i \in 1..Len(sent) : sent'[i] = sent[i]
  BY <1>1, <1>3, AppendProperties
<1>5. TypeOK'
  <2>1. pos' \in 0..Len(sent')
    BY <1>1, <1>3, <1>4
  <2> QED BY <1>1, <1>2, <1>4, <2>1 DEF TypeOK
<1>6. LooksAhead'
  <2>1. /\ pos > 0 => pos \in 1..Len(sent)
        /\ pos < Len(sent) => pos + 1 \in 1..Len(sent)
    BY <1>3
  <2>2. pos > 0 => sent'[pos'] = sent[pos]
    BY <1>1, <1>4, <2>1
  <2>3. pos < Len(sent) => pos < Len(sent') /\ sent'[pos' + 1] = sent[pos + 1]
    BY <1>1, <1>3, <1>4, <2>1
  <2>4. /\ pc \in {"peek", "eat"} => pos > 0 /\ sent'[pos'] = CR
        /\ pc = "eat" => pos < Len(sent') /\ sent'[pos' + 1] = LF
    BY <1>2, <2>2, <2>3 DEF LooksAhead
  <2>5. pc = "recv" /\ pos > 0 /\ sent'[pos'] = CR => pos < Len(sent) /\ sent[pos + 1] # LF
    BY <1>1, <1>2, <2>2 DEF LooksAhead
  <2>6. pc = "recv" /\ pos > 0 /\ sent'[pos'] = CR => pos < Len(sent') /\ sent'[pos' + 1] # LF
    BY <2>3, <2>5
  <2> QED BY <1>1, <2>4, <2>6 DEF LooksAhead
<1>7. LinesMatch'
  <2> DEFINE k == IF pc \in {"peek", "eat"} THEN pos - 1 ELSE pos
  <2>1. k \in 0..Len(sent)
    BY <1>2, <1>3 DEF LooksAhead
  <2> HIDE DEF k
  <2>2. SubSeq(sent', 1, k) = SubSeq(sent, 1, k)
    <3>1. \A i \in 1..k : sent[i] \in Byte /\ sent'[i] = sent[i]
      BY <1>3, <1>4, <2>1, ElementOfSeq
    <3>2. /\ SubSeq(sent, 1, k) \in Seq(Byte) /\ Len(SubSeq(sent, 1, k)) = k
          /\ \A i \in 1..k : SubSeq(sent, 1, k)[i] = sent[i]
      BY <1>3, <2>1, <3>1, SubSeqProperties
    <3>3. /\ SubSeq(sent', 1, k) \in Seq(Byte) /\ Len(SubSeq(sent', 1, k)) = k
          /\ \A i \in 1..k : SubSeq(sent', 1, k)[i] = sent'[i]
      BY <1>3, <2>1, <3>1, SubSeqProperties
    <3> QED BY <3>1, <3>2, <3>3, SeqEqual
  <2>3. FlattenSeq(lines) \o out = Normal(SubSeq(sent, 1, k))
    BY <1>2 DEF LinesMatch, k
  <2> QED BY <1>1, <2>2, <2>3 DEF LinesMatch, k
<1> QED BY <1>5, <1>6, <1>7 DEF LineIInv

(* Closing the connection takes nothing back, and a \r at the end stays    *)
(* what it is.                                                             *)
LEMMA CloseLine ==
  ASSUME LineIInv, CloseSide
  PROVE  LineIInv'
<1>1. closed' = TRUE /\ UNCHANGED <<sent, pos, pc, out, lines>>
  BY DEF CloseSide
<1> QED BY <1>1 DEF LineIInv, TypeOK, LooksAhead, LinesMatch

(* The byte ahead, and what it adds to the reference. *)
LEMMA Ahead ==
  ASSUME LineIInv, Ready
  PROVE  /\ sent \in Seq(Byte) /\ pos + 1 \in 1..Len(sent) /\ NextByte \in Byte
         /\ NextByte \notin {CR, LF} => NextByte \in Char
         /\ NextByte # LF => Piece(sent, pos + 1) = <<IF NextByte = CR THEN LF ELSE NextByte>>
         /\ pc = "recv" => Piece(sent, pos + 1) = <<IF NextByte = CR THEN LF ELSE NextByte>>
         /\ pc = "eat" => Piece(sent, pos + 1) = <<>>
<1>1. sent \in Seq(Byte) /\ Len(sent) \in Nat /\ pos \in 0..Len(sent) /\ LooksAhead
  BY LenProperties DEF LineIInv, TypeOK
<1>2. pos + 1 \in 1..Len(sent) /\ pos < Len(sent)
  BY <1>1 DEF Ready
<1>3. NextByte \in Byte /\ NextByte = sent[pos + 1]
  BY <1>1, <1>2, ElementOfSeq DEF NextByte
<1>4. NextByte \notin {CR, LF} => NextByte \in Char
  BY <1>3 DEF Byte
<1>5. pos + 1 > 1 <=> pos > 0
  BY <1>1
<1>6. (pos + 1) - 1 = pos
  BY <1>1
<1>7. NextByte # LF => Counts(sent, pos + 1)
  BY <1>3 DEF Counts
<1>8. pc = "recv" => Counts(sent, pos + 1)
  BY <1>1, <1>2, <1>3, <1>5, <1>6 DEF Counts, LooksAhead
<1>9. pc = "eat" => ~Counts(sent, pos + 1)
  BY <1>1, <1>2, <1>3, <1>5, <1>6 DEF Counts, LooksAhead
<1> QED BY <1>1, <1>2, <1>3, <1>4, <1>7, <1>8, <1>9 DEF Piece

(* A byte other than \r is in the lines at once; a \n is not part of a     *)
(* \r\n, since the peek would have eaten it.                               *)
LEMMA RecvByteLine ==
  ASSUME LineIInv, RecvByte
  PROVE  LineIInv'
<1>1. /\ pc = "recv" /\ Ready /\ NextByte # CR /\ pos' = pos + 1
      /\ sent' = sent /\ closed' = closed
  BY DEF RecvByte
<1>2. TypeOK /\ LinesMatch
  BY DEF LineIInv
<1>3. Len(sent) \in Nat /\ pos \in 0..Len(sent) /\ pos + 1 \in 1..Len(sent) /\ pos < Len(sent)
  BY <1>1, <1>2, LenProperties DEF TypeOK, Ready
<1>4. /\ sent \in Seq(Byte) /\ NextByte \in Byte
      /\ NextByte # LF => NextByte \in Char
      /\ Piece(sent, pos + 1) = <<NextByte>>
  BY <1>1, Ahead
<1>5. /\ out' \in Seq(Char) /\ pc' = "recv" /\ LinesOK(lines')
      /\ Text' = Text \o <<NextByte>>
  <2>1. CASE NextByte = LF
    BY <1>1, <1>2, <2>1, Returned DEF RecvByte
  <2>2. CASE NextByte # LF
    <3>1. out' = Append(out, NextByte) /\ pc' = pc /\ lines' = lines
      BY <1>1, <2>2 DEF RecvByte
    <3>2. NextByte \in Char
      BY <1>4, <2>2
    <3>3. out' \in Seq(Char) /\ Text' = Text \o <<NextByte>>
      BY <1>2, <3>1, <3>2, Kept
    <3>4. LinesOK(lines')
      BY <1>2, <3>1 DEF TypeOK, LinesOK
    <3> QED BY <1>1, <3>1, <3>3, <3>4
  <2> QED BY <2>1, <2>2
<1>6. TypeOK'
  <2>1. pos' \in 0..Len(sent')
    BY <1>1, <1>3
  <2>2. sent' \in Seq(Byte) /\ closed' \in BOOLEAN
    BY <1>1, <1>2 DEF TypeOK
  <2> QED BY <1>5, <2>1, <2>2 DEF TypeOK, LinesOK
<1>7. LooksAhead'
  BY <1>1, <1>5 DEF LooksAhead, NextByte
<1>8. LinesMatch'
  <2>1. Taken = pos /\ Taken' = pos + 1
    BY <1>1, <1>5 DEF Taken
  <2>2. Taken \in Nat /\ Taken < Len(sent) /\ Taken' = Taken + 1
    BY <1>3, <2>1
  <2>3. Text' = Text \o Piece(sent, Taken + 1)
    BY <1>4, <1>5, <2>1
  <2> QED BY <1>1, <1>2, <1>4, <2>2, <2>3, MatchOneMore
<1> QED BY <1>6, <1>7, <1>8 DEF LineIInv

(* A \r is not in the lines before the peek. *)
LEMMA RecvCRLine ==
  ASSUME LineIInv, RecvCR
  PROVE  LineIInv'
<1>1. /\ pc = "recv" /\ Ready /\ NextByte = CR /\ pos' = pos + 1 /\ pc' = "peek"
      /\ UNCHANGED <<sent, closed, out, lines>>
  BY DEF RecvCR
<1>2. TypeOK /\ LinesMatch /\ sent \in Seq(Byte)
  BY DEF LineIInv, TypeOK
<1>3. Len(sent) \in Nat /\ pos \in 0..Len(sent) /\ pos < Len(sent)
  BY <1>1, <1>2, LenProperties DEF TypeOK, Ready
<1>4. TypeOK'
  BY <1>1, <1>2, <1>3 DEF TypeOK
<1>5. LooksAhead'
  BY <1>1, <1>3 DEF LooksAhead, NextByte
<1>6. LinesMatch'
  BY <1>1, <1>2, <1>3, MatchAgain DEF Taken, Text
<1> QED BY <1>4, <1>5, <1>6 DEF LineIInv

(* At the end of the stream the lines stay as they are. *)
LEMMA RecvClosedLine ==
  ASSUME LineIInv, RecvClosed
  PROVE  LineIInv'
<1>1. pc = "recv" /\ pc' = "done" /\ UNCHANGED <<sent, closed, pos, out, lines>>
  BY DEF RecvClosed
<1>2. TypeOK'
  BY <1>1 DEF LineIInv, TypeOK
<1>3. LooksAhead' /\ LinesMatch'
  BY <1>1 DEF LineIInv, LooksAhead, LinesMatch
<1> QED BY <1>2, <1>3 DEF LineIInv

(* The peek finds a \n, and takes nothing. *)
LEMMA PeekLFLine ==
  ASSUME LineIInv, PeekLF
  PROVE  LineIInv'
<1>1. /\ pc = "peek" /\ Ready /\ NextByte = LF /\ pc' = "eat"
      /\ UNCHANGED <<sent, closed, pos, out, lines>>
  BY DEF PeekLF
<1>2. TypeOK'
  BY <1>1 DEF LineIInv, TypeOK
<1>3. LooksAhead'
  BY <1>1 DEF LineIInv, LooksAhead, NextByte, Ready
<1>4. LinesMatch'
  BY <1>1 DEF LineIInv, LinesMatch
<1> QED BY <1>2, <1>3, <1>4 DEF LineIInv

(* The \r that was read ends the line, and the next byte stays.            *)
LEMMA EndsAtCR ==
  ASSUME LineIInv, pc = "peek", Return, UNCHANGED <<sent, closed, pos>>
  PROVE  TypeOK' /\ LinesMatch' /\ pc' = "recv"
<1>1. TypeOK /\ LinesMatch /\ sent \in Seq(Byte)
  BY DEF LineIInv, TypeOK
<1>2. Len(sent) \in Nat /\ pos \in 1..Len(sent) /\ sent[pos] = CR
  BY <1>1, LenProperties DEF LineIInv, TypeOK, LooksAhead
<1>3. out' \in Seq(Char) /\ pc' = "recv" /\ LinesOK(lines') /\ Text' = Text \o <<LF>>
  BY <1>1, Returned
<1>4. TypeOK'
  BY <1>1, <1>3 DEF TypeOK, LinesOK
<1>5. Piece(sent, pos) = <<LF>>
  BY <1>2, ReadLineAssumption DEF Piece, Counts
<1>6. /\ Taken \in Nat /\ Taken < Len(sent) /\ Taken + 1 = pos
      /\ Taken' = Taken + 1
  BY <1>2, <1>3 DEF Taken
<1>7. LinesMatch'
  BY <1>1, <1>3, <1>5, <1>6, MatchOneMore
<1> QED BY <1>3, <1>4, <1>7

(* The peek finds another byte: the \r ends the line. *)
LEMMA PeekOtherLine ==
  ASSUME LineIInv, PeekOther
  PROVE  LineIInv'
<1>1. pc = "peek" /\ Ready /\ NextByte # LF /\ Return /\ UNCHANGED <<sent, closed, pos>>
  BY DEF PeekOther
<1>2. TypeOK' /\ LinesMatch' /\ pc' = "recv"
  BY <1>1, EndsAtCR
<1>3. LooksAhead'
  BY <1>1, <1>2 DEF LooksAhead, Ready, NextByte
<1> QED BY <1>2, <1>3 DEF LineIInv

(* The peek finds the end of the stream: the \r ends the line. *)
LEMMA PeekClosedLine ==
  ASSUME LineIInv, PeekClosed
  PROVE  LineIInv'
<1>1. pc = "peek" /\ ~Ready /\ closed /\ Return /\ UNCHANGED <<sent, closed, pos>>
  BY DEF PeekClosed, Empty
<1>2. TypeOK' /\ LinesMatch' /\ pc' = "recv"
  BY <1>1, EndsAtCR
<1>3. LooksAhead'
  BY <1>1, <1>2 DEF LooksAhead, Ready
<1> QED BY <1>2, <1>3 DEF LineIInv

(* The \r ended the line, and the \n after it adds nothing.                *)
LEMMA EatLFLine ==
  ASSUME LineIInv, EatLF
  PROVE  LineIInv'
<1>1. pc = "eat" /\ pos' = pos + 1 /\ Return /\ sent' = sent /\ closed' = closed
  BY DEF EatLF
<1>2. TypeOK /\ LooksAhead /\ LinesMatch /\ sent \in Seq(Byte)
  BY DEF LineIInv, TypeOK
<1>3. /\ Len(sent) \in Nat /\ pos \in 1..Len(sent) /\ pos < Len(sent)
      /\ sent[pos] = CR /\ sent[pos + 1] = LF
  BY <1>1, <1>2, LenProperties DEF TypeOK, LooksAhead
<1>4. out' \in Seq(Char) /\ pc' = "recv" /\ LinesOK(lines') /\ Text' = Text \o <<LF>>
  BY <1>1, <1>2, Returned
<1>5. TypeOK'
  BY <1>1, <1>2, <1>3, <1>4 DEF TypeOK, LinesOK
<1>6. LooksAhead'
  BY <1>1, <1>3, <1>4, ReadLineAssumption DEF LooksAhead
<1>7. LinesMatch'
  <2>1. Piece(sent, pos) = <<LF>>
    BY <1>3, ReadLineAssumption DEF Piece, Counts
  <2>2. Piece(sent, pos + 1) = <<>>
    BY <1>1, <1>3, Ahead DEF Ready
  <2> DEFINE before == Normal(SubSeq(sent, 1, pos - 1))
  <2>3. Text = before
    BY <1>1, <1>2 DEF LinesMatch, Text
  <2>4. Normal(SubSeq(sent, 1, pos)) = before \o <<LF>>
    <3>1. pos - 1 \in Nat /\ pos - 1 < Len(sent) /\ (pos - 1) + 1 = pos
      BY <1>3
    <3>2. Normal(SubSeq(sent, 1, (pos - 1) + 1)) = before \o Piece(sent, (pos - 1) + 1)
      BY <1>2, <3>1, NormalNext
    <3> QED BY <2>1, <3>1, <3>2
  <2>5. Normal(SubSeq(sent, 1, pos + 1)) = Normal(SubSeq(sent, 1, pos))
    <3>1. Normal(SubSeq(sent, 1, pos + 1)) = Normal(SubSeq(sent, 1, pos)) \o <<>>
      <4>1. pos \in Nat /\ pos < Len(sent)
        BY <1>3
      <4> QED BY <1>2, <2>2, <4>1, NormalNext
    <3>2. Normal(SubSeq(sent, 1, pos)) \in Seq(Byte)
      BY <1>2, <1>3, NormalType
    <3> QED BY <3>1, <3>2, ConcatEmptySeq
  <2>6. Text' = Normal(SubSeq(sent', 1, pos'))
    BY <1>1, <1>4, <2>3, <2>4, <2>5
  <2> QED BY <1>4, <2>6 DEF LinesMatch, Text
<1> QED BY <1>5, <1>6, <1>7 DEF LineIInv

(* Every step keeps the invariant. *)
LEMMA NextLine == LineIInv /\ [Next]_vars => LineIInv'
<1> SUFFICES ASSUME LineIInv, [Next]_vars
             PROVE  LineIInv'
  OBVIOUS
<1>1. CASE \E b \in Byte : Send(b)
  BY <1>1, SendLine
<1>2. CASE CloseSide
  BY <1>2, CloseLine
<1>3. CASE Step
  BY <1>3, RecvByteLine, RecvCRLine, RecvClosedLine, PeekLFLine, PeekOtherLine,
     PeekClosedLine, EatLFLine DEF Step
<1>4. CASE UNCHANGED vars
  BY <1>4 DEF vars, LineIInv, TypeOK, LooksAhead, LinesMatch
<1> QED BY <1>1, <1>2, <1>3, <1>4 DEF Next

(* The invariant of the reader holds: in particular, after a \r ReadLine   *)
(* never leaves a \n unread that the client could still take for a line.   *)
THEOREM LineInvariant == Spec => []LineIInv
<1>1. Init => LineIInv
  BY InitLine
<1>2. LineIInv /\ [Next]_vars => LineIInv'
  BY NextLine
<1> QED BY <1>1, <1>2, PTL DEF Spec

(* Whatever the client sends, and at whatever pace, ReadLine returns the   *)
(* lines of the reference.                                                 *)
THEOREM LinesAreSent == Spec => []LinesMatch
<1>1. LineIInv => LinesMatch
  BY DEF LineIInv
<1> QED BY <1>1, LineInvariant, PTL

-----------------------------------------------------------------------------
(* Formatter: what is collected spells what is consumed *)

Item == [key : PatternChar \cup {""}, text : Seq(PatternChar)]
EscapedChar(c) == IF c = "%" THEN <<"%", "%">> ELSE <<c>>

(* Sequences of one and of two elements. *)
LEMMA Short ==
  ASSUME NEW S, NEW a \in S, NEW b \in S
  PROVE  /\ <<a>> \in Seq(S) /\ Len(<<a>>) = 1 /\ <<a>>[1] = a
         /\ <<a, b>> \in Seq(S) /\ Len(<<a, b>>) = 2 /\ <<a, b>>[1] = a /\ <<a, b>>[2] = b
OBVIOUS

(* The characters that mean something are characters. *)
LEMMA Marks == "%" \in PatternChar /\ LBrace \in PatternChar /\ RBrace \in PatternChar
BY FormatterAssumption

(* An escaped character is one or two characters. *)
LEMMA EscapedCharType ==
  ASSUME NEW c \in PatternChar
  PROVE  EscapedChar(c) \in Seq(PatternChar)
BY Marks, Short DEF EscapedChar

(* Escaped text is its escaped characters, one after the other. *)
LEMMA EscapedAsFlat ==
  ASSUME NEW v \in Seq(PatternChar)
  PROVE  /\ [i \in 1..Len(v) |-> EscapedChar(v[i])] \in Seq(Seq(PatternChar))
         /\ Escaped(v) = FlattenSeq([i \in 1..Len(v) |-> EscapedChar(v[i])])
         /\ Escaped(v) \in Seq(PatternChar)
<1> DEFINE ps == [i \in 1..Len(v) |-> EscapedChar(v[i])]
           P == Seq(PatternChar)
<1>1. Len(v) \in Nat /\ DOMAIN v = 1..Len(v)
  BY LenProperties
<1>2. \A i \in 1..Len(v) : EscapedChar(v[i]) \in P
  BY EscapedCharType, ElementOfSeq
<1>3. ps \in Seq(P)
  <2> HIDE DEF P
  <2> QED BY <1>1, <1>2
<1>4. Escaped(v) = FlattenSeq(ps)
  BY <1>1 DEF Escaped, EscapedChar
<1>5. FlattenSeq(ps) \in P
  <2> HIDE DEF ps
  <2> QED BY <1>3, FlattenType
<1> QED BY <1>3, <1>4, <1>5

(* One more raw character adds its escaped form. *)
LEMMA EscapedAppend ==
  ASSUME NEW v \in Seq(PatternChar), NEW c \in PatternChar
  PROVE  Escaped(Append(v, c)) = Escaped(v) \o EscapedChar(c)
<1> DEFINE n  == Len(v)
           w  == Append(v, c)
           ps == [i \in 1..n |-> EscapedChar(v[i])]
           pw == [i \in 1..Len(w) |-> EscapedChar(w[i])]
           e  == EscapedChar(c)
<1>1. /\ n \in Nat /\ w \in Seq(PatternChar) /\ Len(w) = n + 1 /\ w[n + 1] = c
      /\ \A i \in 1..n : w[i] = v[i]
  BY AppendProperties, LenProperties
<1>2. ps \in Seq(Seq(PatternChar)) /\ Escaped(v) = FlattenSeq(ps) /\ e \in Seq(PatternChar)
  BY EscapedAsFlat, EscapedCharType
<1>3. pw \in Seq(Seq(PatternChar)) /\ Escaped(w) = FlattenSeq(pw)
  <2> HIDE DEF w
  <2> QED BY <1>1, EscapedAsFlat
<1>4. Len(ps) = n /\ Len(pw) = n + 1
  <2> HIDE DEF w
  <2> QED BY <1>1
<1>5. pw[n + 1] = e /\ \A i \in 1..n : pw[i] = ps[i]
  <2> HIDE DEF w
  <2> QED BY <1>1
<1> HIDE DEF ps, pw, w, e
<1>6. FlattenSeq(pw) = FlattenSeq(ps) \o e
  BY <1>2, <1>3, <1>4, <1>5, FlattenGrows
<1> QED BY <1>2, <1>3, <1>6 DEF w, e

(* No text is escaped to none. *)
LEMMA EscapedEmpty == Escaped(<<>>) = <<>>
<1>1. DOMAIN <<>> = {}
  OBVIOUS
<1>2. [i \in DOMAIN <<>> |-> IF <<>>[i] = "%" THEN <<"%", "%">> ELSE <<<<>>[i]>>] = <<>>
  BY <1>1
<1> QED BY <1>2, FlattenEmpty DEF Escaped

(* What pairs spell, when those in B have braces without text. *)
Spelt(pairs, B) ==
  FlattenSeq([i \in 1..Len(pairs) |-> Spelling(pairs[i], pairs[i].text # <<>> \/ i \in B)])

(* What a pair is written as is made of characters. *)
LEMMA SpellingType ==
  ASSUME NEW p \in Item, NEW braces \in BOOLEAN
  PROVE  Spelling(p, braces) \in Seq(PatternChar)
<1>1. p.key \in PatternChar \cup {""} /\ p.text \in Seq(PatternChar)
  BY DEF Item
<1>2. CASE p.key = ""
  BY <1>1, <1>2, EscapedAsFlat DEF Spelling
<1>3. CASE p.key # ""
  <2>1. <<"%", p.key>> \in Seq(PatternChar)
    BY <1>1, <1>3, Marks, Short
  <2>2. <<LBrace>> \o p.text \o <<RBrace>> \in Seq(PatternChar)
    <3>1. <<LBrace>> \in Seq(PatternChar) /\ <<RBrace>> \in Seq(PatternChar)
      BY Marks, Short
    <3> QED BY <1>1, <3>1, ConcatProperties
  <2>3. <<>> \in Seq(PatternChar)
    BY EmptySeq
  <2> DEFINE h == IF braces THEN <<LBrace>> \o p.text \o <<RBrace>> ELSE <<>>
  <2>4. h \in Seq(PatternChar)
    BY <2>2, <2>3
  <2>5. Spelling(p, braces) = <<"%", p.key>> \o h
    BY <1>3 DEF Spelling
  <2> HIDE DEF h
  <2> QED BY <2>1, <2>4, <2>5, ConcatProperties
<1> QED BY <1>2, <1>3

(* So is what all of them are written as. *)
LEMMA SpeltType ==
  ASSUME NEW pairs \in Seq(Item), NEW B
  PROVE  /\ [i \in 1..Len(pairs) |-> Spelling(pairs[i], pairs[i].text # <<>> \/ i \in B)]
              \in Seq(Seq(PatternChar))
         /\ Spelt(pairs, B) \in Seq(PatternChar)
<1> DEFINE ps == [i \in 1..Len(pairs) |-> Spelling(pairs[i], pairs[i].text # <<>> \/ i \in B)]
           P == Seq(PatternChar)
<1>1. \A i \in 1..Len(pairs) : Spelling(pairs[i], pairs[i].text # <<>> \/ i \in B) \in P
  <2>1. SUFFICES ASSUME NEW i \in 1..Len(pairs)
                 PROVE  Spelling(pairs[i], pairs[i].text # <<>> \/ i \in B) \in P
    OBVIOUS
  <2>2. pairs[i] \in Item
    BY ElementOfSeq
  <2>3. (pairs[i].text # <<>> \/ i \in B) \in BOOLEAN
    OBVIOUS
  <2> QED BY <2>2, <2>3, SpellingType
<1>2. ps \in Seq(P)
  <2>1. Len(pairs) \in Nat
    BY LenProperties
  <2> HIDE DEF P
  <2> QED BY <1>1, <2>1
<1>3. FlattenSeq(ps) \in P
  <2> HIDE DEF ps
  <2> QED BY <1>2, FlattenType
<1> QED BY <1>2, <1>3 DEF Spelt

(* One more pair adds its spelling, and changes no other. *)
LEMMA SpeltAppend ==
  ASSUME NEW pairs \in Seq(Item), NEW p \in Item, NEW B, NEW C,
         \A i \in 1..Len(pairs) : i \in B <=> i \in C
  PROVE  Spelt(Append(pairs, p), C) =
           Spelt(pairs, B) \o Spelling(p, p.text # <<>> \/ Len(pairs) + 1 \in C)
<1> DEFINE n  == Len(pairs)
           qs == Append(pairs, p)
           ps == [i \in 1..n |-> Spelling(pairs[i], pairs[i].text # <<>> \/ i \in B)]
           pq == [i \in 1..Len(qs) |-> Spelling(qs[i], qs[i].text # <<>> \/ i \in C)]
           e  == Spelling(p, p.text # <<>> \/ n + 1 \in C)
<1>1. /\ n \in Nat /\ qs \in Seq(Item) /\ Len(qs) = n + 1 /\ qs[n + 1] = p
      /\ \A i \in 1..n : qs[i] = pairs[i]
  BY AppendProperties, LenProperties
<1>2. ps \in Seq(Seq(PatternChar)) /\ Spelt(pairs, B) = FlattenSeq(ps)
  BY SpeltType DEF Spelt
<1>3. e \in Seq(PatternChar)
  <2>1. (p.text # <<>> \/ n + 1 \in C) \in BOOLEAN
    OBVIOUS
  <2> QED BY <2>1, SpellingType
<1>4. pq \in Seq(Seq(PatternChar)) /\ Spelt(qs, C) = FlattenSeq(pq)
  <2> HIDE DEF qs
  <2> QED BY <1>1, SpeltType DEF Spelt
<1>5. Len(ps) = n /\ Len(pq) = n + 1
  <2> HIDE DEF qs
  <2> QED BY <1>1
<1>6. pq[n + 1] = e
  <2> HIDE DEF qs
  <2> QED BY <1>1
<1>7. ASSUME NEW i \in 1..n
      PROVE  pq[i] = ps[i]
  <2>1. i \in 1..(n + 1) /\ qs[i] = pairs[i] /\ (i \in B <=> i \in C)
    BY <1>1
  <2> HIDE DEF qs, n
  <2>2. pq[i] = Spelling(qs[i], qs[i].text # <<>> \/ i \in C)
    BY <1>1, <2>1
  <2>3. ps[i] = Spelling(pairs[i], pairs[i].text # <<>> \/ i \in B)
    OBVIOUS
  <2>4. (qs[i].text # <<>> \/ i \in C) = (pairs[i].text # <<>> \/ i \in B)
    BY <2>1
  <2> HIDE DEF ps, pq
  <2> QED BY <2>1, <2>2, <2>3, <2>4
<1> HIDE DEF ps, pq, qs, e, n
<1>8. FlattenSeq(pq) = FlattenSeq(ps) \o e
  <2>1. Len(pq) = Len(ps) + 1 /\ pq[Len(ps) + 1] = e /\ \A i \in 1..Len(ps) : pq[i] = ps[i]
    BY <1>5, <1>6, <1>7
  <2> QED BY <1>2, <1>3, <1>4, <2>1, FlattenGrows
<1> QED BY <1>2, <1>4, <1>8 DEF qs, e, n

Bares(pairs) == {i \in 1..Len(pairs) : pairs[i].text = <<>>}

(* Spells says that there is a choice of braces that spells it. *)
LEMMA SpellsIsSpelt ==
  ASSUME NEW pairs \in Seq(Item), NEW tail, NEW s
  PROVE  Spells(pairs, tail, s) <=>
           \E B \in SUBSET Bares(pairs) : Spelt(pairs, B) \o Escaped(tail) = s
<1>1. DOMAIN pairs = 1..Len(pairs)
  BY LenProperties
<1> QED BY <1>1 DEF Spells, Spelt, Bares

(* Raw text grows by a character, and what it spells by the character as   *)
(* it is written.                                                          *)
LEMMA SpellsRaw ==
  ASSUME NEW pairs \in Seq(Item), NEW v \in Seq(PatternChar), NEW s, Spells(pairs, v, s),
         NEW c \in PatternChar
  PROVE  Spells(pairs, Append(v, c), s \o EscapedChar(c))
<1>1. PICK B \in SUBSET Bares(pairs) : Spelt(pairs, B) \o Escaped(v) = s
  BY SpellsIsSpelt
<1>2. /\ Spelt(pairs, B) \in Seq(PatternChar) /\ Escaped(v) \in Seq(PatternChar)
      /\ EscapedChar(c) \in Seq(PatternChar)
  BY SpeltType, EscapedAsFlat, EscapedCharType
<1>3. Escaped(Append(v, c)) = Escaped(v) \o EscapedChar(c)
  BY EscapedAppend
<1>4. Spelt(pairs, B) \o Escaped(Append(v, c)) = s \o EscapedChar(c)
  <2> DEFINE a == Spelt(pairs, B)
             b == Escaped(v)
             d == EscapedChar(c)
  <2>1. a \in Seq(PatternChar) /\ b \in Seq(PatternChar) /\ d \in Seq(PatternChar)
    BY <1>2
  <2>2. a \o b = s /\ Escaped(Append(v, c)) = b \o d
    BY <1>1, <1>3
  <2> HIDE DEF a, b, d
  <2>3. (a \o b) \o d = a \o (b \o d)
    BY <2>1, Associative
  <2>4. a \o Escaped(Append(v, c)) = s \o d
    BY <2>2, <2>3
  <2> QED BY <2>4 DEF a, d
<1> QED BY <1>4, SpellsIsSpelt

(* The raw text so far becomes a pair. *)
LEMMA SpellsPaired ==
  ASSUME NEW pairs \in Seq(Item), NEW v \in Seq(PatternChar), NEW s, Spells(pairs, v, s)
  PROVE  /\ Append(pairs, Pair("", v)) \in Seq(Item)
         /\ v # <<>> => Spells(Append(pairs, Pair("", v)), <<>>, s)
<1> DEFINE p == Pair("", v)
           n == Len(pairs)
           q == Append(pairs, p)
<1>1. PICK B \in SUBSET Bares(pairs) : Spelt(pairs, B) \o Escaped(v) = s
  BY SpellsIsSpelt
<1>2. p \in Item /\ p.text = v /\ p.key = ""
  BY DEF Item, Pair
<1> HIDE DEF p
<1>3. n \in Nat /\ q \in Seq(Item) /\ Len(q) = n + 1 /\ \A i \in 1..n : q[i] = pairs[i]
  <2>1. p \in Item
    BY <1>2
  <2> QED BY <2>1, AppendProperties, LenProperties
<1>4. PICK C : C = B
  OBVIOUS
<1>5. Spelt(q, C) = Spelt(pairs, B) \o Spelling(p, p.text # <<>> \/ n + 1 \in C)
  <2>1. p \in Item /\ \A i \in 1..Len(pairs) : i \in B <=> i \in C
    BY <1>2, <1>4
  <2> QED BY <2>1, SpeltAppend
<1>6. Spelling(p, p.text # <<>> \/ n + 1 \in C) = Escaped(v)
  BY <1>2 DEF Spelling
<1>7. Spelt(q, C) \in Seq(PatternChar)
  <2> HIDE DEF q
  <2> QED BY <1>3, SpeltType
<1>8. Spelt(q, C) \o Escaped(<<>>) = s
  <2> HIDE DEF q
  <2> QED BY <1>1, <1>5, <1>6, <1>7, EscapedEmpty, ConcatEmptySeq
<1>9. C \in SUBSET Bares(q)
  <2> HIDE DEF q
  <2> QED BY <1>3, <1>4 DEF Bares
<1>10. Spells(q, <<>>, s)
  <2> HIDE DEF q
  <2> QED BY <1>3, <1>8, <1>9, SpellsIsSpelt
<1> QED BY <1>3, <1>10 DEF p

(* RawDone, the raw text as a pair if there is any, spells what it did as  *)
(* raw text.                                                               *)
LEMMA SpellsRawDone ==
  ASSUME fmt_order \in Seq(Item), val \in Seq(PatternChar), NEW s, Spells(fmt_order, val, s)
  PROVE  RawDone \in Seq(Item) /\ Spells(RawDone, <<>>, s)
BY SpellsPaired DEF RawDone

(* One more item, with or without braces. *)
LEMMA SpellsItem ==
  ASSUME NEW pairs \in Seq(Item), NEW s, Spells(pairs, <<>>, s),
         NEW c \in PatternChar, NEW t \in Seq(PatternChar), NEW braces \in BOOLEAN,
         t # <<>> => braces
  PROVE  /\ Append(pairs, Pair(c, t)) \in Seq(Item)
         /\ Spells(Append(pairs, Pair(c, t)), <<>>, s \o Spelling(Pair(c, t), braces))
<1> DEFINE p == Pair(c, t)
           n == Len(pairs)
           q == Append(pairs, p)
<1>1. PICK B \in SUBSET Bares(pairs) : Spelt(pairs, B) \o Escaped(<<>>) = s
  BY SpellsIsSpelt
<1>2. p \in Item /\ p.text = t
  BY DEF Item, Pair
<1> HIDE DEF p
<1>3. n \in Nat /\ q \in Seq(Item) /\ Len(q) = n + 1 /\ q[n + 1] = p
      /\ \A i \in 1..n : q[i] = pairs[i]
  <2>1. p \in Item
    BY <1>2
  <2> QED BY <2>1, AppendProperties, LenProperties
<1> DEFINE C == IF t = <<>> /\ braces THEN B \cup {n + 1} ELSE B
<1>4. (\A i \in 1..n : i \in B <=> i \in C) /\ ~(n + 1 \in B)
  BY <1>3 DEF Bares
<1>5. (p.text # <<>> \/ n + 1 \in C) = braces
  BY <1>2, <1>4
<1>6. C \in SUBSET Bares(q)
  <2>1. \A i \in B : i \in Bares(q)
    <3> HIDE DEF q
    <3> QED BY <1>3 DEF Bares
  <2>2. t = <<>> => n + 1 \in Bares(q)
    <3> HIDE DEF q
    <3> QED BY <1>2, <1>3 DEF Bares
  <2> HIDE DEF q
  <2> QED BY <2>1, <2>2
<1> HIDE DEF C
<1>7. Spelt(q, C) = Spelt(pairs, B) \o Spelling(p, p.text # <<>> \/ n + 1 \in C)
  <2>1. p \in Item /\ \A i \in 1..Len(pairs) : i \in B <=> i \in C
    BY <1>2, <1>4
  <2> QED BY <2>1, SpeltAppend
<1>8. Spelt(q, C) \in Seq(PatternChar) /\ Spelt(pairs, B) \in Seq(PatternChar)
  <2> HIDE DEF q
  <2> QED BY <1>3, SpeltType
<1>9. Spelt(pairs, B) = s
  BY <1>1, <1>8, EscapedEmpty, ConcatEmptySeq
<1>10. Spelt(q, C) \o Escaped(<<>>) = s \o Spelling(p, braces)
  <2> HIDE DEF q
  <2> QED BY <1>5, <1>7, <1>8, <1>9, EscapedEmpty, ConcatEmptySeq
<1>11. Spells(q, <<>>, s \o Spelling(p, braces))
  <2> HIDE DEF q
  <2> QED BY <1>3, <1>6, <1>10, SpellsIsSpelt
<1> QED BY <1>3, <1>11 DEF p

(* What is consumed grows by what lies between two positions.              *)
LEMMA Consumed ==
  ASSUME NEW s \in Seq(PatternChar), NEW n \in Nat, NEW m \in Nat, n <= m, m <= Len(s)
  PROVE  /\ SubSeq(s, 1, m) = SubSeq(s, 1, n) \o SubSeq(s, n + 1, m)
         /\ SubSeq(s, n + 1, m) \in Seq(PatternChar)
         /\ Len(SubSeq(s, n + 1, m)) = m - n
         /\ \A i \in 1..(m - n) : SubSeq(s, n + 1, m)[i] = s[n + i]
<1>1. Len(s) \in Nat
  BY LenProperties
<1>2. 1 \in 1..(Len(s) + 1) /\ n \in (1 - 1)..Len(s) /\ m \in n..Len(s)
  BY <1>1
<1>3. SubSeq(s, 1, n) \o SubSeq(s, n + 1, m) = SubSeq(s, 1, m)
  BY <1>2, ConcatAdjacentSubSeq
<1>4. \A i \in (n + 1)..m : s[i] \in PatternChar
  BY <1>1, ElementOfSeq
<1>5. /\ SubSeq(s, n + 1, m) \in Seq(PatternChar)
      /\ Len(SubSeq(s, n + 1, m)) = IF n + 1 <= m THEN m - (n + 1) + 1 ELSE 0
      /\ \A i \in 1..(m - (n + 1) + 1) : SubSeq(s, n + 1, m)[i] = s[(n + 1) + i - 1]
  BY <1>4, SubSeqProperties
<1>6. m - (n + 1) + 1 = m - n /\ \A i \in Int : (n + 1) + i - 1 = n + i
  OBVIOUS
<1> QED BY <1>3, <1>5, <1>6

(* What is consumed in a step of one character. *)
LEMMA ConsumedOne ==
  ASSUME NEW s \in Seq(PatternChar), NEW n \in Nat, n + 1 <= Len(s)
  PROVE  SubSeq(s, n + 1, n + 1) = <<s[n + 1]>> /\ s[n + 1] \in PatternChar
<1>1. Len(s) \in Nat
  BY LenProperties
<1>2. s[n + 1] \in PatternChar
  BY <1>1, ElementOfSeq
<1> DEFINE u == SubSeq(s, n + 1, n + 1)
           w == <<s[n + 1]>>
<1>3. u \in Seq(PatternChar) /\ Len(u) = 1 /\ u[1] = s[n + 1]
  BY <1>1, Consumed
<1>4. w \in Seq(PatternChar) /\ Len(w) = 1 /\ w[1] = s[n + 1]
  BY <1>2, Short
<1>5. \A i \in 1..1 : u[i] = w[i]
  <2>1. \A i \in 1..1 : i = 1
    OBVIOUS
  <2> HIDE DEF u, w
  <2> QED BY <1>3, <1>4, <2>1
<1>6. u = w
  <2> HIDE DEF u, w
  <2> QED BY <1>3, <1>4, <1>5, SeqEqual
<1> QED BY <1>2, <1>6

(* What is consumed in a step of two characters. *)
LEMMA ConsumedTwo ==
  ASSUME NEW s \in Seq(PatternChar), NEW n \in Nat, n + 2 <= Len(s)
  PROVE  SubSeq(s, n + 1, n + 2) = <<s[n + 1], s[n + 2]>> /\ s[n + 2] \in PatternChar
<1>1. Len(s) \in Nat
  BY LenProperties
<1>2. s[n + 1] \in PatternChar /\ s[n + 2] \in PatternChar
  BY <1>1, ElementOfSeq
<1> DEFINE u == SubSeq(s, n + 1, n + 2)
           w == <<s[n + 1], s[n + 2]>>
<1>3. u \in Seq(PatternChar) /\ Len(u) = 2 /\ u[1] = s[n + 1] /\ u[2] = s[n + 2]
  BY <1>1, Consumed
<1>4. w \in Seq(PatternChar) /\ Len(w) = 2 /\ w[1] = s[n + 1] /\ w[2] = s[n + 2]
  BY <1>2, Short
<1>5. \A i \in 1..2 : u[i] = w[i]
  <2>1. \A i \in 1..2 : i = 1 \/ i = 2
    OBVIOUS
  <2> HIDE DEF u, w
  <2> QED BY <1>3, <1>4, <2>1
<1>6. u = w
  <2> HIDE DEF u, w
  <2> QED BY <1>3, <1>4, <1>5, SeqEqual
<1> QED BY <1>2, <1>6

(* Where an item with braces has its characters. *)
LEMMA HeldPositions ==
  ASSUME NEW N \in Nat, NEW n \in Nat, NEW m \in Nat, n + 4 <= m, m <= N
  PROVE  /\ n + 2 \in Nat /\ n + 3 \in Nat /\ m - 1 \in Nat
         /\ (n + 2) + 1 = n + 3 /\ (n + 3) + 1 = n + 4 /\ (m - 1) + 1 = m
         /\ n + 3 <= m - 1 /\ m - 1 <= N /\ n + 2 <= N /\ n + 3 <= N
         /\ n + 3 \in 1..(N + 1) /\ n + 3 \in ((n + 3) - 1)..N /\ m - 1 \in (n + 3)..N
         /\ m - 1 \in ((n + 3) - 1)..N /\ m \in (m - 1)..N
         /\ n + 1 \in 1..(N + 1) /\ n + 2 \in ((n + 1) - 1)..N /\ m \in (n + 2)..N
OBVIOUS

(* An item with braces, from its percent sign to its closing brace at m.   *)
LEMMA ConsumedHeld ==
  ASSUME NEW s \in Seq(PatternChar), NEW n \in Nat, NEW m \in Nat, n + 4 <= m, m <= Len(s),
         s[n + 1] = "%", s[n + 3] = LBrace, s[m] = RBrace
  PROVE  /\ SubSeq(s, n + 4, m - 1) \in Seq(PatternChar)
         /\ SubSeq(s, n + 1, m) =
              <<"%", s[n + 2]>> \o (<<LBrace>> \o SubSeq(s, n + 4, m - 1) \o <<RBrace>>)
<1> DEFINE t == SubSeq(s, n + 4, m - 1)
<1>0. Len(s) \in Nat
  BY LenProperties
<1>1. /\ n + 2 \in Nat /\ n + 3 \in Nat /\ m - 1 \in Nat
      /\ (n + 2) + 1 = n + 3 /\ (n + 3) + 1 = n + 4 /\ (m - 1) + 1 = m
      /\ n + 3 <= m - 1 /\ m - 1 <= Len(s) /\ n + 2 <= Len(s) /\ n + 3 <= Len(s)
  BY <1>0, HeldPositions
<1>2. SubSeq(s, n + 1, n + 2) = <<"%", s[n + 2]>>
  BY <1>1, ConsumedTwo
<1>3. SubSeq(s, n + 3, n + 3) = <<LBrace>>
  <2>1. SubSeq(s, (n + 2) + 1, (n + 2) + 1) = <<s[(n + 2) + 1]>>
    <3>1. n + 2 \in Nat /\ (n + 2) + 1 <= Len(s)
      BY <1>1
    <3> QED BY <3>1, ConsumedOne
  <2> QED BY <1>1, <2>1
<1>4. SubSeq(s, m, m) = <<RBrace>>
  <2>1. SubSeq(s, (m - 1) + 1, (m - 1) + 1) = <<s[(m - 1) + 1]>>
    BY <1>1, ConsumedOne
  <2> QED BY <1>1, <2>1
<1>5. t \in Seq(PatternChar)
  <2>1. SubSeq(s, (n + 3) + 1, m - 1) \in Seq(PatternChar)
    BY <1>1, Consumed
  <2> QED BY <1>1, <2>1
<1>6. SubSeq(s, n + 3, m - 1) = <<LBrace>> \o t
  <2>1. n + 3 \in 1..(Len(s) + 1) /\ n + 3 \in ((n + 3) - 1)..Len(s) /\ m - 1 \in (n + 3)..Len(s)
    BY <1>0, HeldPositions
  <2>2. SubSeq(s, n + 3, n + 3) \o SubSeq(s, (n + 3) + 1, m - 1) = SubSeq(s, n + 3, m - 1)
    BY <2>1, ConcatAdjacentSubSeq
  <2> QED BY <1>1, <1>3, <2>2
<1>7. SubSeq(s, n + 3, m) = (<<LBrace>> \o t) \o <<RBrace>>
  <2>1. n + 3 \in 1..(Len(s) + 1) /\ m - 1 \in ((n + 3) - 1)..Len(s) /\ m \in (m - 1)..Len(s)
    BY <1>0, HeldPositions
  <2>2. SubSeq(s, n + 3, m - 1) \o SubSeq(s, (m - 1) + 1, m) = SubSeq(s, n + 3, m)
    BY <2>1, ConcatAdjacentSubSeq
  <2> QED BY <1>1, <1>4, <1>6, <2>2
<1>8. SubSeq(s, n + 1, n + 2) \o SubSeq(s, n + 3, m) = SubSeq(s, n + 1, m)
  <2>1. n + 1 \in 1..(Len(s) + 1) /\ n + 2 \in ((n + 1) - 1)..Len(s) /\ m \in (n + 2)..Len(s)
    BY <1>0, HeldPositions
  <2>2. SubSeq(s, n + 1, n + 2) \o SubSeq(s, (n + 2) + 1, m) = SubSeq(s, n + 1, m)
    BY <2>1, ConcatAdjacentSubSeq
  <2> QED BY <1>1, <2>2
<1> HIDE DEF t
<1> QED BY <1>2, <1>5, <1>7, <1>8 DEF t

-----------------------------------------------------------------------------
(* Formatter: there is one way to cut a pattern *)

(* A way to cut goes on from every cut but the last. *)
LEMMA NextCut ==
  ASSUME NEW s, NEW n \in Nat, NEW C \in SUBSET (0..n), Cuts(s, n, C), NEW i \in C, i < n
  PROVE  \E j \in C : i < j /\ IsPart(s, i, j)
<1> DEFINE T == {j \in C : i < j}
<1>1. T \subseteq Nat /\ T # {}
  <2>1. n \in T
    BY DEF Cuts
  <2>2. T \subseteq Nat
    <3>1. C \subseteq Nat /\ T \subseteq C
      OBVIOUS
    <3> QED BY <3>1
  <2> QED BY <2>1, <2>2
<1>2. PICK j \in T : \A k \in T : j <= k
  <2> HIDE DEF T
  <2> QED BY <1>1, LeastNatural
<1>3. C \cap (i + 1)..(j - 1) = {}
  <2>1. i \in Nat /\ j \in Nat
    OBVIOUS
  <2>2. ASSUME NEW k \in C, k \in (i + 1)..(j - 1)
        PROVE  FALSE
    <3>1. k \in Nat /\ i < k /\ k < j
      BY <2>1, <2>2
    <3>2. k \in T
      BY <3>1
    <3>3. j <= k
      BY <1>2, <3>2
    <3> QED BY <2>1, <3>1, <3>3
  <2> QED BY <2>2
<1> QED BY <1>3 DEF Cuts

(* A part more is a cut more. *)
LEMMA OneMoreCut ==
  ASSUME NEW s, NEW n \in Nat, NEW C \in SUBSET (0..n), Cuts(s, n, C),
         NEW m \in Nat, n < m, IsPart(s, n, m)
  PROVE  C \cup {m} \in SUBSET (0..m) /\ Cuts(s, m, C \cup {m})
<1> DEFINE D == C \cup {m}
<1>1. D \in SUBSET (0..m) /\ {0, m} \subseteq D
  BY DEF Cuts
<1>2. ASSUME NEW i \in D, NEW j \in D, i < j, D \cap (i + 1)..(j - 1) = {}
      PROVE  IsPart(s, i, j)
  <2>1. i \in 0..m /\ j \in 0..m /\ n \in C /\ n \in D
    BY <1>1 DEF Cuts
  <2>2. CASE j = m
    <3>1. i \in C /\ i \in 0..n
      BY <1>2, <2>1, <2>2
    <3>2. ~(i < n)
      <4>1. i < n => n \in (i + 1)..(j - 1)
        BY <2>2, <3>1
      <4> QED BY <1>2, <2>1, <4>1
    <3>3. i = n
      BY <3>1, <3>2
    <3> QED BY <2>2, <3>3
  <2>3. CASE j # m
    <3>1. j \in C /\ j \in 0..n
      BY <2>3
    <3>2. i # m
      BY <1>2, <3>1
    <3>3. i \in C
      BY <3>2
    <3>4. C \cap (i + 1)..(j - 1) = {}
      BY <1>2
    <3> QED BY <1>2, <3>1, <3>3, <3>4 DEF Cuts
  <2> QED BY <2>2, <2>3
<1>3. Cuts(s, m, D)
  <2> HIDE DEF D
  <2> QED BY <1>1, <1>2 DEF Cuts
<1> QED BY <1>1, <1>3

(* A step over the only part that starts here stays on the cut.            *)
LEMMA OnTheCutAgain ==
  ASSUME FmtTypeOK, OnTheCut, pattern' = pattern, parse = "running", parse' = "running",
         fmt_pos' \in 0..Size, fmt_pos < fmt_pos', IsPart(pattern, fmt_pos, fmt_pos'),
         \A j \in 0..Size : IsPart(pattern, fmt_pos, j) => j = fmt_pos'
  PROVE  OnTheCut'
<1>1. Size \in Nat /\ fmt_pos \in Nat /\ fmt_pos' \in Nat /\ fmt_pos < Size /\ Size' = Size
  <2>1. pattern \in Seq(PatternChar) /\ fmt_pos \in 0..Size
    BY DEF FmtTypeOK
  <2>2. Size \in Nat /\ Size' = Size
    BY <2>1, LenProperties DEF Size
  <2> QED BY <2>1, <2>2
<1>2. PICK C \in SUBSET (0..fmt_pos) : Cuts(pattern, fmt_pos, C)
  BY DEF OnTheCut
<1>3. /\ C \cup {fmt_pos'} \in SUBSET (0..fmt_pos')
      /\ Cuts(pattern, fmt_pos', C \cup {fmt_pos'})
  BY <1>1, <1>2, OneMoreCut
<1>4. ASSUME NEW D \in SUBSET (0..Size), Cuts(pattern, Size, D)
      PROVE  fmt_pos' \in D
  <2>1. fmt_pos \in D
    BY <1>4 DEF OnTheCut
  <2>2. PICK j \in D : fmt_pos < j /\ IsPart(pattern, fmt_pos, j)
    BY <1>1, <1>4, <2>1, NextCut
  <2>3. j = fmt_pos'
    BY <2>2
  <2> QED BY <2>3
<1>5. \E D \in SUBSET (0..fmt_pos') : Cuts(pattern', fmt_pos', D)
  BY <1>3
<1>6. \A D \in SUBSET (0..Size') : Cuts(pattern', Size', D) => fmt_pos' \in D /\ parse' # "false"
  BY <1>1, <1>4
<1> QED BY <1>5, <1>6 DEF OnTheCut

(* Where no part starts, no way to cut the pattern goes on.                *)
LEMMA OffTheCut ==
  ASSUME FmtTypeOK, OnTheCut, pattern' = pattern, fmt_pos' = fmt_pos, parse' = "false",
         fmt_pos < Size, \A j \in 0..Size : ~IsPart(pattern, fmt_pos, j)
  PROVE  OnTheCut'
<1>1. Size \in Nat /\ Size' = Size
  BY LenProperties DEF FmtTypeOK, Size
<1>2. ASSUME NEW D \in SUBSET (0..Size), Cuts(pattern, Size, D)
      PROVE  FALSE
  <2>1. fmt_pos \in D
    BY <1>2 DEF OnTheCut
  <2>2. PICK j \in D : fmt_pos < j /\ IsPart(pattern, fmt_pos, j)
    BY <1>1, <1>2, <2>1, NextCut
  <2> QED BY <2>2
<1>3. \E D \in SUBSET (0..fmt_pos') : Cuts(pattern', fmt_pos', D)
  BY DEF OnTheCut
<1>4. \A D \in SUBSET (0..Size') : Cuts(pattern', Size', D) => fmt_pos' \in D /\ parse' # "false"
  BY <1>1, <1>2
<1> QED BY <1>3, <1>4 DEF OnTheCut

(* Nothing is spelt by nothing, and every cut has a cut at the beginning. *)
LEMMA InitFmt == FmtInit => FmtIInv
<1> SUFFICES ASSUME FmtInit
             PROVE  FmtIInv
  OBVIOUS
<1>1. /\ fmt_pos = 0 /\ val = <<>> /\ fmt_order = <<>> /\ parse = "running"
      /\ pattern \in Pattern
  BY DEF FmtInit
<1>2. pattern \in Seq(PatternChar)
  <2>1. PICK n \in 0..MaxPattern : pattern \in [1..n -> PatternChar]
    BY <1>1 DEF Pattern
  <2>2. n \in Nat
    <3>1. MaxPattern \in Nat
      BY FormatterAssumption
    <3> QED BY <3>1
  <2> QED BY <2>1, <2>2
<1>3. Size \in Nat
  BY <1>2, LenProperties DEF Size
<1>4. FmtTypeOK
  <2>1. fmt_order \in Seq([key : PatternChar \cup {""}, text : Seq(PatternChar)])
    BY <1>1, EmptySeq
  <2>2. val \in Seq(PatternChar) /\ fmt_pos \in 0..Size
    BY <1>1, <1>3, EmptySeq
  <2> QED BY <1>1, <1>2, <2>1, <2>2 DEF FmtTypeOK
<1>5. SpellsConsumed
  <2>1. SubSeq(pattern, 1, fmt_pos) = <<>>
    BY <1>1, SubSeqEmpty
  <2>2. fmt_order \in Seq(Item) /\ Len(fmt_order) = 0
    BY <1>1, EmptySeq
  <2>3. [i \in 1..0 |-> Spelling(fmt_order[i], fmt_order[i].text # <<>> \/ i \in {})] = <<>>
    OBVIOUS
  <2>4. Spelt(fmt_order, {}) = <<>>
    BY <2>2, <2>3, FlattenEmpty DEF Spelt
  <2>5. Spelt(fmt_order, {}) \o Escaped(val) = <<>>
    BY <1>1, <2>4, EscapedEmpty
  <2>6. Spells(fmt_order, val, <<>>)
    BY <2>2, <2>5, SpellsIsSpelt
  <2> QED BY <2>1, <2>6 DEF SpellsConsumed
<1>6. OnTheCut
  <2>1. {0} \in SUBSET (0..0) /\ Cuts(pattern, 0, {0})
    BY DEF Cuts
  <2>2. \A C \in SUBSET (0..Size) : Cuts(pattern, Size, C) => 0 \in C
    BY DEF Cuts
  <2> QED BY <1>1, <2>1, <2>2 DEF OnTheCut
<1> QED BY <1>4, <1>5, <1>6 DEF FmtIInv

(* Where the parser is, and the characters it looks at. *)
LEMMA Here ==
  ASSUME FmtIInv
  PROVE  /\ pattern \in Seq(PatternChar) /\ Size = Len(pattern) /\ Size \in Nat
         /\ fmt_pos \in Nat /\ fmt_pos <= Size
         /\ At(fmt_pos) = pattern[fmt_pos + 1] /\ At(fmt_pos + 1) = pattern[fmt_pos + 2]
         /\ At(fmt_pos + 2) = pattern[fmt_pos + 3]
         /\ val \in Seq(PatternChar) /\ fmt_order \in Seq(Item)
<1>1. /\ pattern \in Seq(PatternChar) /\ fmt_pos \in 0..Size
      /\ val \in Seq(PatternChar) /\ fmt_order \in Seq(Item)
  BY DEF FmtIInv, FmtTypeOK, Item
<1>2. Size = Len(pattern) /\ Size \in Nat
  BY <1>1, LenProperties DEF Size
<1>3. fmt_pos \in Nat /\ fmt_pos <= Size
  BY <1>1, <1>2
<1>4. (fmt_pos + 1) + 1 = fmt_pos + 2 /\ (fmt_pos + 2) + 1 = fmt_pos + 3
  BY <1>3
<1> QED BY <1>1, <1>2, <1>3, <1>4 DEF At

(* Which part starts at a position is decided by the characters there.     *)
LEMMA OnlyRaw ==
  ASSUME NEW s, NEW N \in Nat, N = Len(s), NEW p \in Nat, s[p + 1] # "%"
  PROVE  IsPart(s, p, p + 1) /\ \A j \in 0..N : IsPart(s, p, j) => j = p + 1
BY DEF IsPart, Raw, Twice, Bare, Held

(* At a percent sign before another there is a doubled one. *)
LEMMA OnlyTwice ==
  ASSUME NEW s, NEW N \in Nat, N = Len(s), NEW p \in Nat, s[p + 1] = "%", s[p + 2] = "%"
  PROVE  IsPart(s, p, p + 2) /\ \A j \in 0..N : IsPart(s, p, j) => j = p + 2
BY DEF IsPart, Raw, Twice, Bare, Held

(* At any other, with no opening brace to follow, there is an item without *)
(* braces.                                                                 *)
LEMMA OnlyBare ==
  ASSUME NEW s, NEW N \in Nat, N = Len(s), NEW p \in Nat, s[p + 1] = "%", s[p + 2] # "%",
         ~(p + 2 < N /\ s[p + 3] = LBrace)
  PROVE  IsPart(s, p, p + 2) /\ \A j \in 0..N : IsPart(s, p, j) => j = p + 2
<1>1. Bare(s, p, p + 2)
  <2>1. (p + 2) + 1 = p + 3
    OBVIOUS
  <2> QED BY <2>1 DEF Bare
<1>2. ASSUME NEW j \in 0..N, IsPart(s, p, j)
      PROVE  j = p + 2
  <2>1. ~Held(s, p, j)
    <3>1. j >= p + 4 => p + 2 < N
      OBVIOUS
    <3> QED BY <3>1 DEF Held
  <2> QED BY <1>2, <2>1 DEF IsPart, Raw, Twice, Bare
<1> QED BY <1>1, <1>2 DEF IsPart

(* With an opening brace, there is an item with braces that ends at the    *)
(* first closing one.                                                      *)
LEMMA OnlyHeld ==
  ASSUME NEW s, NEW N \in Nat, N = Len(s), NEW p \in Nat, s[p + 1] = "%", s[p + 2] # "%",
         p + 2 < N, s[p + 3] = LBrace,
         NEW m \in (p + 4)..N, s[m] = RBrace, \A j \in (p + 4)..N : s[j] = RBrace => m <= j
  PROVE  IsPart(s, p, m) /\ \A j \in 0..N : IsPart(s, p, j) => j = m
<1>1. Held(s, p, m)
  <2>1. ASSUME NEW k \in (p + 4)..(m - 1)
        PROVE  s[k] # RBrace
    <3>1. k \in (p + 4)..N /\ ~(m <= k)
      OBVIOUS
    <3> QED BY <3>1
  <2>2. m >= p + 4
    OBVIOUS
  <2> QED BY <2>1, <2>2 DEF Held
<1>2. ASSUME NEW j \in 0..N, IsPart(s, p, j)
      PROVE  j = m
  <2>1. ~Bare(s, p, j)
    <3>1. j = p + 2 => j < N /\ j + 1 = p + 3
      OBVIOUS
    <3> QED BY <3>1 DEF Bare
  <2>2. ~Raw(s, p, j) /\ ~Twice(s, p, j)
    BY DEF Raw, Twice
  <2>3. j >= p + 4 /\ s[j] = RBrace /\ \A k \in (p + 4)..(j - 1) : s[k] # RBrace
    BY <1>2, <2>1, <2>2 DEF IsPart, Held
  <2>4. m <= j
    <3>1. j \in (p + 4)..N
      BY <2>3
    <3> QED BY <2>3, <3>1
  <2>5. ~(m < j)
    <3>1. m < j => m \in (p + 4)..(j - 1)
      OBVIOUS
    <3> QED BY <2>3, <3>1
  <2> QED BY <2>4, <2>5
<1> QED BY <1>1, <1>2 DEF IsPart

(* At a percent sign that ends the pattern, or begins an item whose braces *)
(* are not closed, there is none.                                          *)
LEMMA NoPart ==
  ASSUME NEW s, NEW N \in Nat, N = Len(s), NEW p \in Nat, s[p + 1] = "%",
         \/ p + 1 = N
         \/ /\ s[p + 2] # "%" /\ p + 2 < N /\ s[p + 3] = LBrace
            /\ \A j \in (p + 4)..N : s[j] # RBrace
  PROVE  \A j \in 0..N : ~IsPart(s, p, j)
<1>1. CASE p + 1 = N
  <2>1. \A j \in 0..N : j # p + 2 /\ ~(j >= p + 4)
    BY <1>1
  <2> QED BY <2>1 DEF IsPart, Raw, Twice, Bare, Held
<1>2. CASE /\ s[p + 2] # "%" /\ p + 2 < N /\ s[p + 3] = LBrace
           /\ \A j \in (p + 4)..N : s[j] # RBrace
  <2>1. SUFFICES ASSUME NEW j \in 0..N
                 PROVE  ~IsPart(s, p, j)
    OBVIOUS
  <2>2. ~Bare(s, p, j)
    <3>1. j = p + 2 => j < N /\ j + 1 = p + 3
      BY <1>2
    <3> QED BY <1>2, <3>1 DEF Bare
  <2>3. ~Raw(s, p, j) /\ ~Twice(s, p, j)
    BY <1>2 DEF Raw, Twice
  <2>4. ~Held(s, p, j)
    <3>1. j >= p + 4 => j \in (p + 4)..N
      OBVIOUS
    <3> QED BY <1>2, <3>1 DEF Held
  <2> QED BY <2>2, <2>3, <2>4 DEF IsPart
<1> QED BY <1>1, <1>2

(* A raw character is appended to the raw text. *)
LEMMA RawCharFmt ==
  ASSUME FmtIInv, RawChar
  PROVE  FmtIInv'
<1> DEFINE p == fmt_pos
           c == pattern[p + 1]
<1>1. /\ parse = "running" /\ p < Size /\ At(p) # "%" /\ val' = Append(val, At(p)) /\ fmt_pos' = p + 1
      /\ pattern' = pattern /\ fmt_order' = fmt_order /\ parse' = parse
  BY DEF RawChar
<1>2. FmtTypeOK /\ OnTheCut /\ Spells(fmt_order, val, SubSeq(pattern, 1, p))
  BY DEF FmtIInv, SpellsConsumed
<1>3. /\ pattern \in Seq(PatternChar) /\ p \in Nat /\ Size \in Nat /\ At(p) = c
      /\ p + 1 <= Len(pattern) /\ p + 1 \in 0..Size
      /\ val \in Seq(PatternChar) /\ fmt_order \in Seq(Item)
  BY <1>1, Here
<1>4. SubSeq(pattern, p + 1, p + 1) = <<c>> /\ c \in PatternChar
  BY <1>3, ConsumedOne
<1>5. FmtTypeOK'
  <2>1. val' \in Seq(PatternChar)
    BY <1>1, <1>3, <1>4, AppendProperties
  <2> QED BY <1>1, <1>2, <1>3, <2>1 DEF FmtTypeOK, Size
<1>6. SpellsConsumed'
  <2>1. Spells(fmt_order, Append(val, c), SubSeq(pattern, 1, p) \o EscapedChar(c))
    BY <1>2, <1>3, <1>4, SpellsRaw
  <2>2. EscapedChar(c) = <<c>>
    BY <1>1, <1>3 DEF EscapedChar
  <2>3. SubSeq(pattern, 1, p + 1) = SubSeq(pattern, 1, p) \o <<c>>
    <3>1. p + 1 \in Nat /\ p <= p + 1
      BY <1>3
    <3> QED BY <1>3, <1>4, <3>1, Consumed
  <2> QED BY <1>1, <1>3, <2>1, <2>2, <2>3 DEF SpellsConsumed
<1>7. OnTheCut'
  <2>1. IsPart(pattern, p, p + 1)
    BY <1>1, <1>3 DEF IsPart, Raw
  <2>2. \A j \in 0..Size : IsPart(pattern, p, j) => j = p + 1
    BY <1>1, <1>3 DEF IsPart, Raw, Twice, Bare, Held
  <2> QED BY <1>1, <1>2, <1>3, <2>1, <2>2, OnTheCutAgain
<1> QED BY <1>5, <1>6, <1>7 DEF FmtIInv

(* A doubled percent sign is one in the raw text. *)
LEMMA EscapedPercentFmt ==
  ASSUME FmtIInv, EscapedPercent
  PROVE  FmtIInv'
<1> DEFINE p == fmt_pos
<1>1. /\ parse = "running" /\ p + 1 < Size /\ At(p) = "%" /\ At(p + 1) = "%"
      /\ val' = Append(val, "%") /\ fmt_pos' = p + 2
      /\ pattern' = pattern /\ fmt_order' = fmt_order /\ parse' = parse
  BY DEF EscapedPercent, Percent, Escape
<1>2. FmtTypeOK /\ OnTheCut /\ Spells(fmt_order, val, SubSeq(pattern, 1, p))
  BY DEF FmtIInv, SpellsConsumed
<1>3. /\ pattern \in Seq(PatternChar) /\ p \in Nat /\ Size \in Nat
      /\ pattern[p + 1] = "%" /\ pattern[p + 2] = "%"
      /\ p + 2 <= Len(pattern) /\ p + 2 \in 0..Size
      /\ val \in Seq(PatternChar) /\ fmt_order \in Seq(Item)
  BY <1>1, Here
<1>4. SubSeq(pattern, p + 1, p + 2) = <<"%", "%">>
  BY <1>3, ConsumedTwo
<1>5. FmtTypeOK'
  <2>1. val' \in Seq(PatternChar)
    BY <1>1, <1>3, Marks, AppendProperties
  <2> QED BY <1>1, <1>2, <1>3, <2>1 DEF FmtTypeOK, Size
<1>6. SpellsConsumed'
  <2>1. Spells(fmt_order, Append(val, "%"), SubSeq(pattern, 1, p) \o EscapedChar("%"))
    BY <1>2, <1>3, Marks, SpellsRaw
  <2>2. EscapedChar("%") = <<"%", "%">>
    BY DEF EscapedChar
  <2>3. SubSeq(pattern, 1, p + 2) = SubSeq(pattern, 1, p) \o <<"%", "%">>
    <3>1. p + 2 \in Nat /\ p <= p + 2
      BY <1>3
    <3> QED BY <1>3, <1>4, <3>1, Consumed
  <2> QED BY <1>1, <2>1, <2>2, <2>3 DEF SpellsConsumed
<1>7. OnTheCut'
  <2>1. IsPart(pattern, p, p + 2)
    BY <1>3 DEF IsPart, Twice
  <2>2. \A j \in 0..Size : IsPart(pattern, p, j) => j = p + 2
    BY <1>3 DEF IsPart, Raw, Twice, Bare, Held
  <2>3. p < p + 2
    BY <1>3
  <2> QED BY <1>1, <1>2, <1>3, <2>1, <2>2, <2>3, OnTheCutAgain
<1> QED BY <1>5, <1>6, <1>7 DEF FmtIInv

(* An item with the text t, written with or without braces, is taken.      *)
LEMMA ItemTaken ==
  ASSUME FmtIInv, NEW t \in Seq(PatternChar), NEW braces \in BOOLEAN, t # <<>> => braces,
         NEW m \in Nat, fmt_pos + 2 <= m, m <= Size,
         SubSeq(pattern, fmt_pos + 1, m) =
           <<"%", pattern[fmt_pos + 2]>> \o IF braces THEN <<LBrace>> \o t \o <<RBrace>> ELSE <<>>,
         fmt_order' = Append(RawDone, Pair(pattern[fmt_pos + 2], t)), val' = <<>>,
         fmt_pos' = m, pattern' = pattern, parse' = parse
  PROVE  FmtTypeOK' /\ SpellsConsumed'
<1> DEFINE p == fmt_pos
           c == pattern[p + 2]
<1>1. /\ pattern \in Seq(PatternChar) /\ p \in Nat /\ Size = Len(pattern) /\ Size \in Nat
      /\ val \in Seq(PatternChar) /\ fmt_order \in Seq(Item)
  BY Here
<1>2. c \in PatternChar
  BY <1>1, ElementOfSeq
<1>3. Spells(fmt_order, val, SubSeq(pattern, 1, p))
  BY DEF FmtIInv, SpellsConsumed
<1>4. RawDone \in Seq(Item) /\ Spells(RawDone, <<>>, SubSeq(pattern, 1, p))
  BY <1>1, <1>3, SpellsRawDone
<1>5. /\ fmt_order' \in Seq(Item)
      /\ Spells(fmt_order', <<>>, SubSeq(pattern, 1, p) \o Spelling(Pair(c, t), braces))
  BY <1>2, <1>4, SpellsItem
<1>6. Spelling(Pair(c, t), braces) = SubSeq(pattern, p + 1, m)
  <2>1. c # ""
    BY <1>2, FormatterAssumption
  <2>2. Pair(c, t).key = c /\ Pair(c, t).text = t
    BY DEF Pair
  <2> QED BY <2>1, <2>2 DEF Spelling
<1>7. SubSeq(pattern, 1, p) \o SubSeq(pattern, p + 1, m) = SubSeq(pattern, 1, m)
  <2>1. p <= m /\ m <= Len(pattern)
    BY <1>1
  <2> QED BY <1>1, <2>1, Consumed
<1>8. SpellsConsumed'
  BY <1>5, <1>6, <1>7 DEF SpellsConsumed
<1>9. FmtTypeOK'
  <2>1. /\ fmt_order' \in Seq([key : PatternChar \cup {""}, text : Seq(PatternChar)])
        /\ val' \in Seq(PatternChar)
    BY <1>5, EmptySeq DEF Item
  <2>2. fmt_pos' \in 0..Size' /\ pattern' \in Seq(PatternChar)
    BY <1>1 DEF Size
  <2>3. parse' \in {"running", "true", "false", "abort"}
    BY DEF FmtIInv, FmtTypeOK
  <2> QED BY <2>1, <2>2, <2>3 DEF FmtTypeOK
<1> QED BY <1>8, <1>9

(* An item without braces ends the raw text. *)
LEMMA PlainItemFmt ==
  ASSUME FmtIInv, PlainItem
  PROVE  FmtIInv'
<1> DEFINE p == fmt_pos
<1>1. /\ parse = "running" /\ At(p) = "%" /\ p + 1 < Size /\ ~(p + 1 < Size /\ At(p + 1) = "%")
      /\ ~(p + 2 < Size /\ At(p + 2) = LBrace)
      /\ fmt_order' = Append(RawDone, Pair(At(p + 1), <<>>)) /\ val' = <<>> /\ fmt_pos' = p + 2
      /\ pattern' = pattern /\ parse' = parse
  BY DEF PlainItem, Percent, Escape, Braced
<1>2. FmtTypeOK /\ OnTheCut
  BY DEF FmtIInv
<1>3. /\ pattern \in Seq(PatternChar) /\ p \in Nat /\ Size \in Nat /\ Size = Len(pattern)
      /\ At(p + 1) = pattern[p + 2] /\ pattern[p + 1] = "%" /\ pattern[p + 2] # "%"
      /\ ~(p + 2 < Size /\ pattern[p + 3] = LBrace)
      /\ p + 2 <= Size /\ p + 2 \in 0..Size /\ p + 2 \in Nat
  BY <1>1, Here
<1>4. SubSeq(pattern, p + 1, p + 2) = <<"%", pattern[p + 2]>> \o <<>>
  <2>1. SubSeq(pattern, p + 1, p + 2) = <<"%", pattern[p + 2]>>
    BY <1>3, ConsumedTwo
  <2>2. SubSeq(pattern, p + 1, p + 2) \in Seq(PatternChar)
    BY <1>3, Consumed
  <2> QED BY <2>1, <2>2, ConcatEmptySeq
<1>5. FmtTypeOK' /\ SpellsConsumed'
  <2>1. PICK t, braces, m : t = <<>> /\ braces = FALSE /\ m = p + 2
    OBVIOUS
  <2>2. t \in Seq(PatternChar) /\ braces \in BOOLEAN /\ (t # <<>> => braces)
    BY <2>1, EmptySeq
  <2>3. SubSeq(pattern, p + 1, m) =
          <<"%", pattern[p + 2]>> \o IF braces THEN <<LBrace>> \o t \o <<RBrace>> ELSE <<>>
    BY <1>4, <2>1
  <2>4. fmt_order' = Append(RawDone, Pair(pattern[p + 2], t)) /\ fmt_pos' = m
    BY <1>1, <1>3, <2>1
  <2>5. m \in Nat /\ p + 2 <= m /\ m <= Size
    BY <1>3, <2>1
  <2> QED BY <1>1, <2>2, <2>3, <2>4, <2>5, ItemTaken
<1>6. OnTheCut'
  <2>1. IsPart(pattern, p, p + 2)
    <3>1. (p + 2) + 1 = p + 3
      BY <1>3
    <3> QED BY <1>3, <3>1 DEF IsPart, Bare
  <2>2. ASSUME NEW j \in 0..Size, IsPart(pattern, p, j)
        PROVE  j = p + 2
    <3>1. ~Held(pattern, p, j)
      BY <1>3 DEF Held
    <3> QED BY <1>3, <2>2, <3>1 DEF IsPart, Raw, Twice, Bare
  <2>3. p < p + 2
    BY <1>3
  <2> QED BY <1>1, <1>2, <1>3, <2>1, <2>2, <2>3, OnTheCutAgain
<1> QED BY <1>5, <1>6 DEF FmtIInv

(* An item with braces ends the raw text and takes what is in them. *)
LEMMA BracedItemFmt ==
  ASSUME FmtIInv, BracedItem
  PROVE  FmtIInv'
<1> DEFINE p == fmt_pos
<1>1. /\ parse = "running" /\ At(p) = "%" /\ ~(p + 1 < Size /\ At(p + 1) = "%")
      /\ p + 2 < Size /\ At(p + 2) = LBrace /\ val' = <<>> /\ pattern' = pattern /\ parse' = parse
  BY DEF BracedItem, Percent, Escape, Braced
<1>2. FmtTypeOK /\ OnTheCut
  BY DEF FmtIInv
<1>3. /\ pattern \in Seq(PatternChar) /\ p \in Nat /\ Size \in Nat /\ Size = Len(pattern)
      /\ At(p + 1) = pattern[p + 2] /\ pattern[p + 1] = "%" /\ pattern[p + 2] # "%"
      /\ pattern[p + 3] = LBrace
  BY <1>1, Here
<1>4. PICK i \in Closing :
        /\ \A j \in Closing : i <= j
        /\ fmt_order' = Append(RawDone, Pair(At(p + 1), SubSeq(pattern, p + 4, i)))
        /\ fmt_pos' = i + 1
  BY DEF BracedItem
<1>5. /\ \A k \in (p + 3)..(Size - 1) : At(k) = pattern[k + 1]
      /\ \A k : k \in Closing <=> k \in (p + 3)..(Size - 1) /\ pattern[k + 1] = RBrace
  BY DEF Closing, At
<1> DEFINE m == i + 1
<1>6. /\ m \in Nat /\ p + 4 <= m /\ m <= Size /\ m - 1 = i /\ i \in Nat /\ pattern[m] = RBrace
      /\ m \in 0..Size /\ p + 2 <= m /\ p < m
  BY <1>3, <1>5
<1>7. \A j \in (p + 4)..Size : pattern[j] = RBrace => m <= j
  <2>1. SUFFICES ASSUME NEW j \in (p + 4)..Size, pattern[j] = RBrace
                 PROVE  m <= j
    OBVIOUS
  <2>2. j - 1 \in (p + 3)..(Size - 1) /\ (j - 1) + 1 = j
    BY <1>3
  <2>3. j - 1 \in Closing
    BY <1>5, <2>1, <2>2
  <2>4. i <= j - 1
    BY <1>4, <2>3
  <2> QED BY <1>3, <1>6, <2>4
<1> HIDE DEF m
<1>8. FmtTypeOK' /\ SpellsConsumed'
  <2> DEFINE t == SubSeq(pattern, p + 4, i)
             braces == TRUE
  <2>1. /\ t \in Seq(PatternChar)
        /\ SubSeq(pattern, p + 1, m) = <<"%", pattern[p + 2]>> \o (<<LBrace>> \o t \o <<RBrace>>)
    <3>1. PICK s, n : s = pattern /\ n = p
      OBVIOUS
    <3>2. /\ s \in Seq(PatternChar) /\ n \in Nat /\ n + 4 <= m /\ m <= Len(s)
          /\ s[n + 1] = "%" /\ s[n + 3] = LBrace /\ s[m] = RBrace
      BY <1>3, <1>6, <3>1
    <3>3. /\ SubSeq(s, n + 4, m - 1) \in Seq(PatternChar)
          /\ SubSeq(s, n + 1, m) =
               <<"%", s[n + 2]>> \o (<<LBrace>> \o SubSeq(s, n + 4, m - 1) \o <<RBrace>>)
      BY <1>6, <3>2, ConsumedHeld
    <3> QED BY <1>6, <3>1, <3>3
  <2>2. /\ braces \in BOOLEAN /\ (t # <<>> => braces)
        /\ SubSeq(pattern, p + 1, m) =
             <<"%", pattern[p + 2]>> \o IF braces THEN <<LBrace>> \o t \o <<RBrace>> ELSE <<>>
    BY <2>1
  <2>3. fmt_order' = Append(RawDone, Pair(pattern[p + 2], t)) /\ fmt_pos' = m
    BY <1>3, <1>4 DEF m
  <2> HIDE DEF t, braces
  <2> QED BY <1>1, <1>6, <2>1, <2>2, <2>3, ItemTaken
<1>9. OnTheCut'
  <2>1. IsPart(pattern, p, m)
    <3>1. ASSUME NEW k \in (p + 4)..(m - 1)
          PROVE  pattern[k] # RBrace
      <4>1. k \in (p + 4)..Size /\ ~(m <= k)
        BY <1>3, <1>6
      <4> QED BY <1>7, <4>1
    <3> QED BY <1>3, <1>6, <3>1 DEF IsPart, Held
  <2>2. ASSUME NEW j \in 0..Size, IsPart(pattern, p, j)
        PROVE  j = m
    <3>1. ~Bare(pattern, p, j)
      <4>1. j = p + 2 => j < Len(pattern) /\ j + 1 = p + 3
        BY <1>1, <1>3
      <4> QED BY <1>3, <4>1 DEF Bare
    <3>2. ~Raw(pattern, p, j) /\ ~Twice(pattern, p, j)
      BY <1>3 DEF Raw, Twice
    <3>3. Held(pattern, p, j)
      BY <2>2, <3>1, <3>2 DEF IsPart
    <3>4. /\ j \in (p + 4)..Size /\ pattern[j] = RBrace
          /\ \A k \in (p + 4)..(j - 1) : pattern[k] # RBrace
      BY <1>3, <3>3 DEF Held
    <3>5. m <= j
      BY <1>7, <3>4
    <3>6. ~(m < j)
      <4>1. m < j => m \in (p + 4)..(j - 1)
        BY <1>3, <1>6
      <4> QED BY <1>6, <3>4, <4>1
    <3> QED BY <1>6, <3>5, <3>6
  <2>3. fmt_pos' = m
    BY <1>4 DEF m
  <2> QED BY <1>1, <1>2, <1>6, <2>1, <2>2, <2>3, OnTheCutAgain
<1> QED BY <1>8, <1>9 DEF FmtIInv

(* A pattern is refused where no part starts. *)
LEMMA RefusedFmt ==
  ASSUME FmtIInv, NoFormatChar \/ OpenBrace
  PROVE  FmtIInv'
<1> DEFINE p == fmt_pos
<1>1. /\ parse = "running" /\ p < Size /\ At(p) = "%" /\ ~(p + 1 < Size /\ At(p + 1) = "%")
      /\ parse' = "false" /\ UNCHANGED <<pattern, fmt_pos, val, fmt_order>>
  BY DEF NoFormatChar, OpenBrace, Percent, Escape
<1>2. FmtTypeOK /\ OnTheCut /\ SpellsConsumed
  BY DEF FmtIInv
<1>3. /\ p \in Nat /\ Size \in Nat /\ Size = Len(pattern) /\ pattern[p + 1] = "%"
      /\ ~(p + 1 < Size /\ pattern[p + 2] = "%")
  BY <1>1, Here
<1>4. ASSUME NEW j \in 0..Size, IsPart(pattern, p, j)
      PROVE  FALSE
  <2>1. ~Raw(pattern, p, j)
    BY <1>3 DEF Raw
  <2>2. ~Twice(pattern, p, j)
    BY <1>3 DEF Twice
  <2>3. CASE NoFormatChar
    <3>1. p + 1 = Size
      BY <2>3 DEF NoFormatChar
    <3>2. j # p + 2 /\ ~(j >= p + 4)
      BY <1>3, <3>1
    <3> QED BY <1>4, <2>1, <2>2, <3>2 DEF IsPart, Bare, Held
  <2>4. CASE OpenBrace
    <3>1. p + 2 < Size /\ At(p + 2) = LBrace /\ Closing = {}
      BY <2>4 DEF OpenBrace, Braced
    <3>2. pattern[p + 3] = LBrace
      BY <3>1, Here
    <3>3. ~Bare(pattern, p, j)
      <4>1. j = p + 2 => j < Len(pattern) /\ j + 1 = p + 3
        BY <1>3, <3>1
      <4> QED BY <3>2, <4>1 DEF Bare
    <3>4. ~Held(pattern, p, j)
      <4>1. j >= p + 4 => j - 1 \in (p + 3)..(Size - 1) /\ (j - 1) + 1 = j
        BY <1>3
      <4>2. j >= p + 4 /\ pattern[j] = RBrace => j - 1 \in Closing
        BY <4>1 DEF Closing, At
      <4> QED BY <3>1, <4>2 DEF Held
    <3> QED BY <1>4, <2>1, <2>2, <3>3, <3>4 DEF IsPart
  <2> QED BY <2>3, <2>4
<1>5. OnTheCut'
  BY <1>1, <1>2, <1>4, OffTheCut
<1>6. FmtTypeOK' /\ SpellsConsumed'
  BY <1>1, <1>2 DEF FmtTypeOK, SpellsConsumed, Size
<1> QED BY <1>5, <1>6 DEF FmtIInv

(* The items are made when all of the pattern is consumed. *)
LEMMA CreatItemsFmt ==
  ASSUME FmtIInv, CreatItems
  PROVE  FmtIInv'
<1>1. /\ fmt_pos = Size /\ parse' \in {"true", "abort"}
      /\ UNCHANGED <<pattern, fmt_pos, val, fmt_order>>
  BY DEF CreatItems
<1>2. FmtTypeOK' /\ SpellsConsumed'
  BY <1>1 DEF FmtIInv, FmtTypeOK, SpellsConsumed, Size
<1>3. OnTheCut'
  BY <1>1 DEF FmtIInv, OnTheCut, Size
<1> QED BY <1>2, <1>3 DEF FmtIInv

(* Every step keeps the invariant. *)
LEMMA NextFmt == FmtIInv /\ [FmtNext]_fmtVars => FmtIInv'
<1> SUFFICES ASSUME FmtIInv, [FmtNext]_fmtVars
             PROVE  FmtIInv'
  OBVIOUS
<1>1. CASE FmtNext
  BY <1>1, RawCharFmt, EscapedPercentFmt, PlainItemFmt, BracedItemFmt, RefusedFmt,
     CreatItemsFmt DEF FmtNext
<1>2. CASE UNCHANGED fmtVars
  BY <1>2 DEF fmtVars, FmtIInv, FmtTypeOK, SpellsConsumed, OnTheCut, Size
<1> QED BY <1>1, <1>2

(* The parser is on the only way to cut its pattern into parts.            *)
THEOREM FmtInvariant == FmtSpec => []FmtIInv
<1> QED BY InitFmt, NextFmt, PTL DEF FmtSpec

(* No character of a pattern is lost, taken twice or moved to another item *)
(* while parsePattern collects its items.                                  *)
THEOREM ConsumedIsSpelt == FmtSpec => []SpellsConsumed
<1>1. FmtIInv => SpellsConsumed
  BY DEF FmtIInv
<1> QED BY <1>1, FmtInvariant, PTL

(* parsePattern refuses a pattern if and only if it cannot be cut into raw *)
(* characters, doubled percent signs and items.                            *)
THEOREM RefusedIffNoCut == FmtSpec => []ParsesLanguage
<1>1. FmtIInv => ParsesLanguage
  <2> SUFFICES ASSUME FmtIInv, parse # "running"
               PROVE  parse = "false" <=> ~InLanguage(pattern)
    BY DEF ParsesLanguage
  <2>1. CASE parse = "false"
    BY <2>1 DEF FmtIInv, OnTheCut, InLanguage, Size
  <2>2. CASE parse # "false"
    <3>1. parse \in {"true", "abort"}
      BY <2>2 DEF FmtIInv, FmtTypeOK
    <3>2. fmt_pos = Len(pattern)
      BY <3>1 DEF FmtIInv, OnTheCut, Size
    <3>3. InLanguage(pattern)
      BY <3>2 DEF FmtIInv, OnTheCut, InLanguage
    <3> QED BY <2>2, <3>3
  <2> QED BY <2>1, <2>2
<1> QED BY <1>1, FmtInvariant, PTL
=============================================================================
