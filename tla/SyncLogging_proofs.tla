------------------------ MODULE SyncLogging_proofs -------------------------
(***************************************************************************)
(* What synchronous loggers put into their files, for any threads, names,  *)
(* loggers, messages and times, and any number of crashes and restarts.    *)
(***************************************************************************)
EXTENDS SyncLogging, FiniteSetTheorems, TLAPS

(***************************************************************************)
(* Sequences                                                               *)
(***************************************************************************)

LEMMA Appended ==
  ASSUME NEW S, NEW s \in Seq(S), NEW e \in S
  PROVE  /\ Append(s, e) \in Seq(S) /\ Len(Append(s, e)) = Len(s) + 1
         /\ Append(s, e)[Len(s) + 1] = e
         /\ \A i \in 1..Len(s) : Append(s, e)[i] = s[i]
  OBVIOUS

LEMMA Split ==
  ASSUME NEW S, NEW s \in Seq(S), NEW n \in 0..Len(s)
  PROVE  /\ SubSeq(s, 1, n) \in Seq(S) /\ Len(SubSeq(s, 1, n)) = n
         /\ \A i \in 1..n : SubSeq(s, 1, n)[i] = s[i]
         /\ SubSeq(s, n + 1, Len(s)) \in Seq(S)
         /\ Len(SubSeq(s, n + 1, Len(s))) = Len(s) - n
         /\ \A i \in 1..(Len(s) - n) : SubSeq(s, n + 1, Len(s))[i] = s[n + i]
         /\ n = Len(s) => SubSeq(s, n + 1, Len(s)) = <<>>
<1>0. Len(s) \in Nat
  OBVIOUS
<1>1. SubSeq(s, 1, n) \in Seq(S) /\ Len(SubSeq(s, 1, n)) = n
  BY <1>0
<1>2. \A i \in 1..n : SubSeq(s, 1, n)[i] = s[i]
  BY <1>0
<1>3. SubSeq(s, n + 1, Len(s)) \in Seq(S)
  BY <1>0
<1>4. Len(SubSeq(s, n + 1, Len(s))) = Len(s) - n
  BY <1>0
<1>5. ASSUME NEW i \in 1..(Len(s) - n)
      PROVE  SubSeq(s, n + 1, Len(s))[i] = s[n + i]
  BY <1>0, <1>4
<1>6. n = Len(s) => SubSeq(s, n + 1, Len(s)) = <<>>
  BY <1>0, <1>3, <1>4
<1> QED BY <1>1, <1>2, <1>3, <1>4, <1>5, <1>6

LEMMA Behind ==
  ASSUME NEW a \in Nat, NEW b \in Nat, a <= b
  PROVE  IsFiniteSet((a + 1)..b) /\ Cardinality((a + 1)..b) = b - a
<1> DEFINE c == a + 1
<1>1. c \in Int /\ b \in Int
  OBVIOUS
<1> HIDE DEF c
<1>2. IsFiniteSet(c..b) /\ Cardinality(c..b) = IF c > b THEN 0 ELSE b - c + 1
  BY <1>1, FS_Interval
<1>3. (IF c > b THEN 0 ELSE b - c + 1) = b - a
  BY DEF c
<1> QED BY <1>2, <1>3 DEF c

(***************************************************************************)
(* One sink                                                                *)
(***************************************************************************)

LEMMA Fields ==
  ASSUME NEW s \in SinkType
  PROVE  /\ s.kind \in SinkKind /\ s.files \in Seq(FileName)
         /\ s.starts \in Seq(Nat) /\ s.name_count \in Nat /\ s.cur_fsize \in Nat
         /\ s.unflushed \in Seq(Byte) /\ s.said \in Seq(MessageType)
         /\ Len(s.files) \in Nat /\ Len(s.starts) \in Nat
         /\ Len(s.unflushed) \in Nat /\ Len(s.said) \in Nat
         /\ s.dropped \in SUBSET Nat
  BY DEF SinkType

LEMMA FileNames ==
  ASSUME clock \in 1..Len(Times), NEW n \in Nat
  PROVE  [stamp |-> Stamp(Now), count |-> n] \in FileName
<1>1. Stamp(Now) \in {<<>>} \cup {Stamp(Times[i]) : i \in 1..Len(Times)}
  BY DEF Now
<1> QED BY <1>1 DEF FileName

LEMMA FixedNames == FixedName \in FileName
  BY DEF FixedName, FileName

(* The ways in which a sink is changed keep its type. *)
LEMMA SetFile ==
  ASSUME NEW s \in SinkType, NEW a \in Seq(FileName), NEW b \in Seq(Nat)
  PROVE  [s EXCEPT !.files = a, !.starts = b] \in SinkType
  BY DEF SinkType

LEMMA SetCount ==
  ASSUME NEW s \in SinkType, NEW n \in Nat
  PROVE  [s EXCEPT !.name_count = n] \in SinkType
  BY DEF SinkType

LEMMA SetSize ==
  ASSUME NEW s \in SinkType, NEW n \in Nat
  PROVE  [s EXCEPT !.cur_fsize = n] \in SinkType
  BY DEF SinkType

LEMMA SetUnflushed ==
  ASSUME NEW s \in SinkType, NEW u \in Seq(Byte)
  PROVE  [s EXCEPT !.unflushed = u] \in SinkType
  BY DEF SinkType

LEMMA SetPut ==
  ASSUME NEW s \in SinkType, NEW u \in Seq(Byte), NEW v \in Seq(MessageType),
         NEW n \in Nat
  PROVE  [s EXCEPT !.unflushed = u, !.said = v, !.cur_fsize = n] \in SinkType
  BY DEF SinkType

LEMMA WithFileFields ==
  ASSUME NEW s \in SinkType, NEW f \in FileName
  PROVE  LET t == WithFile(s, f)
         IN  /\ t \in SinkType /\ t.kind = s.kind /\ t.files = Append(s.files, f)
             /\ t.starts = Append(s.starts, Len(s.said))
             /\ t.name_count = s.name_count /\ t.cur_fsize = s.cur_fsize
             /\ t.unflushed = s.unflushed /\ t.said = s.said
             /\ t.dropped = s.dropped
<1> DEFINE a == Append(s.files, f)
           b == Append(s.starts, Len(s.said))
           t == WithFile(s, f)
<1>1. a \in Seq(FileName) /\ b \in Seq(Nat)
  BY Fields
<1>2. t = [s EXCEPT !.files = a, !.starts = b]
  BY DEF WithFile, SinkType
<1> HIDE DEF a, b, t
<1>3. t \in SinkType
  BY <1>1, <1>2, SetFile
<1>4. /\ t.kind = s.kind /\ t.files = a /\ t.starts = b /\ t.name_count = s.name_count
      /\ t.cur_fsize = s.cur_fsize /\ t.unflushed = s.unflushed /\ t.said = s.said
      /\ t.dropped = s.dropped
  BY <1>2 DEF SinkType
<1> QED BY <1>3, <1>4 DEF a, b, t

LEMMA CreatFields ==
  ASSUME NEW s \in SinkType, clock \in 1..Len(Times)
  PROVE  LET t == CreatNewFile(s, Now)
             f == [stamp |-> Stamp(Now), count |-> s.name_count]
         IN  /\ t \in SinkType /\ f \in FileName /\ t.kind = s.kind
             /\ t.files = Append(s.files, f)
             /\ t.starts = Append(s.starts, Len(s.said))
             /\ t.name_count = s.name_count + 1 /\ t.cur_fsize = s.cur_fsize
             /\ t.unflushed = s.unflushed /\ t.said = s.said
             /\ t.dropped = s.dropped
<1> DEFINE f == [stamp |-> Stamp(Now), count |-> s.name_count]
           w == WithFile(s, f)
           t == CreatNewFile(s, Now)
<1>1. f \in FileName /\ s.name_count \in Nat
  BY FileNames, Fields
<1>2. t = [w EXCEPT !.name_count = w.name_count + 1]
  BY DEF CreatNewFile
<1> HIDE DEF f
<1>3. /\ w \in SinkType /\ w.kind = s.kind /\ w.files = Append(s.files, f)
      /\ w.starts = Append(s.starts, Len(s.said))
      /\ w.name_count = s.name_count /\ w.cur_fsize = s.cur_fsize
      /\ w.unflushed = s.unflushed /\ w.said = s.said /\ w.dropped = s.dropped
  BY <1>1, WithFileFields
<1> HIDE DEF w, t
<1>6. w.name_count + 1 \in Nat
  BY <1>1, <1>3
<1>4. t \in SinkType
  BY <1>2, <1>3, <1>6, SetCount
<1>5. /\ t.kind = w.kind /\ t.files = w.files /\ t.starts = w.starts
      /\ t.name_count = w.name_count + 1 /\ t.cur_fsize = w.cur_fsize
      /\ t.unflushed = w.unflushed /\ t.said = w.said /\ t.dropped = w.dropped
  BY <1>2, <1>3 DEF SinkType
<1> QED BY <1>1, <1>3, <1>4, <1>5 DEF f, t

LEMMA OpenNextFields ==
  ASSUME NEW s \in SinkType, clock \in 1..Len(Times)
  PROVE  LET t == OpenNext(s, Now)
             f == [stamp |-> Stamp(Now), count |-> s.name_count]
         IN  /\ t \in SinkType /\ f \in FileName /\ t.kind = s.kind
             /\ t.files = Append(s.files, f)
             /\ t.starts = Append(s.starts, Len(s.said))
             /\ t.name_count = s.name_count + 1 /\ t.cur_fsize = 0
             /\ t.unflushed = s.unflushed /\ t.said = s.said
             /\ t.dropped = s.dropped
<1> DEFINE w == CreatNewFile(s, Now)
           t == OpenNext(s, Now)
<1>1. t = [w EXCEPT !.cur_fsize = 0]
  BY DEF OpenNext
<1>2. w \in SinkType
  BY CreatFields
<1> HIDE DEF w, t
<1>3. t \in SinkType
  BY <1>1, <1>2, SetSize
<1>4. /\ t.kind = w.kind /\ t.files = w.files /\ t.starts = w.starts
      /\ t.name_count = w.name_count /\ t.cur_fsize = 0
      /\ t.unflushed = w.unflushed /\ t.said = w.said /\ t.dropped = w.dropped
  BY <1>1, <1>2 DEF SinkType
<1> QED BY <1>3, <1>4, CreatFields DEF w, t

LEMMA ConstructFields ==
  ASSUME NEW kind \in SinkKind, clock \in 1..Len(Times)
  PROVE  LET t == Construct(kind, Now)
         IN  /\ t \in SinkType /\ t.kind = kind
             /\ Len(t.files) = 1 /\ t.starts = <<0>> /\ t.cur_fsize = 0
             /\ t.unflushed = <<>> /\ t.said = <<>> /\ t.dropped = {}
             /\ kind = "roll" => t.name_count = 1 /\ t.files[1].count = 0
<1> DEFINE z == NoSink(kind)
           t == Construct(kind, Now)
<1>1. /\ z \in SinkType /\ z.kind = kind /\ z.files = <<>> /\ z.starts = <<>>
      /\ z.name_count = 0 /\ z.cur_fsize = 0 /\ z.unflushed = <<>> /\ z.said = <<>>
      /\ z.dropped = {}
  BY DEF NoSink, SinkType
<1> HIDE DEF z
<1>2. CASE kind = "roll"
  <2> DEFINE f == [stamp |-> Stamp(Now), count |-> 0]
  <2>1. t = CreatNewFile(z, Now)
    BY <1>2 DEF Construct, z
  <2> HIDE DEF t
  <2>2. /\ t \in SinkType /\ t.kind = kind /\ t.files = Append(z.files, f)
        /\ t.starts = Append(z.starts, Len(z.said)) /\ t.name_count = 0 + 1
        /\ t.cur_fsize = 0 /\ t.unflushed = <<>> /\ t.said = <<>> /\ t.dropped = {}
    BY <1>1, <2>1, CreatFields
  <2>3. f.count = 0
    OBVIOUS
  <2> HIDE DEF f
  <2>4. t.files = <<f>> /\ t.starts = <<0>>
    BY <1>1, <2>2
  <2> QED BY <2>2, <2>3, <2>4 DEF t
<1>3. CASE kind # "roll"
  <2>1. t = WithFile(z, FixedName)
    BY <1>3 DEF Construct, z
  <2> HIDE DEF t
  <2>2. /\ t \in SinkType /\ t.kind = kind /\ t.files = Append(z.files, FixedName)
        /\ t.starts = Append(z.starts, Len(z.said))
        /\ t.cur_fsize = 0 /\ t.unflushed = <<>> /\ t.said = <<>> /\ t.dropped = {}
    BY <1>1, <2>1, WithFileFields, FixedNames
  <2>3. Len(t.files) = 1 /\ t.starts = <<0>>
    BY <1>1, <2>2
  <2> QED BY <1>3, <2>2, <2>3 DEF t
<1> QED BY <1>2, <1>3

LEMMA PutFields ==
  ASSUME NEW s \in SinkType, NEW k \in Nat, NEW m \in MessageType, NEW len \in Nat
  PROVE  LET t == Put(k, s, m, len)
         IN  /\ t \in SinkType /\ t.kind = s.kind /\ t.files = s.files
             /\ t.starts = s.starts /\ t.name_count = s.name_count
             /\ t.cur_fsize = s.cur_fsize + len
             /\ Len(t.unflushed) = Len(s.unflushed) + len
             /\ \A i \in 1..Len(s.unflushed) : t.unflushed[i] = s.unflushed[i]
             /\ \A i \in 1..len : t.unflushed[Len(s.unflushed) + i] = ByteOf(k, Len(s.said) + i)
             /\ Len(t.said) = Len(s.said) + len
             /\ \A i \in 1..Len(s.said) : t.said[i] = s.said[i]
             /\ \A i \in 1..len : t.said[Len(s.said) + i] = m
             /\ t.dropped = s.dropped
<1> DEFINE u == [i \in 1..len |-> ByteOf(k, Len(s.said) + i)]
           v == [i \in 1..len |-> m]
           a == s.unflushed \o u
           b == s.said \o v
           t == Put(k, s, m, len)
<1>0. s.unflushed \in Seq(Byte) /\ s.said \in Seq(MessageType)
      /\ s.cur_fsize + len \in Nat /\ Len(s.said) \in Nat
  BY Fields
<1>1. /\ u \in Seq(Byte) /\ Len(u) = len
      /\ \A i \in 1..len : u[i] = ByteOf(k, Len(s.said) + i)
  <2>1. \A i \in 1..len : ByteOf(k, Len(s.said) + i) \in Byte
    BY <1>0 DEF ByteOf, Byte
  <2> QED BY <2>1
<1>2. v \in Seq(MessageType) /\ Len(v) = len /\ \A i \in 1..len : v[i] = m
  OBVIOUS
<1>3. t = [s EXCEPT !.unflushed = a, !.said = b, !.cur_fsize = s.cur_fsize + len]
  BY DEF Put, SinkType
<1> HIDE DEF u, v
<1>4. /\ a \in Seq(Byte) /\ Len(a) = Len(s.unflushed) + len
      /\ \A i \in 1..Len(s.unflushed) : a[i] = s.unflushed[i]
      /\ \A i \in 1..len : a[Len(s.unflushed) + i] = u[i]
  <2> DEFINE x == s.unflushed
  <2>1. x \in Seq(Byte) /\ u \in Seq(Byte) /\ Len(u) = len
    BY <1>0, <1>1
  <2> HIDE DEF x
  <2>2. x \o u \in Seq(Byte) /\ Len(x \o u) = Len(x) + Len(u)
    BY <2>1
  <2>3. \A i \in 1..Len(x) : (x \o u)[i] = x[i]
    BY <2>1
  <2>4. \A i \in 1..Len(u) : (x \o u)[Len(x) + i] = u[i]
    BY <2>1
  <2> QED BY <2>1, <2>2, <2>3, <2>4 DEF x
<1>5. /\ b \in Seq(MessageType) /\ Len(b) = Len(s.said) + len
      /\ \A i \in 1..Len(s.said) : b[i] = s.said[i]
      /\ \A i \in 1..len : b[Len(s.said) + i] = v[i]
  <2> DEFINE x == s.said
  <2>1. x \in Seq(MessageType) /\ v \in Seq(MessageType) /\ Len(v) = len
    BY <1>0, <1>2
  <2> HIDE DEF x
  <2>2. x \o v \in Seq(MessageType) /\ Len(x \o v) = Len(x) + Len(v)
    BY <2>1
  <2>3. \A i \in 1..Len(x) : (x \o v)[i] = x[i]
    BY <2>1
  <2>4. \A i \in 1..Len(v) : (x \o v)[Len(x) + i] = v[i]
    BY <2>1
  <2> QED BY <2>1, <2>2, <2>3, <2>4 DEF x
<1> HIDE DEF a, b, t
<1>6. t \in SinkType
  BY <1>0, <1>3, <1>4, <1>5, SetPut
<1>7. /\ t.kind = s.kind /\ t.files = s.files /\ t.starts = s.starts
      /\ t.name_count = s.name_count /\ t.cur_fsize = s.cur_fsize + len
      /\ t.unflushed = a /\ t.said = b /\ t.dropped = s.dropped
  BY <1>3 DEF SinkType
<1> QED BY <1>1, <1>2, <1>4, <1>5, <1>6, <1>7 DEF t

(* What a sink has been told is what it had been, and the message. *)
LEMMA PutSaid ==
  ASSUME NEW s \in SinkType, NEW k \in Nat, NEW m \in MessageType, NEW len \in Nat,
         NEW p \in DOMAIN Put(k, s, m, len).said
  PROVE  \/ p \in DOMAIN s.said /\ Put(k, s, m, len).said[p] = s.said[p]
         \/ Put(k, s, m, len).said[p] = m
<1> DEFINE t == Put(k, s, m, len)
           e == Len(s.said)
<1> HIDE DEF t, e
<1>1. t \in SinkType /\ Len(t.said) = e + len
  BY PutFields DEF t, e
<1>2. \A i \in 1..e : t.said[i] = s.said[i]
  BY PutFields DEF t, e
<1>3. \A i \in 1..len : t.said[e + i] = m
  BY PutFields DEF t, e
<1>4. e \in Nat /\ DOMAIN s.said = 1..e /\ DOMAIN t.said = 1..(e + len)
  BY <1>1, Fields DEF e
<1>5. p \in 1..(e + len)
  BY <1>4 DEF t
<1>6. CASE p \in 1..e
  BY <1>2, <1>4, <1>6 DEF t
<1>7. CASE p \notin 1..e
  <2> DEFINE j == p - e
  <2>1. j \in 1..len /\ p = e + j
    BY <1>4, <1>5, <1>7
  <2> HIDE DEF j
  <2> QED BY <1>3, <2>1 DEF t
<1> QED BY <1>6, <1>7

LEMMA FlushedFields ==
  ASSUME NEW s \in SinkType, NEW n \in 0..Len(s.unflushed)
  PROVE  LET t == Flushed(s, n)
         IN  /\ t \in SinkType /\ t.kind = s.kind /\ t.files = s.files
             /\ t.starts = s.starts /\ t.name_count = s.name_count
             /\ t.cur_fsize = s.cur_fsize /\ t.said = s.said
             /\ Len(t.unflushed) = Len(s.unflushed) - n
             /\ \A i \in 1..(Len(s.unflushed) - n) : t.unflushed[i] = s.unflushed[n + i]
             /\ t.dropped = s.dropped
<1> DEFINE u == SubSeq(s.unflushed, n + 1, Len(s.unflushed))
           t == Flushed(s, n)
<1>0. s.unflushed \in Seq(Byte)
  BY Fields
<1>1. /\ u \in Seq(Byte) /\ Len(u) = Len(s.unflushed) - n
      /\ \A i \in 1..(Len(s.unflushed) - n) : u[i] = s.unflushed[n + i]
  BY <1>0, Split
<1>2. t = [s EXCEPT !.unflushed = u]
  BY DEF Flushed, SinkType
<1> HIDE DEF u, t
<1>4. t \in SinkType
  BY <1>1, <1>2, SetUnflushed
<1>5. /\ t.kind = s.kind /\ t.files = s.files /\ t.starts = s.starts
      /\ t.name_count = s.name_count /\ t.cur_fsize = s.cur_fsize /\ t.said = s.said
      /\ t.unflushed = u /\ t.dropped = s.dropped
  BY <1>2 DEF SinkType
<1> QED BY <1>1, <1>4, <1>5 DEF t

LEMMA SetDropped ==
  ASSUME NEW s \in SinkType, NEW u \in Seq(Byte), NEW d \in SUBSET Nat
  PROVE  [s EXCEPT !.unflushed = u, !.dropped = d] \in SinkType
  BY DEF SinkType

(* The stream is closed: nothing is left to write, and what was is gone.   *)
LEMMA ClosedFields ==
  ASSUME NEW s \in SinkType, PassedOn(s) \in Nat
  PROVE  LET t == Closed(s)
         IN  /\ t \in SinkType /\ t.kind = s.kind /\ t.files = s.files
             /\ t.starts = s.starts /\ t.name_count = s.name_count
             /\ t.cur_fsize = s.cur_fsize /\ t.said = s.said /\ t.unflushed = <<>>
             /\ t.dropped = s.dropped \cup ((PassedOn(s) + 1)..Len(s.said))
             /\ PassedOn(t) = Len(s.said)
<1> DEFINE d == s.dropped \cup ((PassedOn(s) + 1)..Len(s.said))
           t == Closed(s)
<1>1. /\ Len(s.said) \in Nat /\ Len(s.unflushed) \in Nat /\ s.dropped \in SUBSET Nat
      /\ <<>> \in Seq(Byte) /\ s.unflushed \in Seq(Byte)
  BY Fields
<1>2. d \in SUBSET Nat
  BY <1>1
<1>3. t = [s EXCEPT !.unflushed = <<>>, !.dropped = d]
  BY DEF Closed, SinkType
<1> HIDE DEF d, t
<1>4. t \in SinkType
  BY <1>1, <1>2, <1>3, SetDropped
<1>5. /\ t.kind = s.kind /\ t.files = s.files /\ t.starts = s.starts
      /\ t.name_count = s.name_count /\ t.cur_fsize = s.cur_fsize /\ t.said = s.said
      /\ t.unflushed = <<>> /\ t.dropped = d
  BY <1>3 DEF SinkType
<1>6. PassedOn(t) = Len(s.said)
  BY <1>1, <1>5 DEF PassedOn
<1> QED BY <1>4, <1>5, <1>6 DEF d, t

(* The books of a sink are right when it is made, and stay so whatever it  *)
(* does.                                                                   *)
LEMMA ConstructOk ==
  ASSUME NEW kind \in SinkKind, clock \in 1..Len(Times)
  PROVE  SinkOk(Construct(kind, Now))
<1> DEFINE t == Construct(kind, Now)
<1>1. /\ t \in SinkType /\ t.kind = kind
      /\ Len(t.files) = 1 /\ t.starts = <<0>> /\ t.cur_fsize = 0
      /\ t.unflushed = <<>> /\ t.said = <<>> /\ t.dropped = {}
      /\ kind = "roll" => t.name_count = 1 /\ t.files[1].count = 0
  BY ConstructFields
<1> HIDE DEF t
<1>2. t.files \in Seq(FileName)
  BY <1>1, Fields
<1>3. NamesOk(t)
  BY <1>1, <1>2 DEF NamesOk
<1>4. StartsOk(t)
  BY <1>1 DEF StartsOk, PassedOn
<1>5. WholeOk(t) /\ RollsOk(t)
  BY <1>1 DEF WholeOk, RollsOk
<1>6. DropsOk(t)
  BY <1>1 DEF DropsOk
<1> QED BY <1>3, <1>4, <1>5, <1>6 DEF SinkOk, t

LEMMA OpenOk ==
  ASSUME NEW s \in SinkType, clock \in 1..Len(Times), SinkOk(s), IsFull(s),
         s.unflushed = <<>>
  PROVE  SinkOk(OpenNext(s, Now))
<1> DEFINE f == [stamp |-> Stamp(Now), count |-> s.name_count]
           t == OpenNext(s, Now)
           n == Len(s.files)
           e == Len(s.said)
<1>1. /\ t \in SinkType /\ f \in FileName /\ t.kind = s.kind
      /\ t.files = Append(s.files, f) /\ t.starts = Append(s.starts, e)
      /\ t.name_count = s.name_count + 1 /\ t.cur_fsize = 0
      /\ t.unflushed = s.unflushed /\ t.said = s.said /\ t.dropped = s.dropped
  BY OpenNextFields
<1>2. f.count = s.name_count
  OBVIOUS
<1>3. /\ s.files \in Seq(FileName) /\ s.starts \in Seq(Nat) /\ s.said \in Seq(MessageType)
      /\ n \in Nat /\ e \in Nat /\ s.cur_fsize \in Nat
  BY Fields
<1> HIDE DEF f, t
<1>4. /\ s.kind = "roll" /\ s.cur_fsize >= MaxSize /\ MaxSize \in Nat \ {0}
      /\ n >= 1 /\ Len(s.starts) = n
      /\ s.cur_fsize = e - s.starts[n] /\ s.starts[n] <= e
  BY <1>3, SinkAssumption DEF IsFull, SinkOk, NamesOk, StartsOk, PassedOn
<1>5. /\ Len(t.files) = n + 1 /\ t.files[n + 1] = f
      /\ \A i \in 1..n : t.files[i] = s.files[i]
  BY <1>1, <1>3
<1>6. /\ Len(t.starts) = n + 1 /\ t.starts[n + 1] = e
      /\ \A i \in 1..n : t.starts[i] = s.starts[i] /\ s.starts[i] \in Nat
  <2> DEFINE a == s.starts
  <2>1. a \in Seq(Nat) /\ Len(a) = n /\ t.starts = Append(a, e)
    BY <1>1, <1>3, <1>4
  <2> HIDE DEF a, n, e
  <2>2. \A i \in 1..n : a[i] \in Nat
    BY <2>1
  <2>3. /\ Len(t.starts) = n + 1 /\ t.starts[n + 1] = e
        /\ \A i \in 1..n : t.starts[i] = a[i]
    BY <1>3, <2>1, Appended
  <2> QED BY <2>2, <2>3 DEF a
<1> HIDE DEF n, e
<1>7. NamesOk(t)
  <2>1. s.name_count = n /\ \A i \in 1..n : s.files[i].count = i - 1
    BY <1>3, <1>4 DEF SinkOk, NamesOk, n
  <2>2. ASSUME NEW i \in 1..(n + 1)
        PROVE  t.files[i].count = i - 1
    <3>1. CASE i = n + 1
      BY <1>2, <1>3, <1>5, <2>1, <3>1
    <3>2. CASE i # n + 1
      <4>1. i \in 1..n
        BY <1>3, <3>2
      <4> QED BY <1>5, <2>1, <4>1
    <3> QED BY <3>1, <3>2
  <2>3. DOMAIN t.files = 1..(n + 1)
    BY <1>1, <1>5, Fields
  <2>4. t.name_count = n + 1 /\ t.kind = "roll"
    BY <1>1, <1>4, <2>1
  <2>5. Len(t.files) >= 1 /\ Len(t.starts) = Len(t.files)
    BY <1>3, <1>5, <1>6
  <2> QED BY <1>5, <2>2, <2>3, <2>4, <2>5 DEF NamesOk
<1>8. /\ DOMAIN t.starts = 1..(n + 1) /\ DOMAIN s.starts = 1..n
      /\ DOMAIN s.said = 1..e
  BY <1>1, <1>3, <1>4, <1>6, Fields DEF e
<1>9. \A i, j \in 1..n : i <= j => s.starts[i] <= s.starts[j]
  BY <1>8 DEF SinkOk, StartsOk
<1>10. StartsOk(t)
  <2>1. ASSUME NEW i \in 1..n
        PROVE  s.starts[i] <= e
    <3>1. n \in 1..n /\ i <= n
      BY <1>3, <1>4
    <3>2. /\ s.starts[i] \in Nat /\ s.starts[n] \in Nat
          /\ s.starts[i] <= s.starts[n] /\ s.starts[n] <= e
      BY <1>4, <1>6, <1>9, <3>1
    <3> QED BY <1>3, <3>2
  <2>2. ASSUME NEW i \in 1..(n + 1), NEW j \in 1..(n + 1), i <= j
        PROVE  t.starts[i] <= t.starts[j]
    <3>1. CASE j = n + 1 /\ i = n + 1
      BY <1>3, <1>6, <3>1
    <3>2. CASE j = n + 1 /\ i # n + 1
      <4>1. i \in 1..n
        BY <1>3, <3>2
      <4> QED BY <1>6, <2>1, <3>2, <4>1
    <3>3. CASE j # n + 1
      <4>1. i \in 1..n /\ j \in 1..n
        BY <1>3, <2>2, <3>3
      <4> QED BY <1>6, <1>9, <2>2, <4>1
    <3> QED BY <3>1, <3>2, <3>3
  <2>3. PassedOn(t) = e
    BY <1>1, <1>3 DEF PassedOn, e
  <2>4. t.starts[Len(t.starts)] = e /\ e <= e /\ e - e = 0 /\ Len(t.said) = e
    BY <1>1, <1>3, <1>6 DEF e
  <2> QED BY <1>1, <1>8, <2>2, <2>3, <2>4 DEF StartsOk
<1>11. WholeOk(t)
  <2> SUFFICES ASSUME NEW i \in 1..(n + 1), NEW p \in 1..e, NEW q \in 1..e,
                      p <= t.starts[i], t.starts[i] < q
               PROVE  s.said[p] # s.said[q]
    BY <1>1, <1>8 DEF WholeOk
  <2>1. i \in 1..n
    BY <1>3, <1>6
  <2> QED BY <1>6, <1>8, <2>1 DEF SinkOk, WholeOk
<1>12. ASSUME NEW i \in 1..n
       PROVE  EndOf(t, i) = EndOf(s, i)
  <2>1. CASE i = n
    BY <1>3, <1>5, <1>6, <2>1 DEF EndOf, n, e
  <2>2. CASE i # n
    <3>1. i + 1 \in 1..n
      BY <1>3, <2>2
    <3> QED BY <1>3, <1>5, <1>6, <2>2, <3>1 DEF EndOf, n
  <2> QED BY <2>1, <2>2
<1>13. RollsOk(t)
  <2>1. ASSUME NEW i \in 1..(n + 1), i < n + 1
        PROVE  t.starts[i + 1] - t.starts[i] >= MaxSize
    <3>1. CASE i = n
      <4>1. t.starts[i + 1] = e /\ t.starts[i] = s.starts[n] /\ s.starts[n] \in Nat
        BY <1>3, <1>4, <1>6, <3>1
      <4> QED BY <1>3, <1>4, <4>1
    <3>2. CASE i < n
      <4>1. i \in 1..n /\ i + 1 \in 1..n
        BY <1>3, <3>2
      <4>2. s.starts[i + 1] - s.starts[i] >= MaxSize
        BY <1>4, <1>8, <3>2, <4>1 DEF SinkOk, RollsOk
      <4> QED BY <1>6, <4>1, <4>2
    <3> QED BY <1>3, <2>1, <3>1, <3>2
  <2>2. ASSUME NEW i \in 1..(n + 1), NEW p \in 1..e, NEW q \in 1..e,
               t.starts[i] < p, p < q, q <= EndOf(t, i), s.said[p] # s.said[q]
        PROVE  p - t.starts[i] < MaxSize
    <3>1. i \in 1..n
      BY <1>3, <1>6, <2>2
    <3>2. EndOf(t, i) = EndOf(s, i)
      BY <1>12, <3>1
    <3>3. t.starts[i] = s.starts[i]
      BY <1>6, <3>1
    <3> QED BY <1>4, <1>8, <2>2, <3>1, <3>2, <3>3 DEF SinkOk, RollsOk
  <2> QED BY <1>1, <1>6, <1>8, <2>1, <2>2 DEF RollsOk
<1>14. DropsOk(t)
  <2>1. PassedOn(t) = e /\ PassedOn(s) = e
    BY <1>1, <1>3 DEF PassedOn, e
  <2>2. s.dropped \subseteq 1..e
    BY <2>1 DEF SinkOk, DropsOk
  <2>3. ASSUME NEW p \in s.dropped, NEW i \in 1..(n + 1), NEW q \in 1..e,
               t.starts[i] < p, p < q, q <= EndOf(t, i)
        PROVE  q \in s.dropped
    <3>1. i \in 1..n
      BY <1>3, <1>6, <2>2, <2>3
    <3>2. t.starts[i] = s.starts[i] /\ EndOf(t, i) = EndOf(s, i)
      BY <1>6, <1>12, <3>1
    <3> QED BY <1>8, <2>1, <2>3, <3>1, <3>2 DEF SinkOk, DropsOk
  <2> QED BY <1>1, <1>8, <2>1, <2>2, <2>3 DEF DropsOk
<1> QED BY <1>7, <1>10, <1>11, <1>13, <1>14 DEF SinkOk, t

LEMMA PutOk ==
  ASSUME NEW s \in SinkType, NEW k \in Nat, NEW m \in MessageType, NEW len \in Nat,
         SinkOk(s), ~IsFull(s), Intact(s), \A p \in DOMAIN s.said : s.said[p] # m
  PROVE  SinkOk(Put(k, s, m, len))
<1> DEFINE t == Put(k, s, m, len)
           n == Len(s.files)
           e == Len(s.said)
<1> HIDE DEF n, e, t
<1>1. /\ t \in SinkType /\ t.kind = s.kind /\ t.files = s.files
      /\ t.starts = s.starts /\ t.name_count = s.name_count
      /\ t.cur_fsize = s.cur_fsize + len
      /\ Len(t.unflushed) = Len(s.unflushed) + len
      /\ Len(t.said) = e + len
      /\ \A i \in 1..e : t.said[i] = s.said[i]
      /\ \A i \in 1..len : t.said[e + i] = m
      /\ t.dropped = s.dropped
  <2>1. /\ t \in SinkType /\ t.kind = s.kind /\ t.files = s.files
        /\ t.starts = s.starts /\ t.name_count = s.name_count
        /\ t.cur_fsize = s.cur_fsize + len
        /\ Len(t.unflushed) = Len(s.unflushed) + len /\ t.dropped = s.dropped
    BY PutFields DEF t
  <2>2. Len(t.said) = e + len
    BY PutFields DEF t, e
  <2>3. \A i \in 1..e : t.said[i] = s.said[i]
    BY PutFields DEF t, e
  <2>4. \A i \in 1..len : t.said[e + i] = m
    BY PutFields DEF t, e
  <2> QED BY <2>1, <2>2, <2>3, <2>4
<1> USE DEF n, e
<1>2. /\ s.starts \in Seq(Nat) /\ s.said \in Seq(MessageType) /\ s.files \in Seq(FileName)
      /\ n \in Nat /\ e \in Nat /\ s.cur_fsize \in Nat /\ Len(s.unflushed) \in Nat
      /\ MaxSize \in Nat \ {0}
  BY Fields, SinkAssumption
<1> HIDE DEF t
<1>3. Len(s.starts) = n /\ n >= 1 /\ DOMAIN s.starts = 1..n
  BY <1>2 DEF SinkOk, NamesOk
<1>4. PassedOn(t) = PassedOn(s) /\ PassedOn(s) \in Int /\ PassedOn(s) <= e
  <2> DEFINE u == Len(s.unflushed)
  <2>1. PassedOn(s) = e - u /\ PassedOn(t) = (e + len) - (u + len)
    BY <1>1 DEF PassedOn
  <2> HIDE DEF u
  <2>2. u \in Nat
    BY <1>2 DEF u
  <2> QED BY <1>2, <2>1, <2>2
<1>5. DOMAIN s.said = 1..e /\ DOMAIN t.said = 1..(e + len)
  BY <1>1, <1>2, Fields
<1>6. /\ \A i \in 1..n : s.starts[i] \in Nat
      /\ \A i, j \in 1..n : i <= j => s.starts[i] <= s.starts[j]
      /\ s.starts[n] <= PassedOn(s) /\ s.cur_fsize = e - s.starts[n]
  <2>1. \A i \in 1..n : s.starts[i] \in Nat
    BY <1>2, <1>3
  <2> QED BY <1>3, <2>1 DEF SinkOk, StartsOk
<1>7. \A q \in 1..(e + len) : q > e => t.said[q] = m
  <2> SUFFICES ASSUME NEW q \in 1..(e + len), q > e
               PROVE  t.said[q] = m
    OBVIOUS
  <2>1. q - e \in 1..len /\ q = e + (q - e)
    BY <1>2
  <2> QED BY <1>1, <2>1
<1>8. \A p \in 1..e : s.said[p] # m
  BY <1>5
<1> HIDE DEF n, e
<1>9. NamesOk(t)
  BY <1>1 DEF SinkOk, NamesOk
<1>10. StartsOk(t)
  <2>1. t.cur_fsize = Len(t.said) - t.starts[n]
    BY <1>1, <1>2, <1>3, <1>6
  <2> QED BY <1>1, <1>3, <1>4, <1>6, <2>1 DEF StartsOk
<1>11. \A i \in 1..n : s.starts[i] <= e
  <2> SUFFICES ASSUME NEW i \in 1..n
               PROVE  s.starts[i] <= e
    OBVIOUS
  <2>1. n \in 1..n /\ i <= n
    BY <1>2, <1>3
  <2>2. /\ s.starts[i] \in Nat /\ s.starts[n] \in Nat
        /\ s.starts[i] <= s.starts[n] /\ s.starts[n] <= PassedOn(s)
    BY <1>6, <2>1
  <2>3. e \in Nat /\ PassedOn(s) \in Int /\ PassedOn(s) <= e
    BY <1>2, <1>4
  <2> QED BY <2>2, <2>3
<1>12. WholeOk(t)
  <2> SUFFICES ASSUME NEW i \in 1..n, NEW p \in 1..(e + len), NEW q \in 1..(e + len),
                      p <= s.starts[i], s.starts[i] < q
               PROVE  t.said[p] # t.said[q]
    BY <1>1, <1>3, <1>5 DEF WholeOk
  <2>0. s.starts[i] \in Nat /\ s.starts[i] <= e /\ e \in Nat
    BY <1>2, <1>6, <1>11
  <2>1. p \in 1..e
    BY <2>0
  <2>2. CASE q > e
    BY <1>1, <1>7, <1>8, <2>1, <2>2
  <2>3. CASE ~(q > e)
    <3>1. q \in 1..e
      BY <1>2, <2>3
    <3>2. s.said[p] # s.said[q]
      BY <1>3, <1>5, <2>1, <3>1 DEF SinkOk, WholeOk
    <3> QED BY <1>1, <2>1, <3>1, <3>2
  <2> QED BY <2>2, <2>3
<1>13. RollsOk(t)
  <2> SUFFICES ASSUME s.kind = "roll"
               PROVE  RollsOk(t)
    BY <1>1 DEF RollsOk
  <2>1. \A i \in 1..n : i < n => s.starts[i + 1] - s.starts[i] >= MaxSize
    BY <1>3 DEF SinkOk, RollsOk
  <2>2. ASSUME NEW i \in 1..n, NEW p \in 1..(e + len), NEW q \in 1..(e + len),
               s.starts[i] < p, p < q, q <= EndOf(t, i), t.said[p] # t.said[q]
        PROVE  p - s.starts[i] < MaxSize
    <3>1. CASE q > e
      <4>1. i = n
        <5> SUFFICES ASSUME i # n PROVE FALSE
          OBVIOUS
        <5>1. i + 1 \in 1..n
          BY <1>2
        <5>2. q <= s.starts[i + 1]
          BY <1>1, <2>2 DEF EndOf, n
        <5> QED BY <1>2, <1>6, <1>11, <3>1, <5>1, <5>2
      <4>2. ~(p > e)
        BY <1>7, <2>2, <3>1
      <4>3. s.cur_fsize < MaxSize
        BY <1>2 DEF IsFull
      <4> QED BY <1>2, <1>3, <1>6, <4>1, <4>2, <4>3
    <3>2. CASE ~(q > e)
      <4>1. p \in 1..e /\ q \in 1..e
        BY <1>2, <2>2, <3>2
      <4>2. s.said[p] # s.said[q]
        BY <1>1, <2>2, <4>1
      <4>3. q <= EndOf(s, i)
        <5>1. CASE i = n
          BY <1>2, <4>1, <5>1 DEF EndOf, n, e
        <5>2. CASE i # n
          BY <1>1, <2>2, <5>2 DEF EndOf, n
        <5> QED BY <5>1, <5>2
      <4> QED BY <1>3, <1>5, <2>2, <4>1, <4>2, <4>3 DEF SinkOk, RollsOk
    <3> QED BY <3>1, <3>2
  <2> QED BY <1>1, <1>3, <1>5, <2>1, <2>2 DEF RollsOk
<1>14. DropsOk(t)
  <2>1. /\ s.dropped \subseteq 1..PassedOn(s)
        /\ \A p \in s.dropped : p \in Nat /\ p <= s.starts[n]
    <3>1. s.dropped \subseteq 1..PassedOn(s)
      BY DEF SinkOk, DropsOk
    <3>2. \A p \in s.dropped : p <= s.starts[n]
      BY <1>3 DEF Intact
    <3> QED BY <1>4, <3>1, <3>2
  <2>2. ASSUME NEW p \in s.dropped, NEW i \in 1..n, NEW q \in 1..PassedOn(s),
               s.starts[i] < p, p < q, q <= EndOf(t, i)
        PROVE  q \in s.dropped
    <3>1. i # n
      BY <1>3, <1>6, <2>1, <2>2
    <3>2. EndOf(t, i) = EndOf(s, i)
      BY <1>1, <3>1 DEF EndOf, n
    <3> QED BY <1>3, <2>2, <3>2 DEF SinkOk, DropsOk
  <2>3. Intact(t)
    BY <1>1, <1>3, <2>1 DEF Intact
  <2> QED BY <1>1, <1>3, <1>4, <2>1, <2>2, <2>3 DEF DropsOk
<1> QED BY <1>9, <1>10, <1>12, <1>13, <1>14 DEF SinkOk, t

LEMMA FlushOk ==
  ASSUME NEW s \in SinkType, NEW n \in 0..Len(s.unflushed), SinkOk(s)
  PROVE  SinkOk(Flushed(s, n))
<1> DEFINE t == Flushed(s, n)
<1>1. /\ t \in SinkType /\ t.kind = s.kind /\ t.files = s.files
      /\ t.starts = s.starts /\ t.name_count = s.name_count
      /\ t.cur_fsize = s.cur_fsize /\ t.said = s.said
      /\ Len(t.unflushed) = Len(s.unflushed) - n /\ t.dropped = s.dropped
  BY FlushedFields
<1>2. /\ s.starts \in Seq(Nat) /\ Len(s.said) \in Nat /\ Len(s.unflushed) \in Nat
      /\ Len(s.starts) >= 1
  BY Fields DEF SinkOk, NamesOk
<1> HIDE DEF t
<1>3. NamesOk(t) /\ WholeOk(t) /\ RollsOk(t)
  BY <1>1 DEF SinkOk, NamesOk, WholeOk, RollsOk, EndOf
<1>4. StartsOk(t)
  <2>1. s.starts[Len(s.starts)] \in Nat
    BY <1>2
  <2>2. s.starts[Len(s.starts)] <= PassedOn(s)
    BY DEF SinkOk, StartsOk
  <2>3. PassedOn(t) = PassedOn(s) + n /\ PassedOn(s) \in Int
    BY <1>1, <1>2 DEF PassedOn
  <2>4. s.starts[Len(s.starts)] <= PassedOn(t)
    BY <2>1, <2>2, <2>3
  <2> QED BY <1>1, <2>4 DEF SinkOk, StartsOk
<1>5. DropsOk(t)
  <2> DEFINE l == Len(s.starts)
  <2>1. /\ s.dropped \subseteq 1..PassedOn(s) /\ DOMAIN s.starts = 1..l
        /\ \A i \in 1..l : s.starts[i] \in Nat
        /\ PassedOn(s) \in Int /\ PassedOn(t) = PassedOn(s) + n
    <3>1. s.dropped \subseteq 1..PassedOn(s)
      BY DEF SinkOk, DropsOk
    <3>2. DOMAIN s.starts = 1..l /\ \A i \in 1..l : s.starts[i] \in Nat
      BY <1>2
    <3>3. PassedOn(s) \in Int /\ PassedOn(t) = PassedOn(s) + n
      BY <1>1, <1>2 DEF PassedOn
    <3> QED BY <3>1, <3>2, <3>3
  <2>2. CASE s.unflushed = <<>>
    <3>1. n = 0 /\ PassedOn(t) = PassedOn(s) /\ t.unflushed = <<>>
      BY <1>1, <2>1, <2>2, Fields
    <3>2. \A i \in DOMAIN s.starts : EndOf(t, i) = EndOf(s, i)
      BY <1>1 DEF EndOf
    <3> QED BY <1>1, <3>1, <3>2 DEF SinkOk, DropsOk
  <2>3. CASE Intact(s)
    <3>1. ASSUME NEW p \in s.dropped, NEW i \in 1..l, NEW q \in 1..PassedOn(t),
                 s.starts[i] < p, p < q, q <= EndOf(t, i)
          PROVE  q \in s.dropped
      <4>1. p \in Nat /\ p <= s.starts[l] /\ l \in 1..l
        BY <1>2, <2>1, <2>3 DEF Intact
      <4>2. i # l
        BY <2>1, <3>1, <4>1
      <4>3. i + 1 \in 1..l /\ i + 1 <= l /\ l = Len(s.files)
        BY <1>2, <4>2 DEF SinkOk, NamesOk
      <4>4. EndOf(t, i) = s.starts[i + 1] /\ EndOf(s, i) = s.starts[i + 1]
        BY <1>1, <4>2, <4>3 DEF EndOf
      <4>5. s.starts[i + 1] <= s.starts[l] /\ s.starts[l] <= PassedOn(s)
        BY <2>1, <4>1, <4>3 DEF SinkOk, StartsOk
      <4>6. q \in 1..PassedOn(s)
        <5>1. s.starts[i + 1] \in Nat /\ s.starts[l] \in Nat
          BY <2>1, <4>1, <4>3
        <5> QED BY <2>1, <3>1, <4>4, <4>5, <5>1
      <4> QED BY <2>1, <3>1, <4>4, <4>6 DEF SinkOk, DropsOk
    <3>2. Intact(t)
      BY <1>1, <2>3 DEF Intact
    <3>3. t.dropped \subseteq 1..PassedOn(t)
      BY <1>1, <2>1
    <3> QED BY <1>1, <2>1, <3>1, <3>2, <3>3 DEF DropsOk
  <2> QED BY <2>2, <2>3 DEF SinkOk, DropsOk
<1> QED BY <1>3, <1>4, <1>5 DEF SinkOk, t

LEMMA CloseOk ==
  ASSUME NEW s \in SinkType, SinkOk(s), PassedOn(s) \in Nat,
         PassedOn(s) + Len(s.unflushed) = Len(s.said)
  PROVE  SinkOk(Closed(s))
<1> DEFINE t == Closed(s)
           e == PassedOn(s)
           l == Len(s.said)
<1>1. /\ t \in SinkType /\ t.kind = s.kind /\ t.files = s.files
      /\ t.starts = s.starts /\ t.name_count = s.name_count
      /\ t.cur_fsize = s.cur_fsize /\ t.said = s.said /\ t.unflushed = <<>>
      /\ t.dropped = s.dropped \cup ((e + 1)..l) /\ PassedOn(t) = l
  BY ClosedFields
<1>2. /\ l \in Nat /\ Len(s.unflushed) \in Nat /\ e \in Nat /\ e <= l
      /\ s.starts \in Seq(Nat) /\ Len(s.starts) >= 1
  BY Fields DEF SinkOk, NamesOk
<1> HIDE DEF t, e
<1>3. NamesOk(t) /\ WholeOk(t) /\ RollsOk(t)
  BY <1>1 DEF SinkOk, NamesOk, WholeOk, RollsOk, EndOf
<1>4. StartsOk(t)
  <2>1. s.starts[Len(s.starts)] \in Nat
    BY <1>2
  <2>2. s.starts[Len(s.starts)] <= e
    BY DEF SinkOk, StartsOk, e
  <2>3. s.starts[Len(s.starts)] <= PassedOn(t)
    BY <1>1, <1>2, <2>1, <2>2
  <2> QED BY <1>1, <2>3 DEF SinkOk, StartsOk
<1> HIDE DEF l
<1>5. DropsOk(t)
  <2>1. s.dropped \subseteq 1..e
    BY DEF SinkOk, DropsOk, e
  <2>2. t.dropped \subseteq 1..l
    BY <1>1, <1>2, <2>1
  <2>3. ASSUME NEW p \in t.dropped, NEW i \in DOMAIN s.starts, NEW q \in 1..l,
               s.starts[i] < p, p < q, q <= EndOf(t, i)
        PROVE  q \in t.dropped
    <3>1. CASE q > e
      BY <1>1, <1>2, <3>1
    <3>2. CASE ~(q > e)
      <4>1. q \in 1..e /\ p \in s.dropped
        BY <1>1, <1>2, <2>2, <2>3, <3>2
      <4>2. EndOf(t, i) = EndOf(s, i)
        BY <1>1 DEF EndOf
      <4> QED BY <1>1, <2>3, <4>1, <4>2 DEF SinkOk, DropsOk, e
    <3> QED BY <3>1, <3>2
  <2> QED BY <1>1, <2>2, <2>3 DEF DropsOk
<1> QED BY <1>3, <1>4, <1>5 DEF SinkOk, t


(***************************************************************************)
(* The disk                                                                *)
(***************************************************************************)

(* What DiskOk is about: bytes in files, and sinks whose books are right.  *)
Books(ss) == ss \in Seq(SinkType) /\ \A k \in DOMAIN ss : SinkOk(ss[k])
Kept(d, ss) == d \in [DOMAIN d -> Seq(Byte)] /\ Books(ss)

(* Whatever a sink does, its files keep their places in its books, and     *)
(* what they hold.                                                         *)
Grows(s, t) ==
  /\ Len(s.files) <= Len(t.files) /\ OnDisk(s) \subseteq OnDisk(t)
  /\ \A i \in 1..Len(s.files) : /\ t.files[i] = s.files[i]
                                /\ t.starts[i] = s.starts[i]
                                /\ EndOf(s, i) <= EndOf(t, i)

LEMMA Numbers ==
  ASSUME NEW s \in SinkType, SinkOk(s)
  PROVE  /\ PassedOn(s) \in Nat /\ PassedOn(s) + Len(s.unflushed) = Len(s.said)
         /\ Len(s.files) \in Nat \ {0} /\ DOMAIN s.files = 1..Len(s.files)
         /\ DOMAIN s.starts = 1..Len(s.files)
         /\ \A i \in 1..Len(s.files) : s.starts[i] \in Nat /\ EndOf(s, i) \in Nat
         /\ s.starts[Len(s.files)] <= PassedOn(s)
<1>1. /\ s.files \in Seq(FileName) /\ s.starts \in Seq(Nat)
      /\ Len(s.unflushed) \in Nat /\ Len(s.said) \in Nat /\ Len(s.files) \in Nat
  BY Fields
<1>2. Len(s.starts) = Len(s.files) /\ Len(s.files) >= 1
  BY DEF SinkOk, NamesOk
<1>3. DOMAIN s.files = 1..Len(s.files) /\ DOMAIN s.starts = 1..Len(s.files)
  BY <1>1, <1>2
<1>4. \A i \in 1..Len(s.files) : s.starts[i] \in Nat
  BY <1>1, <1>3
<1>5. ASSUME NEW i \in 1..Len(s.files)
      PROVE  EndOf(s, i) \in Nat
  <2>1. CASE i = Len(s.files)
    BY <1>1, <2>1 DEF EndOf
  <2>2. CASE i # Len(s.files)
    <3>1. i + 1 \in 1..Len(s.files)
      BY <1>1, <2>2
    <3> QED BY <1>4, <2>2, <3>1 DEF EndOf
  <2> QED BY <2>1, <2>2
<1>6. s.starts[Len(s.files)] <= PassedOn(s)
  BY <1>2 DEF SinkOk, StartsOk
<1>7. PassedOn(s) \in Int /\ PassedOn(s) + Len(s.unflushed) = Len(s.said)
  BY <1>1 DEF PassedOn
<1>8. PassedOn(s) \in Nat
  <2>1. Len(s.files) \in 1..Len(s.files)
    BY <1>1, <1>2
  <2> QED BY <1>4, <1>6, <1>7, <2>1
<1> QED BY <1>1, <1>2, <1>3, <1>4, <1>5, <1>6, <1>7, <1>8

LEMMA GrowsSame ==
  ASSUME NEW s \in SinkType, SinkOk(s)
  PROVE  Grows(s, s)
  BY Numbers DEF Grows

LEMMA PlaceKept ==
  ASSUME NEW ss, NEW tt, Books(ss), Books(tt), NEW b \in Byte, NEW f,
         DOMAIN ss \subseteq DOMAIN tt, \A k \in DOMAIN ss : Grows(ss[k], tt[k]),
         InPlace(b, f, ss)
  PROVE  InPlace(b, f, tt)
<1> DEFINE s == ss[b.sink]
           t == tt[b.sink]
<1>1. b.sink \in DOMAIN ss /\ b.sink \in DOMAIN tt /\ b.pos \in OnDisk(s) /\ Grows(s, t)
  BY DEF InPlace
<1>2. s \in SinkType /\ t \in SinkType /\ SinkOk(s) /\ SinkOk(t)
  BY <1>1 DEF Books
<1>3. PICK i \in DOMAIN s.files : /\ s.files[i] = f
                                  /\ s.starts[i] < b.pos /\ b.pos <= EndOf(s, i)
  BY DEF InPlace
<1>4. b.pos \in Nat
  BY DEF Byte
<1> HIDE DEF s, t
<1>5. /\ Len(s.files) \in Nat /\ Len(t.files) \in Nat
      /\ DOMAIN s.files = 1..Len(s.files) /\ DOMAIN t.files = 1..Len(t.files)
      /\ \A j \in 1..Len(s.files) : EndOf(s, j) \in Nat
      /\ \A j \in 1..Len(t.files) : EndOf(t, j) \in Nat
  BY <1>2, Numbers
<1>6. i \in 1..Len(s.files) /\ i \in 1..Len(t.files)
  BY <1>1, <1>3, <1>5 DEF Grows
<1>7. b.pos \in OnDisk(t)
  BY <1>1 DEF Grows
<1>8. t.files[i] = f /\ t.starts[i] < b.pos
  BY <1>1, <1>3, <1>6 DEF Grows
<1>9. b.pos <= EndOf(t, i)
  <2>1. EndOf(s, i) <= EndOf(t, i)
    BY <1>1, <1>6 DEF Grows
  <2> QED BY <1>3, <1>4, <1>5, <1>6, <2>1
<1> QED BY <1>1, <1>5, <1>6, <1>7, <1>8, <1>9 DEF InPlace, t

(* No byte gets to the disk.                                               *)
LEMMA DiskSame ==
  ASSUME NEW d, NEW D, NEW ss, NEW tt, Kept(d, ss), Kept(D, tt), DiskOk(d, ss),
         DOMAIN d \subseteq DOMAIN D,
         \A f \in DOMAIN d : D[f] = d[f],
         \A f \in DOMAIN D : f \notin DOMAIN d => D[f] = <<>>,
         DOMAIN ss \subseteq DOMAIN tt,
         \A k \in DOMAIN ss : Grows(ss[k], tt[k]) /\ OnDisk(tt[k]) = OnDisk(ss[k]),
         \A k \in DOMAIN tt : k \notin DOMAIN ss => OnDisk(tt[k]) = {},
         \A k \in DOMAIN tt : \A i \in DOMAIN tt[k].unflushed :
           tt[k].unflushed[i] = ByteOf(k, PassedOn(tt[k]) + i)
  PROVE  DiskOk(D, tt)
<1>1. ASSUME NEW f \in DOMAIN D, NEW n \in DOMAIN D[f]
      PROVE  /\ InPlace(D[f][n], f, tt)
             /\ \A m \in 1..(n - 1) : D[f][m].sink = D[f][n].sink => D[f][m].pos < D[f][n].pos
  <2>1. f \in DOMAIN d /\ D[f] = d[f]
    OBVIOUS
  <2>2. d[f][n] \in Byte
    <3>1. d[f] \in Seq(Byte)
      BY <2>1 DEF Kept
    <3> QED BY <2>1, <3>1
  <2>3. InPlace(d[f][n], f, ss)
    BY <2>1 DEF DiskOk
  <2>4. Books(ss) /\ Books(tt)
    BY DEF Kept
  <2>5. InPlace(d[f][n], f, tt)
    BY <2>2, <2>3, <2>4, PlaceKept
  <2> QED BY <2>1, <2>5 DEF DiskOk
<1>2. ASSUME NEW k \in DOMAIN tt, NEW p \in OnDisk(tt[k])
      PROVE  \E f \in DOMAIN D : \E n \in DOMAIN D[f] : D[f][n] = ByteOf(k, p)
  <2>1. k \in DOMAIN ss
    OBVIOUS
  <2>2. \E f \in DOMAIN d : \E n \in DOMAIN d[f] : d[f][n] = ByteOf(k, p)
    BY <2>1 DEF DiskOk
  <2> QED BY <2>2
<1> QED BY <1>1, <1>2 DEF DiskOk

LEMMA OpenAppendIs ==
  ASSUME NEW d, d \in [DOMAIN d -> Seq(Byte)], NEW f
  PROVE  LET D == OpenAppend(d, f)
         IN  /\ D \in [DOMAIN D -> Seq(Byte)] /\ DOMAIN D = DOMAIN d \cup {f}
             /\ \A g \in DOMAIN d : D[g] = d[g]
             /\ \A g \in DOMAIN D : g \notin DOMAIN d => D[g] = <<>>
  BY DEF OpenAppend

LEMMA FlushIs ==
  ASSUME NEW d, d \in [DOMAIN d -> Seq(Byte)], NEW s \in SinkType,
         NEW n \in 0..Len(s.unflushed), NEW f \in DOMAIN d, f = CurrentFile(s)
  PROVE  LET D == Flush(d, s, n)
         IN  /\ D \in [DOMAIN D -> Seq(Byte)] /\ DOMAIN D = DOMAIN d
             /\ \A g \in DOMAIN d : g # f => D[g] = d[g]
             /\ Len(D[f]) = Len(d[f]) + n
             /\ \A i \in 1..Len(d[f]) : D[f][i] = d[f][i]
             /\ \A i \in 1..n : D[f][Len(d[f]) + i] = s.unflushed[i]
<1> DEFINE D == Flush(d, s, n)
           a == d[f]
           u == SubSeq(s.unflushed, 1, n)
<1>1. /\ u \in Seq(Byte) /\ Len(u) = n
      /\ \A i \in 1..n : u[i] = s.unflushed[i]
  BY Fields, Split
<1>2. a \in Seq(Byte)
  OBVIOUS
<1>3. D = [d EXCEPT ![f] = a \o u]
  BY DEF Flush
<1> HIDE DEF D, u
<1>4. D[f] = a \o u /\ DOMAIN D = DOMAIN d /\ \A g \in DOMAIN d : g # f => D[g] = d[g]
  BY <1>3
<1> HIDE DEF a
<1>5. a \o u \in Seq(Byte) /\ Len(a \o u) = Len(a) + n
  <2>1. a \in Seq(Byte) /\ u \in Seq(Byte)
    BY <1>1, <1>2
  <2>2. a \o u \in Seq(Byte) /\ Len(a \o u) = Len(a) + Len(u)
    BY <2>1
  <2> QED BY <1>1, <2>2
<1>6. \A i \in 1..Len(a) : (a \o u)[i] = a[i]
  BY <1>1, <1>2
<1>7. \A i \in 1..n : (a \o u)[Len(a) + i] = u[i]
  BY <1>1, <1>2
<1>8. D \in [DOMAIN D -> Seq(Byte)]
  BY <1>3, <1>4, <1>5
<1>9. /\ Len(D[f]) = Len(a) + n
      /\ \A i \in 1..Len(a) : D[f][i] = a[i]
      /\ \A i \in 1..n : D[f][Len(a) + i] = s.unflushed[i]
  BY <1>1, <1>4, <1>5, <1>6, <1>7
<1> QED BY <1>4, <1>8, <1>9 DEF D, a

(* Some bytes of one sink get to its file.                                 *)
LEMMA DiskFlush ==
  ASSUME NEW d, NEW ss, Kept(d, ss), DiskOk(d, ss), NEW k \in DOMAIN ss,
         NEW n \in 0..Len(ss[k].unflushed), CurrentFile(ss[k]) \in DOMAIN d
  PROVE  DiskOk(Flush(d, ss[k], n), [ss EXCEPT ![k] = Flushed(ss[k], n)])
<1> DEFINE s == ss[k]
           t == Flushed(s, n)
           tt == [ss EXCEPT ![k] = t]
           D == Flush(d, s, n)
           f == CurrentFile(s)
           a == d[f]
           l == Len(s.files)
           e == PassedOn(s)
<1>1. /\ s \in SinkType /\ SinkOk(s) /\ n \in 0..Len(s.unflushed) /\ f \in DOMAIN d
      /\ d \in [DOMAIN d -> Seq(Byte)] /\ ss \in Seq(SinkType)
  BY DEF Kept, Books
<1>2. \A i \in DOMAIN s.unflushed : s.unflushed[i] = ByteOf(k, e + i)
  BY DEF DiskOk
<1>3. DOMAIN tt = DOMAIN ss /\ tt[k] = t /\ \A j \in DOMAIN ss : j # k => tt[j] = ss[j]
  OBVIOUS
<1>4. k \in Nat
  BY <1>1
<1> HIDE DEF tt, s, D, f, a
<1>5. /\ D \in [DOMAIN D -> Seq(Byte)] /\ DOMAIN D = DOMAIN d
      /\ \A g \in DOMAIN d : g # f => D[g] = d[g]
      /\ Len(D[f]) = Len(a) + n
      /\ \A i \in 1..Len(a) : D[f][i] = a[i]
      /\ \A i \in 1..n : D[f][Len(a) + i] = s.unflushed[i]
  <2>1. f = CurrentFile(s)
    BY DEF f
  <2>2. D \in [DOMAIN D -> Seq(Byte)] /\ DOMAIN D = DOMAIN d
    BY <1>1, <2>1, FlushIs DEF D
  <2>3. \A g \in DOMAIN d : g # f => D[g] = d[g]
    BY <1>1, <2>1, FlushIs DEF D
  <2>4. Len(D[f]) = Len(a) + n
    BY <1>1, <2>1, FlushIs DEF D, a
  <2>5. \A i \in 1..Len(a) : D[f][i] = a[i]
    BY <1>1, <2>1, FlushIs DEF D, a
  <2>6. \A i \in 1..n : D[f][Len(a) + i] = s.unflushed[i]
    BY <1>1, <2>1, FlushIs DEF D, a
  <2> QED BY <2>2, <2>3, <2>4, <2>5, <2>6
<1> USE DEF f, a
<1>6. /\ t \in SinkType /\ t.files = s.files /\ t.starts = s.starts /\ t.said = s.said
      /\ Len(t.unflushed) = Len(s.unflushed) - n
      /\ \A i \in 1..(Len(s.unflushed) - n) : t.unflushed[i] = s.unflushed[n + i]
      /\ t.dropped = s.dropped
  BY <1>1, FlushedFields
<1>7. /\ e \in Nat /\ e + Len(s.unflushed) = Len(s.said) /\ l \in Nat \ {0}
      /\ DOMAIN s.files = 1..l
      /\ \A i \in 1..l : s.starts[i] \in Nat /\ EndOf(s, i) \in Nat
      /\ s.starts[l] <= e /\ Len(s.unflushed) \in Nat /\ Len(s.said) \in Nat
      /\ DOMAIN s.unflushed = 1..Len(s.unflushed)
  BY <1>1, Numbers, Fields
<1>8. f = s.files[l]
  BY DEF CurrentFile, Last
<1>9. a \in Seq(Byte) /\ Len(a) \in Nat /\ DOMAIN a = 1..Len(a)
  BY <1>1
<1>10. DOMAIN D[f] = 1..(Len(a) + n)
  <2>1. D[f] \in Seq(Byte)
    BY <1>1, <1>5
  <2> QED BY <1>5, <2>1
<1> HIDE DEF t, f, l
<1>11. PassedOn(t) = e + n
  BY <1>6, <1>7 DEF PassedOn
<1> HIDE DEF a, e
<1>12. n \in Nat /\ n <= Len(s.unflushed)
  BY <1>1, <1>7
<1>24. OnDisk(t) = OnDisk(s) \cup ((e + 1)..(e + n))
  <2>1. s.dropped \subseteq 1..e
    BY <1>1 DEF SinkOk, DropsOk, e
  <2>2. OnDisk(s) = (1..e) \ s.dropped /\ OnDisk(t) = (1..(e + n)) \ s.dropped
    BY <1>6, <1>11 DEF OnDisk, e
  <2>3. e \in Nat
    BY <1>7 DEF e
  <2> QED BY <1>12, <2>1, <2>2, <2>3
<1>13. Grows(s, t)
  <2>1. \A i \in 1..l : EndOf(t, i) = EndOf(s, i)
    BY <1>6 DEF EndOf
  <2>2. OnDisk(s) \subseteq OnDisk(t)
    BY <1>24
  <2> QED BY <1>6, <1>7, <2>1, <2>2 DEF Grows, l
<1>14. Books(ss) /\ Books(tt)
  <2>1. SinkOk(t)
    BY <1>1, FlushOk DEF t
  <2>2. tt \in Seq(SinkType)
    BY <1>1, <1>6 DEF tt
  <2> QED BY <1>3, <2>1, <2>2 DEF Kept, Books
<1>15. ASSUME NEW j \in DOMAIN ss
       PROVE  Grows(ss[j], tt[j])
  <2>1. CASE j = k
    BY <1>3, <1>13, <2>1 DEF s
  <2>2. CASE j # k
    <3>1. ss[j] \in SinkType /\ SinkOk(ss[j]) /\ tt[j] = ss[j]
      BY <1>1, <1>3, <1>14, <2>2 DEF Books
    <3> QED BY <3>1, GrowsSame
  <2> QED BY <2>1, <2>2
<1>16. ASSUME NEW g \in DOMAIN D, NEW m \in DOMAIN D[g]
       PROVE  /\ D[g][m] \in Byte
              /\ \/ g \in DOMAIN d /\ m \in DOMAIN d[g] /\ D[g][m] = d[g][m]
                 \/ \E i \in 1..n : /\ g = f /\ m = Len(a) + i
                                    /\ D[g][m] = ByteOf(k, e + i)
  <2>1. D[g][m] \in Byte
    <3>1. D[g] \in Seq(Byte)
      BY <1>5
    <3> QED BY <3>1
  <2>2. CASE g # f
    BY <1>5, <2>2
  <2>3. CASE g = f
    <3>1. m \in 1..(Len(a) + n)
      BY <1>10, <2>3
    <3>2. CASE m <= Len(a)
      <4>1. m \in 1..Len(a)
        BY <1>9, <1>12, <3>1, <3>2
      <4> QED BY <1>5, <1>9, <2>1, <2>3, <4>1 DEF a
    <3>3. CASE ~(m <= Len(a))
      <4>1. m - Len(a) \in 1..n /\ m = Len(a) + (m - Len(a))
        BY <1>9, <1>12, <3>1, <3>3
      <4> DEFINE i == m - Len(a)
      <4>2. i \in 1..n /\ m = Len(a) + i
        BY <4>1
      <4> HIDE DEF i
      <4>3. i \in DOMAIN s.unflushed
        BY <1>7, <1>12, <4>2
      <4>4. D[g][m] = ByteOf(k, e + i)
        BY <1>2, <1>5, <2>3, <4>2, <4>3 DEF e
      <4> QED BY <2>1, <2>3, <4>2, <4>4
    <3> QED BY <3>2, <3>3
  <2> QED BY <2>1, <2>2, <2>3
<1>17. ASSUME NEW g \in DOMAIN d, NEW m \in DOMAIN d[g]
       PROVE  /\ d[g][m] \in Byte /\ InPlace(d[g][m], g, ss) /\ InPlace(d[g][m], g, tt)
              /\ d[g][m].sink = k => d[g][m].pos <= e
  <2>1. d[g][m] \in Byte
    <3>1. d[g] \in Seq(Byte)
      BY <1>1
    <3> QED BY <3>1
  <2>2. InPlace(d[g][m], g, ss)
    BY DEF DiskOk
  <2>3. InPlace(d[g][m], g, tt)
    BY <1>3, <1>14, <1>15, <2>1, <2>2, PlaceKept
  <2>4. ASSUME d[g][m].sink = k
        PROVE  d[g][m].pos <= e
    <3>1. d[g][m].pos \in 1..e
      BY <2>2, <2>4 DEF InPlace, OnDisk, e, s
    <3>2. e \in Nat
      BY <1>7 DEF e
    <3> QED BY <3>1, <3>2
  <2> QED BY <2>1, <2>2, <2>3, <2>4
<1>18. ASSUME NEW i \in 1..n
       PROVE  InPlace(ByteOf(k, e + i), f, tt)
  <2>1. i \in Nat /\ 1 <= i /\ i <= n
    BY <1>12
  <2>2. l \in DOMAIN t.files /\ t.files[l] = f
    BY <1>6, <1>7, <1>8
  <2>3. t.starts[l] < e + i
    BY <1>6, <1>7, <2>1
  <2>4. EndOf(t, l) = Len(s.said)
    BY <1>6 DEF EndOf, l
  <2>5. e + i <= Len(s.said) /\ e + i <= e + n
    BY <1>7, <1>12, <2>1
  <2> DEFINE b == ByteOf(k, e + i)
  <2>6. b.sink = k /\ b.pos = e + i
    BY DEF ByteOf
  <2> HIDE DEF b
  <2>7. b.sink \in DOMAIN tt /\ tt[b.sink] = t
    BY <1>3, <2>6
  <2>8. b.pos \in OnDisk(t)
    <3>1. e + i \in (e + 1)..(e + n)
      BY <1>7, <1>12, <2>1, <2>5 DEF e
    <3> QED BY <1>24, <2>6, <3>1
  <2> QED BY <2>2, <2>3, <2>4, <2>5, <2>6, <2>7, <2>8 DEF InPlace, b
<1>19. ASSUME NEW g \in DOMAIN D, NEW m \in DOMAIN D[g]
       PROVE  InPlace(D[g][m], g, tt)
  BY <1>5, <1>16, <1>17, <1>18
<1>20. ASSUME NEW g \in DOMAIN D, NEW m \in DOMAIN D[g], NEW h \in 1..(m - 1),
              D[g][h].sink = D[g][m].sink
       PROVE  D[g][h].pos < D[g][m].pos
  <2>1. g \in DOMAIN d /\ DOMAIN d[g] = 1..Len(d[g]) /\ Len(d[g]) \in Nat
    BY <1>1, <1>5
  <2>2. DOMAIN D[g] = 1..Len(D[g]) /\ Len(D[g]) \in Nat
    BY <1>5
  <2>3. m \in Nat /\ h \in Nat /\ 1 <= h /\ h < m /\ h \in DOMAIN D[g]
    BY <2>2
  <2>4. CASE m \in DOMAIN d[g] /\ D[g][m] = d[g][m]
    <3>1. h \in DOMAIN d[g]
      BY <2>1, <2>3, <2>4
    <3>2. D[g][h] = d[g][h]
      <4>1. CASE g # f
        BY <1>5, <2>1, <4>1
      <4>2. CASE g = f
        BY <1>5, <2>1, <3>1, <4>2 DEF a
      <4> QED BY <4>1, <4>2
    <3> QED BY <1>20, <2>1, <2>4, <3>2 DEF DiskOk
  <2>5. ASSUME NEW i \in 1..n, g = f, m = Len(a) + i, D[g][m] = ByteOf(k, e + i)
        PROVE  D[g][h].pos < D[g][m].pos
    <3>1. D[g][m].sink = k /\ D[g][m].pos = e + i /\ i \in Nat /\ 1 <= i
      BY <1>12, <2>5 DEF ByteOf
    <3>2. CASE h \in DOMAIN d[g] /\ D[g][h] = d[g][h]
      <4>1. D[g][h].pos <= e /\ D[g][h].pos \in Nat
        BY <1>17, <1>20, <2>1, <3>1, <3>2 DEF Byte
      <4> QED BY <1>7, <3>1, <4>1 DEF e
    <3>3. ASSUME NEW j \in 1..n, h = Len(a) + j, D[g][h] = ByteOf(k, e + j)
          PROVE  D[g][h].pos < D[g][m].pos
      <4>1. j < i /\ j \in Nat
        BY <1>9, <1>12, <2>3, <2>5, <3>1, <3>3
      <4>2. D[g][h].pos = e + j
        BY <3>3 DEF ByteOf
      <4> QED BY <1>7, <3>1, <4>1, <4>2 DEF e
    <3> QED BY <1>16, <2>3, <3>2, <3>3
  <2> QED BY <1>16, <2>4, <2>5
<1>21. ASSUME NEW j \in DOMAIN tt, NEW p \in OnDisk(tt[j])
       PROVE  \E g \in DOMAIN D : \E m \in DOMAIN D[g] : D[g][m] = ByteOf(j, p)
  <2>1. CASE p \in OnDisk(ss[j])
    <3>1. PICK g \in DOMAIN d : \E m \in DOMAIN d[g] : d[g][m] = ByteOf(j, p)
      BY <1>3, <2>1 DEF DiskOk
    <3>2. PICK m \in DOMAIN d[g] : d[g][m] = ByteOf(j, p)
      BY <3>1
    <3>3. g \in DOMAIN D /\ m \in DOMAIN D[g] /\ D[g][m] = d[g][m]
      <4>1. CASE g # f
        BY <1>5, <4>1
      <4>2. CASE g = f
        <5>1. m \in 1..Len(a) /\ m \in 1..(Len(a) + n)
          BY <1>9, <1>12, <4>2 DEF a
        <5> QED BY <1>5, <1>10, <4>2, <5>1 DEF a
      <4> QED BY <4>1, <4>2
    <3> QED BY <3>2, <3>3
  <2>2. CASE p \notin OnDisk(ss[j])
    <3>1. j = k
      BY <1>3, <2>2
    <3>2. p \in (e + 1)..(e + n)
      BY <1>3, <1>24, <2>2, <3>1 DEF s
    <3>3. p - e \in 1..n /\ p = e + (p - e)
      BY <1>7, <1>12, <3>2 DEF e
    <3> DEFINE i == p - e
    <3>4. i \in 1..n /\ p = e + i
      BY <3>3
    <3> HIDE DEF i
    <3>5. i \in DOMAIN s.unflushed /\ Len(a) + i \in DOMAIN D[f]
      BY <1>7, <1>9, <1>10, <1>12, <3>4
    <3>6. D[f][Len(a) + i] = ByteOf(j, p)
      BY <1>2, <1>5, <3>1, <3>4, <3>5 DEF e
    <3> QED BY <1>1, <1>5, <3>5, <3>6 DEF f
  <2> QED BY <2>1, <2>2
<1>22. ASSUME NEW j \in DOMAIN tt, NEW i \in DOMAIN tt[j].unflushed
       PROVE  tt[j].unflushed[i] = ByteOf(j, PassedOn(tt[j]) + i)
  <2>1. CASE j = k
    <3>1. DOMAIN t.unflushed = 1..(Len(s.unflushed) - n)
      <4>1. t.unflushed \in Seq(Byte)
        BY <1>6, Fields
      <4> QED BY <1>6, <4>1
    <3>2. i \in 1..(Len(s.unflushed) - n) /\ n + i \in DOMAIN s.unflushed
      <4>1. i \in 1..(Len(s.unflushed) - n)
        BY <1>3, <2>1, <3>1
      <4>2. n + i \in 1..Len(s.unflushed)
        BY <1>7, <1>12, <4>1
      <4> QED BY <1>7, <4>1, <4>2
    <3>3. t.unflushed[i] = ByteOf(k, e + (n + i))
      BY <1>2, <1>6, <3>2 DEF e
    <3>4. e + (n + i) = (e + n) + i
      BY <1>7, <1>12, <3>2 DEF e
    <3> QED BY <1>3, <1>11, <2>1, <3>3, <3>4
  <2>2. CASE j # k
    BY <1>3, <2>2 DEF DiskOk
  <2> QED BY <2>1, <2>2
<1>23. DiskOk(D, tt)
  BY <1>19, <1>20, <1>21, <1>22 DEF DiskOk
<1> QED BY <1>23 DEF D, tt, t, s

(***************************************************************************)
(* Who is at which sink                                                    *)
(***************************************************************************)

(* The part of TypeOK about files and sinks.                               *)
FilesOK ==
  /\ disk \in [DOMAIN disk -> Seq(Byte)] /\ DOMAIN disk \subseteq FileName
  /\ sinks \in Seq(SinkType)
  /\ \A k \in DOMAIN sinks : \A i \in DOMAIN sinks[k].files :
       sinks[k].files[i] \in DOMAIN disk
  /\ ended \in Seq({"open", "closed", "lost"}) /\ Len(ended) = Len(sinks)

LEMMA OfSink ==
  ASSUME FilesOK, BooksInv, NEW k \in DOMAIN sinks
  PROVE  /\ sinks[k] \in SinkType /\ SinkOk(sinks[k]) /\ k \in Nat
         /\ CurrentFile(sinks[k]) \in DOMAIN disk /\ Kept(disk, sinks)
         /\ DOMAIN sinks = 1..Len(sinks) /\ Len(sinks) \in Nat
         /\ DOMAIN ended = DOMAIN sinks
<1>1. /\ sinks[k] \in SinkType /\ SinkOk(sinks[k]) /\ k \in Nat /\ Kept(disk, sinks)
      /\ DOMAIN sinks = 1..Len(sinks) /\ Len(sinks) \in Nat
  BY DEF FilesOK, BooksInv, Kept, Books
<1>2. DOMAIN ended = DOMAIN sinks
  BY DEF FilesOK
<1>3. Len(sinks[k].files) \in DOMAIN sinks[k].files
  BY <1>1, Numbers
<1>4. CurrentFile(sinks[k]) \in DOMAIN disk
  BY <1>3 DEF FilesOK, CurrentFile, Last
<1> QED BY <1>1, <1>2, <1>4

LEMMA Using ==
  ASSUME IInv, NEW t \in Thread, pc[t] \in Writing
  PROVE  /\ mine[t] \in Thread /\ made[mine[t]] \in Seq(Nat)
         /\ at[t] \in DOMAIN made[mine[t]] /\ at[t] \in Nat \ {0}
         /\ Sink(t) \in DOMAIN sinks /\ ended[Sink(t)] = "open"
         /\ next[t] \in DOMAIN Work[t]
         /\ Message(t) \in MessageType /\ Work[t][next[t]].len \in Nat
<1>1. mine[t] \in Thread
  BY DEF IInv, TypeOK, LoggerInv, Writing
<1>2. made[mine[t]] \in Seq(Nat)
  BY <1>1 DEF IInv, TypeOK
<1>3. at[t] \in Nat \ {0} /\ at[t] <= Len(made[mine[t]])
  BY DEF IInv, TypeOK, LoggerInv
<1>4. at[t] \in DOMAIN made[mine[t]]
  BY <1>2, <1>3
<1>5. pc[mine[t]] # "exit"
  BY <1>1 DEF IInv, MadeInv, Writing
<1>6. Sink(t) \in DOMAIN sinks /\ ended[Sink(t)] = "open"
  BY <1>1, <1>4, <1>5 DEF IInv, MadeInv, Sink
<1>7. next[t] \in Nat \ {0} /\ next[t] <= Len(Work[t])
  BY DEF IInv, TypeOK, LoggerInv
<1>8. Work[t] \in Seq([level : 1..5, len : Nat])
  BY LoggingAssumption
<1>9. next[t] \in DOMAIN Work[t] /\ Work[t][next[t]].len \in Nat
  <2> DEFINE w == Work[t]
             n == next[t]
             R == [level : 1..5, len : Nat]
  <2>1. w \in Seq(R) /\ n \in Nat \ {0} /\ n <= Len(w)
    BY <1>7, <1>8
  <2> HIDE DEF w, n, R
  <2>2. n \in DOMAIN w
    BY <2>1
  <2>3. w[n] \in R
    BY <2>1, <2>2
  <2> QED BY <2>2, <2>3 DEF w, n, R
<1>10. Message(t) \in MessageType
  BY <1>7 DEF Message, MessageType
<1> QED BY <1>1, <1>2, <1>3, <1>4, <1>6, <1>9, <1>10

(* Two threads are never at the same sink.                                 *)
LEMMA Exclusive ==
  ASSUME IInv, NEW t \in Thread, NEW u \in Thread,
         pc[t] \in Writing, pc[u] \in Writing, Sink(t) = Sink(u)
  PROVE  t = u
<1>1. /\ mine[t] \in Thread /\ at[t] \in DOMAIN made[mine[t]]
      /\ mine[u] \in Thread /\ at[u] \in DOMAIN made[mine[u]]
  BY Using
<1>2. mine[t] = mine[u]
  BY <1>1 DEF IInv, MadeInv, Sink
<1> QED BY <1>2 DEF IInv, MutexInv

(* The message a thread is about to write is new to the sink.              *)
LEMMA NotSaid ==
  ASSUME IInv, NEW t \in Thread, pc[t] \in Writing, NEW p \in DOMAIN sinks[Sink(t)].said
  PROVE  sinks[Sink(t)].said[p] # Message(t)
<1> DEFINE m == sinks[Sink(t)].said[p]
<1>1. /\ mine[t] \in Thread /\ at[t] \in DOMAIN made[mine[t]]
      /\ made[mine[t]] \in Seq(Nat) /\ at[t] \in Nat \ {0} /\ Sink(t) \in DOMAIN sinks
  BY Using
<1> SUFFICES ASSUME m = Message(t) PROVE FALSE
  OBVIOUS
<1>2. m.by = t /\ m.no = next[t] /\ next[t] \in Nat
  BY DEF Message, IInv, TypeOK
<1>3. m.no < next[t] \/ HadTurn(t, Sink(t))
  BY <1>1, <1>2 DEF IInv, FreshInv
<1> HIDE DEF m
<1>4. PICK j \in 1..(at[t] - 1) : made[mine[t]][j] = Sink(t)
  BY <1>2, <1>3 DEF HadTurn
<1>5. j \in DOMAIN made[mine[t]] /\ j # at[t]
  BY <1>1
<1> QED BY <1>1, <1>4, <1>5 DEF IInv, MadeInv, Sink

(***************************************************************************)
(* The steps that touch the files                                          *)
(***************************************************************************)

(* One sink becomes t, and the disk D has what the sinks say it has.       *)
LEMMA OneSink ==
  ASSUME FilesOK, BooksInv, NEW k \in DOMAIN sinks, NEW t \in SinkType, SinkOk(t),
         NEW D, D \in [DOMAIN D -> Seq(Byte)], DOMAIN D \subseteq FileName,
         DOMAIN disk \subseteq DOMAIN D, disk' = D,
         \A i \in DOMAIN t.files : t.files[i] \in DOMAIN D,
         sinks' = [sinks EXCEPT ![k] = t], DiskOk(D, sinks'),
         ended' \in Seq({"open", "closed", "lost"}), Len(ended') = Len(sinks),
         \A j \in DOMAIN sinks : j # k => ended'[j] = ended[j],
         ended'[k] = "closed" => t.unflushed = <<>>,
         Intact(t) \/ ended'[k] = "closed" \/ IsFull(t)
  PROVE  /\ FilesOK' /\ BooksInv'
         /\ DOMAIN sinks' = DOMAIN sinks /\ sinks'[k] = t
         /\ \A j \in DOMAIN sinks : j # k => sinks'[j] = sinks[j]
<1>1. /\ DOMAIN sinks' = DOMAIN sinks /\ sinks'[k] = t
      /\ \A j \in DOMAIN sinks : j # k => sinks'[j] = sinks[j]
  OBVIOUS
<1>2. sinks' \in Seq(SinkType) /\ Len(sinks') = Len(sinks)
  BY DEF FilesOK
<1>3. \A j \in DOMAIN sinks' : \A i \in DOMAIN sinks'[j].files :
        sinks'[j].files[i] \in DOMAIN disk'
  BY <1>1 DEF FilesOK
<1>4. FilesOK'
  BY <1>2, <1>3 DEF FilesOK
<1>5. \A j \in DOMAIN sinks' :
        /\ SinkOk(sinks'[j])
        /\ ended'[j] = "closed" => sinks'[j].unflushed = <<>>
        /\ Intact(sinks'[j]) \/ ended'[j] = "closed" \/ IsFull(sinks'[j])
  BY <1>1 DEF BooksInv
<1>6. BooksInv'
  BY <1>5 DEF BooksInv
<1> QED BY <1>1, <1>4, <1>6

(* Of what a sink has, some goes to its file, and the rest is gone.        *)
LEMMA CloseFiles ==
  ASSUME FilesOK, BooksInv, NEW k \in DOMAIN sinks, CloseFile(k),
         ended' \in Seq({"open", "closed", "lost"}), Len(ended') = Len(sinks),
         \A j \in DOMAIN sinks : j # k => ended'[j] = ended[j],
         ended'[k] = "closed" \/ IsFull(sinks[k])
  PROVE  /\ FilesOK' /\ BooksInv' /\ DOMAIN sinks' = DOMAIN sinks
         /\ sinks'[k].said = sinks[k].said /\ sinks'[k].unflushed = <<>>
         /\ IsFull(sinks[k]) => IsFull(sinks'[k])
         /\ \A j \in DOMAIN sinks : j # k => sinks'[j] = sinks[j]
<1> DEFINE s == sinks[k]
<1>1. PICK n \in 0..Len(s.unflushed) :
        /\ disk' = Flush(disk, s, n)
        /\ sinks' = [sinks EXCEPT ![k] = Closed(Flushed(s, n))]
  BY DEF CloseFile
<1> DEFINE t == Flushed(s, n)
           w == Closed(t)
           D == Flush(disk, s, n)
           tt == [sinks EXCEPT ![k] = t]
           ww == [sinks EXCEPT ![k] = w]
<1>2. /\ s \in SinkType /\ SinkOk(s) /\ Kept(disk, sinks) /\ CurrentFile(s) \in DOMAIN disk
      /\ sinks \in Seq(SinkType)
  BY OfSink DEF FilesOK
<1>3. DiskOk(D, tt)
  BY <1>1, <1>2, DiskFlush DEF BooksInv
<1>4. D \in [DOMAIN D -> Seq(Byte)] /\ DOMAIN D = DOMAIN disk
  BY <1>2, FlushIs DEF FilesOK
<1>5. DOMAIN tt = DOMAIN sinks /\ tt[k] = t /\ \A j \in DOMAIN sinks : j # k => tt[j] = sinks[j]
  OBVIOUS
<1>6. DOMAIN ww = DOMAIN sinks /\ ww[k] = w /\ \A j \in DOMAIN sinks : j # k => ww[j] = sinks[j]
  OBVIOUS
<1>7. /\ t \in SinkType /\ t.kind = s.kind /\ t.files = s.files /\ t.said = s.said
      /\ t.starts = s.starts /\ t.cur_fsize = s.cur_fsize
  BY <1>2, FlushedFields
<1>8. SinkOk(t)
  BY <1>2, FlushOk
<1> HIDE DEF s, t, w, D, tt, ww
<1>9. PassedOn(t) \in Nat /\ PassedOn(t) + Len(t.unflushed) = Len(t.said)
  BY <1>7, <1>8, Numbers
<1>10. /\ w \in SinkType /\ w.kind = t.kind /\ w.files = t.files /\ w.said = t.said
       /\ w.starts = t.starts /\ w.cur_fsize = t.cur_fsize /\ w.unflushed = <<>>
       /\ w.dropped = t.dropped \cup ((PassedOn(t) + 1)..Len(t.said))
       /\ PassedOn(w) = Len(t.said)
  BY <1>7, <1>9, ClosedFields DEF w
<1>11. SinkOk(w)
  BY <1>7, <1>8, <1>9, CloseOk DEF w
<1>12. OnDisk(w) = OnDisk(t)
  <2> DEFINE e == PassedOn(t)
             l == Len(t.said)
             d == t.dropped
  <2>1. e \in Nat /\ l \in Nat /\ e <= l
    BY <1>7, <1>9, Fields
  <2>2. d \subseteq 1..e
    BY <1>8 DEF SinkOk, DropsOk
  <2>3. OnDisk(t) = (1..e) \ d /\ OnDisk(w) = (1..l) \ (d \cup ((e + 1)..l))
    BY <1>10 DEF OnDisk
  <2> HIDE DEF e, l, d
  <2> QED BY <2>1, <2>2, <2>3
<1>13. Grows(t, w)
  <2>1. \A i \in 1..Len(t.files) : EndOf(w, i) = EndOf(t, i)
    BY <1>10 DEF EndOf
  <2> QED BY <1>7, <1>8, <1>10, <1>12, <2>1, Numbers DEF Grows
<1>14. Kept(D, tt)
  <2>1. tt \in Seq(SinkType)
    BY <1>2, <1>7 DEF tt
  <2>2. \A j \in DOMAIN tt : SinkOk(tt[j])
    BY <1>5, <1>8 DEF BooksInv
  <2> QED BY <1>4, <2>1, <2>2 DEF Kept, Books
<1>15. Kept(D, ww)
  <2>1. ww \in Seq(SinkType)
    BY <1>2, <1>10 DEF ww
  <2>2. \A j \in DOMAIN ww : SinkOk(ww[j])
    BY <1>6, <1>11 DEF BooksInv
  <2> QED BY <1>4, <2>1, <2>2 DEF Kept, Books
<1>16. ASSUME NEW j \in DOMAIN tt
       PROVE  Grows(tt[j], ww[j]) /\ OnDisk(ww[j]) = OnDisk(tt[j])
  <2>1. CASE j = k
    BY <1>5, <1>6, <1>12, <1>13, <2>1
  <2>2. CASE j # k
    <3>1. tt[j] \in SinkType /\ SinkOk(tt[j])
      BY <1>14 DEF Kept, Books
    <3> QED BY <1>5, <1>6, <2>2, <3>1, GrowsSame
  <2> QED BY <2>1, <2>2
<1>17. ASSUME NEW j \in DOMAIN ww, NEW i \in DOMAIN ww[j].unflushed
       PROVE  ww[j].unflushed[i] = ByteOf(j, PassedOn(ww[j]) + i)
  <2>1. CASE j = k
    <3>1. ww[j].unflushed = <<>>
      BY <1>6, <1>10, <2>1
    <3> QED BY <3>1
  <2>2. CASE j # k
    BY <1>5, <1>6, <1>3, <2>2 DEF DiskOk
  <2> QED BY <2>1, <2>2
<1>18. DiskOk(D, ww)
  <2>1. DOMAIN tt = DOMAIN ww
    BY <1>5, <1>6
  <2> QED BY <1>3, <1>14, <1>15, <1>16, <1>17, <2>1, DiskSame
<1>19. disk' = D /\ sinks' = [sinks EXCEPT ![k] = w] /\ DiskOk(D, sinks')
  BY <1>1, <1>18 DEF D, w, t, ww
<1>20. \A i \in DOMAIN w.files : w.files[i] \in DOMAIN D
  BY <1>4, <1>7, <1>10 DEF FilesOK, s
<1>21. DOMAIN D \subseteq FileName /\ DOMAIN disk \subseteq DOMAIN D
  BY <1>4 DEF FilesOK
<1>22. IsFull(s) => IsFull(w)
  BY <1>7, <1>10 DEF IsFull
<1>23. /\ ended'[k] = "closed" => w.unflushed = <<>>
       /\ Intact(w) \/ ended'[k] = "closed" \/ IsFull(w)
  BY <1>10, <1>22 DEF s
<1>24. /\ FilesOK' /\ BooksInv' /\ DOMAIN sinks' = DOMAIN sinks /\ sinks'[k] = w
       /\ \A j \in DOMAIN sinks : j # k => sinks'[j] = sinks[j]
  BY <1>4, <1>10, <1>11, <1>19, <1>20, <1>21, <1>23, OneSink
<1> QED BY <1>7, <1>10, <1>22, <1>24 DEF s

LEMMA CloseFullFiles ==
  ASSUME IInv, NEW t \in Thread, CloseFull(t)
  PROVE  /\ FilesOK' /\ BooksInv' /\ DOMAIN sinks' = DOMAIN sinks /\ ended' = ended
         /\ Sink(t) \in DOMAIN sinks
         /\ sinks'[Sink(t)].said = sinks[Sink(t)].said
         /\ IsFull(sinks'[Sink(t)]) /\ sinks'[Sink(t)].unflushed = <<>>
         /\ \A j \in DOMAIN sinks : j # Sink(t) => sinks'[j] = sinks[j]
<1>1. /\ pc[t] \in Writing /\ ended' = ended /\ IsFull(sinks[Sink(t)])
      /\ CloseFile(Sink(t))
  BY DEF CloseFull, Writing
<1>2. Sink(t) \in DOMAIN sinks
  BY <1>1, Using
<1>3. FilesOK /\ BooksInv
  BY DEF IInv, TypeOK, FilesOK
<1>4. /\ ended' \in Seq({"open", "closed", "lost"}) /\ Len(ended') = Len(sinks)
      /\ \A j \in DOMAIN sinks : j # Sink(t) => ended'[j] = ended[j]
  BY <1>1, <1>3 DEF FilesOK
<1> QED BY <1>1, <1>2, <1>3, <1>4, CloseFiles

LEMMA CloseStreamFiles ==
  ASSUME IInv, NEW k \in DOMAIN sinks, CloseStream(k)
  PROVE  /\ FilesOK' /\ BooksInv' /\ DOMAIN sinks' = DOMAIN sinks
         /\ sinks'[k].said = sinks[k].said
         /\ \A j \in DOMAIN sinks : j # k => sinks'[j] = sinks[j]
<1>1. ended' = [ended EXCEPT ![k] = "closed"] /\ CloseFile(k)
  BY DEF CloseStream
<1>2. FilesOK /\ BooksInv
  BY DEF IInv, TypeOK, FilesOK
<1>3. /\ ended' \in Seq({"open", "closed", "lost"}) /\ Len(ended') = Len(sinks)
      /\ \A j \in DOMAIN sinks : j # k => ended'[j] = ended[j]
      /\ ended'[k] = "closed"
  <2>1. ended \in Seq({"open", "closed", "lost"}) /\ Len(ended) = Len(sinks)
    BY <1>2 DEF FilesOK
  <2>2. DOMAIN ended = DOMAIN sinks
    BY <1>2, OfSink
  <2> QED BY <1>1, <2>1, <2>2
<1> QED BY <1>1, <1>2, <1>3, CloseFiles

LEMMA OpenFiles ==
  ASSUME IInv, NEW t \in Thread, Open(t)
  PROVE  /\ FilesOK' /\ BooksInv' /\ DOMAIN sinks' = DOMAIN sinks /\ ended' = ended
         /\ Sink(t) \in DOMAIN sinks
         /\ sinks'[Sink(t)].said = sinks[Sink(t)].said /\ ~IsFull(sinks'[Sink(t)])
         /\ \A j \in DOMAIN sinks : j # Sink(t) => sinks'[j] = sinks[j]
<1> DEFINE k == Sink(t)
           s == sinks[k]
           f == [stamp |-> Stamp(Now), count |-> s.name_count]
           r == OpenNext(s, Now)
           D == OpenAppend(disk, f)
           ss == [sinks EXCEPT ![k] = r]
<1>1. /\ pc[t] = "open" /\ pc[t] \in Writing /\ ended' = ended
      /\ disk' = OpenAppend(disk, CurrentFile(r)) /\ sinks' = ss
  BY DEF Open, Writing
<1>2. FilesOK /\ BooksInv /\ clock \in 1..Len(Times)
  BY DEF IInv, TypeOK, FilesOK
<1>3. k \in DOMAIN sinks
  BY <1>1, Using
<1>4. s \in SinkType /\ SinkOk(s) /\ Kept(disk, sinks)
  BY <1>2, <1>3, OfSink
<1>5. IsFull(s) /\ s.unflushed = <<>>
  BY <1>1 DEF IInv, SizeInv
<1> HIDE DEF k, s
<1>6. /\ r \in SinkType /\ f \in FileName /\ r.kind = s.kind
      /\ r.files = Append(s.files, f) /\ r.starts = Append(s.starts, Len(s.said))
      /\ r.cur_fsize = 0 /\ r.unflushed = s.unflushed /\ r.said = s.said
      /\ r.dropped = s.dropped
  BY <1>2, <1>4, OpenNextFields
<1>7. SinkOk(r)
  BY <1>2, <1>4, <1>5, OpenOk
<1> HIDE DEF f, r
<1>8. /\ s.files \in Seq(FileName) /\ s.starts \in Seq(Nat)
      /\ Len(s.files) \in Nat \ {0} /\ Len(s.starts) = Len(s.files)
      /\ DOMAIN s.files = 1..Len(s.files) /\ Len(s.said) \in Nat
  BY <1>4, Fields, Numbers DEF SinkOk, NamesOk
<1>9. /\ Len(r.files) = Len(s.files) + 1 /\ r.files[Len(s.files) + 1] = f
      /\ \A i \in 1..Len(s.files) : r.files[i] = s.files[i]
      /\ DOMAIN r.files = 1..(Len(s.files) + 1)
  <2>1. r.files \in Seq(FileName)
    BY <1>6, Fields
  <2> QED BY <1>6, <1>8, <2>1, Appended
<1>10. /\ r.starts[Len(s.files) + 1] = Len(s.said)
       /\ \A i \in 1..Len(s.files) : r.starts[i] = s.starts[i]
  BY <1>6, <1>8, Appended
<1>11. CurrentFile(r) = f
  BY <1>9 DEF CurrentFile, Last
<1>12. /\ D \in [DOMAIN D -> Seq(Byte)] /\ DOMAIN D = DOMAIN disk \cup {f}
       /\ \A g \in DOMAIN disk : D[g] = disk[g]
       /\ \A g \in DOMAIN D : g \notin DOMAIN disk => D[g] = <<>>
  BY <1>2, OpenAppendIs DEF FilesOK
<1> HIDE DEF D
<1>13. DOMAIN D \subseteq FileName /\ DOMAIN disk \subseteq DOMAIN D
  BY <1>2, <1>6, <1>12 DEF FilesOK
<1>14. \A i \in DOMAIN r.files : r.files[i] \in DOMAIN D
  <2> SUFFICES ASSUME NEW i \in DOMAIN r.files PROVE r.files[i] \in DOMAIN D
    OBVIOUS
  <2>1. CASE i = Len(s.files) + 1
    BY <1>9, <1>12, <2>1
  <2>2. CASE i # Len(s.files) + 1
    <3>1. i \in DOMAIN s.files
      BY <1>8, <1>9, <2>2
    <3>2. s.files[i] \in DOMAIN disk
      BY <1>2, <1>3, <3>1 DEF FilesOK, s
    <3> QED BY <1>8, <1>9, <1>13, <3>1, <3>2
  <2> QED BY <2>1, <2>2
<1>15. OnDisk(r) = OnDisk(s)
  BY <1>6 DEF OnDisk, PassedOn
<1>16. Grows(s, r)
  <2>1. ASSUME NEW i \in 1..Len(s.files)
        PROVE  EndOf(r, i) = EndOf(s, i) /\ EndOf(s, i) \in Nat
    <3>1. CASE i = Len(s.files)
      BY <1>8, <1>9, <1>10, <3>1 DEF EndOf
    <3>2. CASE i # Len(s.files)
      <4>1. i + 1 \in 1..Len(s.files) /\ i # Len(s.files) + 1
        BY <1>8, <3>2
      <4>2. EndOf(r, i) = EndOf(s, i)
        BY <1>9, <1>10, <3>2, <4>1 DEF EndOf
      <4> QED BY <1>4, <4>2, Numbers
    <3> QED BY <3>1, <3>2
  <2>2. \A i \in 1..Len(s.files) : EndOf(s, i) <= EndOf(r, i)
    BY <2>1
  <2>3. Len(s.files) <= Len(r.files) /\ OnDisk(s) \subseteq OnDisk(r)
    BY <1>8, <1>9, <1>15
  <2> QED BY <1>9, <1>10, <2>2, <2>3 DEF Grows
<1>17. DOMAIN ss = DOMAIN sinks /\ ss[k] = r /\ \A j \in DOMAIN sinks : j # k => ss[j] = sinks[j]
  BY <1>3
<1>18. Kept(D, ss)
  <2>0. sinks \in Seq(SinkType)
    BY <1>2 DEF FilesOK
  <2>1. ss \in Seq(SinkType)
    BY <1>3, <1>6, <2>0
  <2>2. \A j \in DOMAIN ss : SinkOk(ss[j])
    BY <1>2, <1>7, <1>17 DEF BooksInv
  <2> QED BY <1>12, <2>1, <2>2 DEF Kept, Books
<1> HIDE DEF ss
<1>19. ASSUME NEW j \in DOMAIN sinks
       PROVE  Grows(sinks[j], ss[j]) /\ OnDisk(ss[j]) = OnDisk(sinks[j])
  <2>1. CASE j = k
    BY <1>15, <1>16, <1>17, <2>1 DEF s
  <2>2. CASE j # k
    <3>1. sinks[j] \in SinkType /\ SinkOk(sinks[j])
      BY <1>2, OfSink
    <3> QED BY <1>17, <2>2, <3>1, GrowsSame
  <2> QED BY <2>1, <2>2
<1>20. ASSUME NEW j \in DOMAIN ss, NEW i \in DOMAIN ss[j].unflushed
       PROVE  ss[j].unflushed[i] = ByteOf(j, PassedOn(ss[j]) + i)
  <2>1. CASE j = k
    BY <1>5, <1>6, <1>17, <2>1
  <2>2. CASE j # k
    BY <1>2, <1>17, <2>2 DEF BooksInv, DiskOk
  <2> QED BY <2>1, <2>2
<1>21. DiskOk(D, ss)
  BY <1>2, <1>4, <1>12, <1>13, <1>17, <1>18, <1>19, <1>20, DiskSame DEF BooksInv
<1>22. /\ ended' \in Seq({"open", "closed", "lost"}) /\ Len(ended') = Len(sinks)
       /\ \A j \in DOMAIN sinks : j # k => ended'[j] = ended[j]
       /\ ended'[k] = "closed" => r.unflushed = <<>>
       /\ Intact(r)
  <2>1. /\ ended' \in Seq({"open", "closed", "lost"}) /\ Len(ended') = Len(sinks)
        /\ \A j \in DOMAIN sinks : j # k => ended'[j] = ended[j]
        /\ ended'[k] = "closed" => r.unflushed = <<>>
    BY <1>1, <1>2, <1>5, <1>6 DEF FilesOK
  <2>2. Intact(r)
    <3>1. Len(r.starts) = Len(s.files) + 1
      BY <1>6, <1>8
    <3>2. s.dropped \subseteq 1..Len(s.said)
      <4>1. PassedOn(s) = Len(s.said)
        BY <1>5, <1>8 DEF PassedOn
      <4> QED BY <1>4, <4>1 DEF SinkOk, DropsOk
    <3> QED BY <1>6, <1>8, <1>10, <3>1, <3>2 DEF Intact
  <2> QED BY <2>1, <2>2
<1>23. disk' = D /\ sinks' = [sinks EXCEPT ![k] = r] /\ DiskOk(D, sinks')
  BY <1>1, <1>11, <1>21 DEF D, ss
<1>24. /\ FilesOK' /\ BooksInv' /\ DOMAIN sinks' = DOMAIN sinks /\ sinks'[k] = r
       /\ \A j \in DOMAIN sinks : j # k => sinks'[j] = sinks[j]
  BY <1>2, <1>3, <1>6, <1>7, <1>12, <1>13, <1>14, <1>22, <1>23, OneSink
<1>25. ~IsFull(r)
  BY <1>6, SinkAssumption DEF IsFull
<1> QED BY <1>1, <1>3, <1>6, <1>24, <1>25 DEF k, s

LEMMA BuildSinkFiles ==
  ASSUME IInv, NEW t \in Thread, BuildSink(t)
  PROVE  /\ FilesOK' /\ BooksInv'
         /\ Len(sinks) \in Nat /\ DOMAIN sinks = 1..Len(sinks)
         /\ DOMAIN sinks' = 1..(Len(sinks) + 1)
         /\ \A j \in DOMAIN sinks : sinks'[j] = sinks[j] /\ ended'[j] = ended[j]
         /\ sinks'[Len(sinks) + 1].said = <<>> /\ ended'[Len(sinks) + 1] = "open"
<1> DEFINE l == Len(sinks)
           s == Construct(Kinds[t][Len(made[t]) + 1], Now)
           f == s.files[1]
           D == OpenAppend(disk, f)
           ss == Append(sinks, s)
<1>1. /\ pc[t] = "build" /\ Len(made[t]) < Len(Kinds[t])
      /\ ended' = Append(ended, "open")
      /\ disk' = OpenAppend(disk, CurrentFile(s)) /\ sinks' = ss
  BY DEF BuildSink
<1>2. FilesOK /\ BooksInv /\ clock \in 1..Len(Times)
  BY DEF IInv, TypeOK, FilesOK
<1>3. Kinds[t][Len(made[t]) + 1] \in SinkKind
  <2> DEFINE ks == Kinds[t]
             ms == made[t]
  <2>1. ks \in Seq(SinkKind) /\ ms \in Seq(Nat) /\ Len(ms) < Len(ks)
    BY <1>1, LoggingAssumption DEF IInv, TypeOK
  <2> HIDE DEF ks, ms
  <2>2. Len(ms) + 1 \in DOMAIN ks
    BY <2>1
  <2>3. ks[Len(ms) + 1] \in SinkKind
    BY <2>1, <2>2
  <2> QED BY <2>3 DEF ks, ms
<1>4. /\ s \in SinkType /\ Len(s.files) = 1 /\ s.starts = <<0>>
      /\ s.unflushed = <<>> /\ s.said = <<>> /\ s.dropped = {}
  BY <1>2, <1>3, ConstructFields
<1>5. SinkOk(s)
  BY <1>2, <1>3, ConstructOk
<1> HIDE DEF s
<1>6. s.files \in Seq(FileName) /\ DOMAIN s.files = {1} /\ f \in FileName
  BY <1>4, Fields
<1>7. CurrentFile(s) = f
  BY <1>4 DEF CurrentFile, Last
<1>8. sinks \in Seq(SinkType) /\ l \in Nat /\ DOMAIN sinks = 1..l
  BY <1>2 DEF FilesOK
<1>9. /\ ss \in Seq(SinkType) /\ Len(ss) = l + 1 /\ DOMAIN ss = 1..(l + 1)
      /\ ss[l + 1] = s /\ \A j \in DOMAIN sinks : ss[j] = sinks[j]
  <2>1. /\ ss \in Seq(SinkType) /\ Len(ss) = l + 1 /\ ss[l + 1] = s
        /\ \A j \in 1..l : ss[j] = sinks[j]
    BY <1>4, <1>8, Appended
  <2> QED BY <1>8, <2>1
<1>10. /\ ended' \in Seq({"open", "closed", "lost"}) /\ Len(ended') = l + 1
       /\ ended'[l + 1] = "open" /\ \A j \in DOMAIN sinks : ended'[j] = ended[j]
  <2>1. ended \in Seq({"open", "closed", "lost"}) /\ Len(ended) = l
    BY <1>2 DEF FilesOK
  <2> HIDE DEF l
  <2> QED BY <1>1, <1>8, <2>1, Appended
<1>11. /\ D \in [DOMAIN D -> Seq(Byte)] /\ DOMAIN D = DOMAIN disk \cup {f}
       /\ \A g \in DOMAIN disk : D[g] = disk[g]
       /\ \A g \in DOMAIN D : g \notin DOMAIN disk => D[g] = <<>>
  BY <1>2, OpenAppendIs DEF FilesOK
<1> HIDE DEF l, ss, f, D
<1>12. DOMAIN D \subseteq FileName /\ DOMAIN disk \subseteq DOMAIN D
  BY <1>2, <1>6, <1>11 DEF FilesOK
<1>13. Kept(disk, sinks) /\ Kept(D, ss)
  <2>1. ASSUME NEW j \in DOMAIN ss
        PROVE  SinkOk(ss[j])
    <3>1. CASE j = l + 1
      BY <1>5, <1>9, <3>1
    <3>2. CASE j # l + 1
      <4>1. j \in DOMAIN sinks
        BY <1>8, <1>9, <3>2
      <4> QED BY <1>2, <1>9, <4>1 DEF BooksInv
    <3> QED BY <3>1, <3>2
  <2> QED BY <1>2, <1>8, <1>9, <1>11, <2>1 DEF Kept, Books, BooksInv, FilesOK
<1>14. ASSUME NEW j \in DOMAIN sinks
       PROVE  /\ Grows(sinks[j], ss[j]) /\ OnDisk(ss[j]) = OnDisk(sinks[j])
  <2>1. sinks[j] \in SinkType /\ SinkOk(sinks[j])
    BY <1>2, OfSink
  <2> QED BY <1>9, <2>1, GrowsSame
<1>15. ASSUME NEW j \in DOMAIN ss
       PROVE  /\ j \notin DOMAIN sinks => OnDisk(ss[j]) = {}
              /\ \A i \in DOMAIN ss[j].unflushed :
                   ss[j].unflushed[i] = ByteOf(j, PassedOn(ss[j]) + i)
              /\ ended'[j] = "closed" => ss[j].unflushed = <<>>
              /\ Intact(ss[j]) \/ ended'[j] = "closed" \/ IsFull(ss[j])
              /\ \A i \in DOMAIN ss[j].files : ss[j].files[i] \in DOMAIN D
  <2>1. CASE j = l + 1
    <3>1. ss[j] = s /\ OnDisk(s) = {} /\ DOMAIN s.unflushed = {} /\ Intact(s)
      BY <1>4, <1>9, <2>1 DEF OnDisk, PassedOn, Intact
    <3>2. \A i \in DOMAIN s.files : s.files[i] \in DOMAIN D
      BY <1>6, <1>11 DEF f
    <3> QED BY <1>4, <3>1, <3>2
  <2>2. CASE j # l + 1
    <3>1. j \in DOMAIN sinks /\ ss[j] = sinks[j] /\ ended'[j] = ended[j]
      BY <1>8, <1>9, <1>10, <2>2
    <3>2. \A i \in DOMAIN ss[j].files : ss[j].files[i] \in DOMAIN D
      BY <1>2, <1>12, <3>1 DEF FilesOK
    <3> QED BY <1>2, <3>1, <3>2 DEF BooksInv, DiskOk
  <2> QED BY <2>1, <2>2
<1>16. DOMAIN sinks \subseteq DOMAIN ss
  BY <1>8, <1>9
<1>17. DiskOk(D, ss)
  BY <1>2, <1>11, <1>12, <1>13, <1>14, <1>15, <1>16, DiskSame DEF BooksInv
<1>18. disk' = D /\ sinks' = ss
  BY <1>1, <1>7 DEF D
<1>19. FilesOK'
  BY <1>9, <1>10, <1>11, <1>12, <1>15, <1>18 DEF FilesOK
<1>20. BooksInv'
  BY <1>13, <1>15, <1>17, <1>18 DEF BooksInv, Kept, Books
<1> QED BY <1>4, <1>8, <1>9, <1>10, <1>18, <1>19, <1>20 DEF l

LEMMA WriteFiles ==
  ASSUME IInv, NEW t \in Thread, Write(t)
  PROVE  /\ FilesOK' /\ BooksInv' /\ DOMAIN sinks' = DOMAIN sinks /\ ended' = ended
         /\ Sink(t) \in DOMAIN sinks
         /\ \A p \in DOMAIN sinks'[Sink(t)].said :
              \/ p \in DOMAIN sinks[Sink(t)].said
                 /\ sinks'[Sink(t)].said[p] = sinks[Sink(t)].said[p]
              \/ sinks'[Sink(t)].said[p] = Message(t)
         /\ \A j \in DOMAIN sinks : j # Sink(t) => sinks'[j] = sinks[j]
<1> DEFINE k == Sink(t)
           s == sinks[k]
           m == Message(t)
           len == Work[t][next[t]].len
           r == Put(k, s, m, len)
<1>1. pc[t] = "write" /\ pc[t] \in Writing /\ ended' = ended
  BY DEF Write, Writing
<1>3. FilesOK /\ BooksInv
  BY DEF IInv, TypeOK, FilesOK
<1>4. k \in DOMAIN sinks /\ m \in MessageType /\ len \in Nat
  BY <1>1, Using
<1>5. /\ s \in SinkType /\ SinkOk(s) /\ Kept(disk, sinks) /\ k \in Nat
      /\ CurrentFile(s) \in DOMAIN disk
  BY <1>3, <1>4, OfSink
<1>6. ~IsFull(s) /\ \A p \in DOMAIN s.said : s.said[p] # m
  BY <1>1, NotSaid DEF IInv, SizeInv
<1>7. \A i \in DOMAIN s.unflushed : s.unflushed[i] = ByteOf(k, PassedOn(s) + i)
  BY <1>3, <1>4 DEF BooksInv, DiskOk
<1>8. ended[k] = "open"
  BY <1>1, Using
<1>2. Intact(s)
  BY <1>3, <1>4, <1>6, <1>8 DEF BooksInv
<1> HIDE DEF k, s, m, len
<1>9. SinkOk(r)
  BY <1>2, <1>4, <1>5, <1>6, PutOk
<1> HIDE DEF r
<1>10. /\ r \in SinkType /\ r.files = s.files /\ r.starts = s.starts
       /\ Len(r.unflushed) = Len(s.unflushed) + len
       /\ Len(r.said) = Len(s.said) + len /\ r.dropped = s.dropped
  BY <1>4, <1>5, PutFields DEF r
<1>11. \A i \in 1..Len(s.unflushed) : r.unflushed[i] = s.unflushed[i]
  BY <1>4, <1>5, PutFields DEF r
<1>12. \A i \in 1..len : r.unflushed[Len(s.unflushed) + i] = ByteOf(k, Len(s.said) + i)
  BY <1>4, <1>5, PutFields DEF r
<1>13. \A i \in 1..Len(s.said) : r.said[i] = s.said[i]
  BY <1>4, <1>5, PutFields DEF r
<1>14. PICK n \in 0..Len(r.unflushed) :
        disk' = Flush(disk, r, n) /\ sinks' = [sinks EXCEPT ![k] = Flushed(r, n)]
  BY DEF Write, k, s, m, len, r
<1> DEFINE rr == [sinks EXCEPT ![k] = r]
           u == Flushed(r, n)
           D == Flush(disk, r, n)
<1>15. /\ Len(s.said) \in Nat /\ Len(s.unflushed) \in Nat
       /\ DOMAIN s.said = 1..Len(s.said) /\ DOMAIN s.unflushed = 1..Len(s.unflushed)
       /\ DOMAIN r.said = 1..(Len(s.said) + len)
       /\ DOMAIN r.unflushed = 1..(Len(s.unflushed) + len)
       /\ Len(s.files) \in Nat /\ DOMAIN s.files = 1..Len(s.files)
       /\ PassedOn(s) \in Nat /\ PassedOn(s) + Len(s.unflushed) = Len(s.said)
       /\ \A i \in 1..Len(s.files) : EndOf(s, i) \in Nat
  <2>1. /\ s.said \in Seq(MessageType) /\ s.unflushed \in Seq(Byte)
        /\ r.said \in Seq(MessageType) /\ r.unflushed \in Seq(Byte)
    BY <1>5, <1>10, Fields
  <2>2. /\ Len(s.files) \in Nat /\ DOMAIN s.files = 1..Len(s.files)
        /\ PassedOn(s) \in Nat /\ PassedOn(s) + Len(s.unflushed) = Len(s.said)
        /\ \A i \in 1..Len(s.files) : EndOf(s, i) \in Nat
    BY <1>5, Numbers
  <2>3. /\ Len(s.said) \in Nat /\ DOMAIN s.said = 1..Len(s.said)
        /\ DOMAIN r.said = 1..(Len(s.said) + len)
    BY <1>10, <2>1
  <2>4. /\ Len(s.unflushed) \in Nat /\ DOMAIN s.unflushed = 1..Len(s.unflushed)
        /\ DOMAIN r.unflushed = 1..(Len(s.unflushed) + len)
    BY <1>10, <2>1
  <2> QED BY <2>2, <2>3, <2>4
<1>16. PassedOn(r) = PassedOn(s)
  BY <1>4, <1>10, <1>15 DEF PassedOn
<1>34. OnDisk(r) = OnDisk(s)
  BY <1>10, <1>16 DEF OnDisk
<1>17. Grows(s, r)
  <2>1. ASSUME NEW i \in 1..Len(s.files)
        PROVE  EndOf(s, i) <= EndOf(r, i)
    <3>1. CASE i = Len(s.files)
      BY <1>4, <1>10, <1>15, <3>1 DEF EndOf
    <3>2. CASE i # Len(s.files)
      <4>1. EndOf(r, i) = EndOf(s, i)
        BY <1>10, <3>2 DEF EndOf
      <4> QED BY <1>15, <4>1
    <3> QED BY <3>1, <3>2
  <2> QED BY <1>10, <1>15, <1>34, <2>1 DEF Grows
<1>18. ASSUME NEW i \in DOMAIN r.unflushed
       PROVE  r.unflushed[i] = ByteOf(k, PassedOn(r) + i)
  <2>1. CASE i \in 1..Len(s.unflushed)
    BY <1>7, <1>11, <1>15, <1>16, <2>1
  <2>2. CASE i \notin 1..Len(s.unflushed)
    <3> DEFINE j == i - Len(s.unflushed)
    <3>1. j \in 1..len /\ i = Len(s.unflushed) + j
      BY <1>4, <1>15, <2>2
    <3> HIDE DEF j
    <3>2. /\ Len(s.said) = PassedOn(s) + Len(s.unflushed) /\ j \in Nat
          /\ PassedOn(s) \in Nat /\ Len(s.unflushed) \in Nat
      BY <1>4, <1>15, <3>1
    <3>3. Len(s.said) + j = PassedOn(r) + i
      BY <1>16, <3>1, <3>2
    <3> QED BY <1>12, <3>1, <3>3
  <2> QED BY <2>1, <2>2
<1>19. DOMAIN rr = DOMAIN sinks /\ rr[k] = r /\ \A j \in DOMAIN sinks : j # k => rr[j] = sinks[j]
  BY <1>4
<1>20. Kept(disk, rr)
  <2>0. sinks \in Seq(SinkType)
    BY <1>3 DEF FilesOK
  <2>1. rr \in Seq(SinkType)
    BY <1>4, <1>10, <2>0
  <2>2. \A j \in DOMAIN rr : SinkOk(rr[j])
    BY <1>3, <1>9, <1>19 DEF BooksInv
  <2> QED BY <1>5, <2>1, <2>2 DEF Kept, Books
<1> HIDE DEF rr
<1>21. DiskOk(disk, rr)
  <2>1. ASSUME NEW j \in DOMAIN sinks
        PROVE  Grows(sinks[j], rr[j]) /\ OnDisk(rr[j]) = OnDisk(sinks[j])
    <3>1. CASE j = k
      BY <1>34, <1>17, <1>19, <3>1 DEF s
    <3>2. CASE j # k
      <4>1. sinks[j] \in SinkType /\ SinkOk(sinks[j])
        BY <1>3, OfSink
      <4> QED BY <1>19, <3>2, <4>1, GrowsSame
    <3> QED BY <3>1, <3>2
  <2>2. ASSUME NEW j \in DOMAIN rr, NEW i \in DOMAIN rr[j].unflushed
        PROVE  rr[j].unflushed[i] = ByteOf(j, PassedOn(rr[j]) + i)
    <3>1. CASE j = k
      BY <1>18, <1>19, <3>1
    <3>2. CASE j # k
      BY <1>3, <1>19, <3>2 DEF BooksInv, DiskOk
    <3> QED BY <3>1, <3>2
  <2> QED BY <1>3, <1>5, <1>19, <1>20, <2>1, <2>2, DiskSame DEF BooksInv
<1>22. CurrentFile(r) = CurrentFile(s) /\ CurrentFile(r) \in DOMAIN disk
  BY <1>5, <1>10 DEF CurrentFile, Last
<1>23. DiskOk(D, [rr EXCEPT ![k] = u])
  <2>1. k \in DOMAIN rr /\ rr[k] = r
    BY <1>4, <1>19
  <2> QED BY <1>14, <1>20, <1>21, <1>22, <2>1, DiskFlush
<1>24. [rr EXCEPT ![k] = u] = [sinks EXCEPT ![k] = u]
  BY DEF rr
<1>25. D \in [DOMAIN D -> Seq(Byte)] /\ DOMAIN D = DOMAIN disk
  BY <1>14, <1>3, <1>10, <1>22, FlushIs DEF FilesOK
<1>26. /\ u \in SinkType /\ u.files = r.files /\ u.said = r.said
       /\ u.starts = r.starts /\ u.dropped = r.dropped
  BY <1>14, <1>10, FlushedFields
<1>27. SinkOk(u)
  BY <1>14, <1>9, <1>10, FlushOk
<1>28. \A i \in DOMAIN u.files : u.files[i] \in DOMAIN D
  BY <1>3, <1>4, <1>10, <1>25, <1>26 DEF FilesOK, s
<1>29. /\ ended' \in Seq({"open", "closed", "lost"}) /\ Len(ended') = Len(sinks)
       /\ \A j \in DOMAIN sinks : j # k => ended'[j] = ended[j]
       /\ ended'[k] = "closed" => u.unflushed = <<>>
       /\ Intact(u)
  <2>1. Intact(u)
    BY <1>2, <1>10, <1>26 DEF Intact
  <2> QED BY <1>1, <1>3, <1>8, <2>1 DEF FilesOK
<1>30. DOMAIN D \subseteq FileName /\ DOMAIN disk \subseteq DOMAIN D
  BY <1>3, <1>25 DEF FilesOK
<1>31. disk' = D /\ sinks' = [sinks EXCEPT ![k] = u] /\ DiskOk(D, sinks')
  BY <1>14, <1>23, <1>24
<1> HIDE DEF u, D
<1>32. /\ FilesOK' /\ BooksInv' /\ DOMAIN sinks' = DOMAIN sinks /\ sinks'[k] = u
       /\ \A j \in DOMAIN sinks : j # k => sinks'[j] = sinks[j]
  BY <1>3, <1>4, <1>25, <1>26, <1>27, <1>28, <1>29, <1>30, <1>31, OneSink
<1>33. ASSUME NEW p \in DOMAIN r.said
       PROVE  (p \in DOMAIN s.said /\ r.said[p] = s.said[p]) \/ r.said[p] = m
  BY <1>4, <1>5, PutSaid DEF r
<1> QED BY <1>1, <1>4, <1>26, <1>32, <1>33 DEF k, s, m

(***************************************************************************)
(* The steps, one part of the invariant after the other                    *)
(***************************************************************************)

LEMMA FilesStep ==
  ASSUME IInv, [Next]_vars
  PROVE  FilesOK' /\ BooksInv'
<1>1. FilesOK /\ BooksInv
  BY DEF IInv, TypeOK, FilesOK
<1>2. CASE UNCHANGED files
  BY <1>1, <1>2 DEF files, FilesOK, BooksInv
<1>3. CASE Restart
  <2>1. disk' = disk /\ sinks' = sinks
    BY <1>3 DEF Restart
  <2>2. /\ ended' \in Seq({"open", "closed", "lost"}) /\ Len(ended') = Len(ended)
        /\ \A k \in DOMAIN ended : ended'[k] = "closed" <=> ended[k] = "closed"
    <3>1. ended \in Seq({"open", "closed", "lost"})
      BY <1>1 DEF FilesOK
    <3>2. ended' = [k \in DOMAIN ended |->
                      IF ended[k] = "open" THEN "lost" ELSE ended[k]]
      BY <1>3 DEF Restart
    <3>3. DOMAIN ended = 1..Len(ended) /\ Len(ended) \in Nat
      BY <3>1
    <3>4. \A k \in DOMAIN ended : ended'[k] \in {"open", "closed", "lost"}
      BY <3>1, <3>2
    <3> QED BY <3>2, <3>3, <3>4
  <2>3. DOMAIN ended = DOMAIN sinks
    BY <1>1 DEF FilesOK
  <2>4. FilesOK'
    BY <1>1, <2>1, <2>2 DEF FilesOK
  <2>5. BooksInv'
    BY <1>1, <2>1, <2>2, <2>3 DEF BooksInv
  <2> QED BY <2>4, <2>5
<1>4. ASSUME NEW t \in Thread, BuildSink(t)
      PROVE  FilesOK' /\ BooksInv'
  BY <1>4, BuildSinkFiles
<1>5. ASSUME NEW t \in Thread, CloseFull(t)
      PROVE  FilesOK' /\ BooksInv'
  BY <1>5, CloseFullFiles
<1>6. ASSUME NEW t \in Thread, Open(t)
      PROVE  FilesOK' /\ BooksInv'
  BY <1>6, OpenFiles
<1>7. ASSUME NEW t \in Thread, Write(t)
      PROVE  FilesOK' /\ BooksInv'
  BY <1>7, WriteFiles
<1>8. ASSUME NEW k \in DOMAIN sinks, CloseStream(k)
      PROVE  FilesOK' /\ BooksInv'
  BY <1>8, CloseStreamFiles
<1>9. CASE Crash \/ StartAgain
  BY <1>3, <1>9 DEF Crash, StartAgain
<1>10. CASE Tick \/ Exit \/ UNCHANGED vars
  BY <1>2, <1>10 DEF Tick, Exit, vars, files
<1>11. ASSUME NEW t \in Thread,
              \/ StartBuild(t) \/ Build(t) \/ HasLogger(t) \/ Insert(t) \/ GetLogger(t)
              \/ Say(t) \/ Lock(t) \/ SizeOk(t)
       PROVE  FilesOK' /\ BooksInv'
  BY <1>2, <1>11
     DEF StartBuild, Build, HasLogger, Insert, GetLogger, Say, Lock, SizeOk
<1> QED BY <1>4, <1>5, <1>6, <1>7, <1>8, <1>9, <1>10, <1>11 DEF Next

(* What the thread that writes does next. *)
LEMMA WriteMoves ==
  ASSUME NEW t \in Thread, Write(t)
  PROVE  /\ \/ /\ at[t] < Len(made[mine[t]])
               /\ at' = [at EXCEPT ![t] = at[t] + 1] /\ pc' = [pc EXCEPT ![t] = "size"]
               /\ next' = next /\ mutex' = mutex
            \/ /\ next' = [next EXCEPT ![t] = next[t] + 1]
               /\ pc' = [pc EXCEPT ![t] = "idle"]
               /\ mutex' = [mutex EXCEPT ![mine[t]] = None] /\ at' = at
         /\ pc[t] = "write"
         /\ UNCHANGED <<ended, clock, life, mine, made, registry>>
<1>1. CASE at[t] < Len(made[mine[t]])
  BY <1>1 DEF Write, Goto
<1>2. CASE ~(at[t] < Len(made[mine[t]]))
  BY <1>2 DEF Write, Goto
<1> QED BY <1>1, <1>2

LEMMA OthersWait ==
  ASSUME IInv, NEW t \in Thread, Write(t)
  PROVE  \A u \in Thread :
           u # t => pc'[u] = pc[u] /\ at'[u] = at[u] /\ next'[u] = next[u]
<1>1. /\ pc \in [Thread -> Pc] /\ next \in [Thread -> Nat \ {0}]
      /\ at \in [Thread -> Nat \ {0}]
  BY DEF IInv, TypeOK
<1> SUFFICES ASSUME NEW u \in Thread, u # t
             PROVE  pc'[u] = pc[u] /\ at'[u] = at[u] /\ next'[u] = next[u]
  OBVIOUS
<1>2. pc'[u] = pc[u]
  BY <1>1, WriteMoves
<1>3. at'[u] = at[u]
  BY <1>1, WriteMoves
<1>4. next'[u] = next[u]
  BY <1>1, WriteMoves
<1> QED BY <1>2, <1>3, <1>4

(* The rest of TypeOK. *)
ThreadsOK ==
  /\ clock \in 1..Len(Times) /\ life \in 0..MaxRestarts
  /\ pc \in [Thread -> Pc] /\ next \in [Thread -> Nat \ {0}]
  /\ mine \in [Thread -> Thread \cup {None}] /\ at \in [Thread -> Nat \ {0}]
  /\ made \in [Thread -> Seq(Nat)]
  /\ mutex \in [Thread -> Thread \cup {None}]
  /\ registry \in [Name -> Thread \cup {None}]

LEMMA ThreadsStep ==
  ASSUME IInv, [Next]_vars
  PROVE  ThreadsOK'
<1>1. ThreadsOK
  BY DEF IInv, TypeOK, ThreadsOK
<1>2. CASE Tick
  BY <1>1, <1>2, LoggingAssumption DEF Tick, ThreadsOK
<1>3. ASSUME Restart, next' \in [Thread -> Nat \ {0}]
      PROVE  ThreadsOK'
  BY <1>1, <1>3, LoggingAssumption
     DEF Restart, ThreadsOK, AtStart, Nobody, NoNames, Pc
<1>4. CASE Crash
  <2>1. next' \in [Thread -> Nat \ {0}]
    BY <1>1, <1>4 DEF Crash, ThreadsOK
  <2> QED BY <1>3, <1>4, <2>1 DEF Crash
<1>5. CASE StartAgain
  <2>1. next' \in [Thread -> Nat \ {0}]
    BY <1>1, <1>5 DEF StartAgain, ThreadsOK
  <2> QED BY <1>3, <1>5, <2>1 DEF StartAgain
<1>6. CASE Exit
  BY <1>1, <1>6 DEF Exit, ThreadsOK, Pc
<1>7. ASSUME NEW k \in DOMAIN sinks, CloseStream(k)
      PROVE  ThreadsOK'
  BY <1>1, <1>7 DEF CloseStream, ThreadsOK
<1>8. CASE UNCHANGED vars
  BY <1>1, <1>8 DEF vars, ThreadsOK
<1>9. ASSUME NEW t \in Thread, BuildSink(t)
      PROVE  ThreadsOK'
  <2>1. Len(sinks) + 1 \in Nat
    BY <1>9, BuildSinkFiles
  <2>2. Append(made[t], Len(sinks) + 1) \in Seq(Nat)
    BY <1>1, <2>1 DEF ThreadsOK
  <2> QED BY <1>1, <1>9, <2>2 DEF BuildSink, ThreadsOK
<1>10. ASSUME NEW t \in Thread,
              StartBuild(t) \/ HasLogger(t) \/ SizeOk(t) \/ CloseFull(t) \/ Open(t)
       PROVE  ThreadsOK'
  BY <1>1, <1>10
     DEF StartBuild, HasLogger, SizeOk, CloseFull, Open, Goto, ThreadsOK, Pc
<1>11. ASSUME NEW t \in Thread, Build(t)
       PROVE  ThreadsOK'
  BY <1>1, <1>11 DEF Build, Goto, ThreadsOK, Pc
<1>12. ASSUME NEW t \in Thread, Insert(t)
       PROVE  ThreadsOK'
  BY <1>1, <1>12 DEF Insert, Goto, ThreadsOK, Pc
<1>13. ASSUME NEW t \in Thread, GetLogger(t)
       PROVE  ThreadsOK'
  BY <1>1, <1>13, LoggingAssumption DEF GetLogger, Goto, ThreadsOK, Pc
<1>14. ASSUME NEW t \in Thread, Say(t)
       PROVE  ThreadsOK'
  <2>1. next[t] + 1 \in Nat \ {0}
    BY <1>1 DEF ThreadsOK
  <2>2. next' \in [Thread -> Nat \ {0}]
    BY <1>1, <1>14, <2>1 DEF Say, ThreadsOK
  <2>3. pc' \in [Thread -> Pc]
    BY <1>1, <1>14 DEF Say, Goto, ThreadsOK, Pc
  <2> QED BY <1>1, <1>14, <2>2, <2>3 DEF Say, ThreadsOK
<1>15. ASSUME NEW t \in Thread, Lock(t)
       PROVE  ThreadsOK'
  <2>1. at' \in [Thread -> Nat \ {0}] /\ pc' \in [Thread -> Pc]
    BY <1>1, <1>15 DEF Lock, Goto, ThreadsOK, Pc
  <2>2. mutex' \in [Thread -> Thread \cup {None}]
    BY <1>1, <1>15 DEF Lock, ThreadsOK
  <2> QED BY <1>1, <1>15, <2>1, <2>2 DEF Lock, ThreadsOK
<1>16. ASSUME NEW t \in Thread, Write(t)
       PROVE  ThreadsOK'
  <2>1. next[t] + 1 \in Nat \ {0} /\ at[t] + 1 \in Nat \ {0}
    BY <1>1 DEF ThreadsOK
  <2>2. next' \in [Thread -> Nat \ {0}] /\ at' \in [Thread -> Nat \ {0}]
    <3>1. next \in [Thread -> Nat \ {0}] /\ at \in [Thread -> Nat \ {0}]
      BY <1>1 DEF ThreadsOK
    <3>2. next' = next \/ next' = [next EXCEPT ![t] = next[t] + 1]
      BY <1>16, WriteMoves
    <3>3. at' = at \/ at' = [at EXCEPT ![t] = at[t] + 1]
      BY <1>16, WriteMoves
    <3>4. next' \in [Thread -> Nat \ {0}]
      BY <2>1, <3>1, <3>2
    <3>5. at' \in [Thread -> Nat \ {0}]
      BY <2>1, <3>1, <3>3
    <3> QED BY <3>4, <3>5
  <2>3. pc' \in [Thread -> Pc]
    BY <1>1, <1>16, WriteMoves DEF ThreadsOK, Pc
  <2>4. mutex' \in [Thread -> Thread \cup {None}]
    BY <1>1, <1>16, WriteMoves DEF ThreadsOK
  <2>5. UNCHANGED <<clock, life, mine, made, registry>>
    BY <1>16, WriteMoves
  <2> QED BY <1>1, <2>2, <2>3, <2>4, <2>5 DEF ThreadsOK
<1> QED BY <1>2, <1>4, <1>5, <1>6, <1>7, <1>8, <1>9, <1>10, <1>11, <1>12, <1>13,
           <1>14, <1>15, <1>16 DEF Next

(* A thread that does not exit takes no sink from another.                 *)
LEMMA MadeSame ==
  ASSUME MadeInv, made' = made, ended' = ended, DOMAIN sinks' = DOMAIN sinks,
         \A t \in Thread : pc'[t] = "exit" <=> pc[t] = "exit"
  PROVE  MadeInv'
  BY DEF MadeInv

LEMMA MadeStep ==
  ASSUME IInv, [Next]_vars
  PROVE  MadeInv'
<1>1. MadeInv /\ FilesOK /\ pc \in [Thread -> Pc] /\ made \in [Thread -> Seq(Nat)]
  BY DEF IInv, TypeOK, FilesOK
<1>2. CASE Tick \/ UNCHANGED vars
  BY <1>1, <1>2, MadeSame DEF Tick, files, vars
<1>3. CASE Crash \/ StartAgain
  <2>1. /\ pc' = [t \in Thread |-> "start"] /\ made' = [t \in Thread |-> <<>>]
    BY <1>3 DEF Crash, StartAgain, Restart, AtStart
  <2> QED BY <2>1 DEF MadeInv
<1>4. CASE Exit
  <2>1. /\ pc' = [t \in Thread |-> "exit"] /\ made' = made /\ sinks' = sinks
    BY <1>4 DEF Exit, files
  <2> QED BY <1>1, <2>1 DEF MadeInv
<1>5. ASSUME NEW k \in DOMAIN sinks, CloseStream(k)
      PROVE  MadeInv'
  <2>1. /\ pc' = pc /\ made' = made /\ DOMAIN sinks' = DOMAIN sinks
        /\ \A t \in Thread : pc[t] = "exit"
    BY <1>5, CloseStreamFiles DEF CloseStream
  <2> QED BY <1>1, <2>1 DEF MadeInv
<1>6. ASSUME NEW t \in Thread, BuildSink(t)
      PROVE  MadeInv'
  <2> DEFINE l == Len(sinks)
             ms == made[t]
  <2>1. /\ pc[t] = "build" /\ Len(ms) < Len(Kinds[t]) /\ pc' = pc
        /\ made' = [made EXCEPT ![t] = Append(ms, l + 1)]
    BY <1>6 DEF BuildSink
  <2>2. /\ l \in Nat /\ DOMAIN sinks = 1..l /\ DOMAIN sinks' = 1..(l + 1)
        /\ \A j \in DOMAIN sinks : ended'[j] = ended[j]
        /\ ended'[l + 1] = "open"
    BY <1>6, BuildSinkFiles
  <2> HIDE DEF l
  <2>3. ms \in Seq(Nat) /\ Len(ms) \in Nat /\ DOMAIN ms = 1..Len(ms)
    BY <1>1
  <2>4. /\ made'[t] = Append(ms, l + 1)
        /\ \A u \in Thread : u # t => made'[u] = made[u]
    BY <1>1, <2>1
  <2> HIDE DEF ms
  <2>5. /\ Len(made'[t]) = Len(ms) + 1 /\ made'[t][Len(ms) + 1] = l + 1
        /\ DOMAIN made'[t] = 1..(Len(ms) + 1)
        /\ \A i \in DOMAIN ms : made'[t][i] = ms[i]
    BY <2>2, <2>3, <2>4
  <2>6. ASSUME NEW u \in Thread, NEW i \in DOMAIN made'[u]
        PROVE  \/ i \in DOMAIN made[u] /\ made'[u][i] = made[u][i]
               \/ u = t /\ i = Len(ms) + 1 /\ made'[u][i] = l + 1
    <3>1. CASE u # t
      BY <2>4, <3>1
    <3>2. CASE u = t
      <4>1. i \in 1..(Len(ms) + 1)
        BY <2>5, <3>2
      <4>2. i \in DOMAIN ms \/ i = Len(ms) + 1
        BY <2>3, <4>1
      <4> QED BY <2>5, <3>2, <4>2 DEF ms
    <3> QED BY <3>1, <3>2
  <2>7. ASSUME NEW u \in Thread, NEW i \in DOMAIN made[u]
        PROVE  made[u][i] \in DOMAIN sinks /\ made[u][i] # l + 1
    BY <1>1, <2>2 DEF MadeInv
  <2>8. \A u \in Thread : Len(made'[u]) <= Len(Kinds[u])
    <3>1. Len(made'[t]) <= Len(Kinds[t])
      <4>1. Len(Kinds[t]) \in Nat
        BY LoggingAssumption
      <4> QED BY <2>1, <2>3, <2>5, <4>1
    <3> QED BY <1>1, <2>4, <3>1 DEF MadeInv
  <2>9. ASSUME NEW u \in Thread, NEW i \in DOMAIN made'[u]
        PROVE  /\ made'[u][i] \in DOMAIN sinks'
               /\ pc'[u] # "exit" => ended'[made'[u][i]] = "open"
    <3>1. CASE i \in DOMAIN made[u] /\ made'[u][i] = made[u][i]
      <4>1. made[u][i] \in DOMAIN sinks /\ made[u][i] \in DOMAIN sinks'
        BY <2>2, <2>7, <3>1
      <4>2. pc[u] # "exit" => ended[made[u][i]] = "open"
        BY <1>1, <3>1 DEF MadeInv
      <4> QED BY <2>1, <2>2, <3>1, <4>1, <4>2
    <3>2. CASE made'[u][i] = l + 1
      BY <2>2, <3>2
    <3> QED BY <2>6, <3>1, <3>2
  <2>10. ASSUME NEW u \in Thread, NEW v \in Thread,
                NEW i \in DOMAIN made'[u], NEW j \in DOMAIN made'[v],
                made'[u][i] = made'[v][j]
         PROVE  u = v /\ i = j
    <3>1. CASE i \in DOMAIN made[u] /\ made'[u][i] = made[u][i]
      <4>1. j \in DOMAIN made[v] /\ made'[v][j] = made[v][j]
        BY <2>6, <2>7, <2>10, <3>1
      <4>2. made[u][i] = made[v][j]
        BY <2>10, <3>1, <4>1
      <4> QED BY <1>1, <3>1, <4>1, <4>2 DEF MadeInv
    <3>2. CASE u = t /\ i = Len(ms) + 1 /\ made'[u][i] = l + 1
      BY <2>6, <2>7, <2>10, <3>2
    <3> QED BY <2>6, <3>1, <3>2
  <2> QED BY <1>1, <2>1, <2>8, <2>9, <2>10 DEF MadeInv
<1>7. ASSUME NEW t \in Thread, NEW x \in Pc, x # "exit", pc[t] # "exit",
             pc' = pc \/ pc' = [pc EXCEPT ![t] = x],
             made' = made, ended' = ended, DOMAIN sinks' = DOMAIN sinks
      PROVE  MadeInv'
  BY <1>1, <1>7, MadeSame
<1>8. ASSUME NEW t \in Thread,
             \/ StartBuild(t) \/ Build(t) \/ HasLogger(t) \/ Insert(t) \/ GetLogger(t)
             \/ Say(t) \/ Lock(t) \/ SizeOk(t)
      PROVE  MadeInv'
  <2>1. /\ pc[t] # "exit" /\ made' = made /\ ended' = ended
        /\ DOMAIN sinks' = DOMAIN sinks
    BY <1>8 DEF StartBuild, Build, HasLogger, Insert, GetLogger, Say, Lock, SizeOk, files
  <2>2. \E x \in Pc : x # "exit" /\ (pc' = pc \/ pc' = [pc EXCEPT ![t] = x])
    <3>1. \/ pc' = pc
          \/ \E x \in {"build", "has", "insert", "idle", "lock", "size", "write"} :
               pc' = [pc EXCEPT ![t] = x]
      BY <1>8 DEF StartBuild, Build, HasLogger, Insert, GetLogger, Say, Lock, SizeOk,
                  Goto
    <3> QED BY <3>1 DEF Pc
  <2> QED BY <1>7, <2>1, <2>2
<1>9. ASSUME NEW t \in Thread, CloseFull(t)
      PROVE  MadeInv'
  <2>1. pc[t] # "exit" /\ made' = made /\ ended' = ended /\ pc' = [pc EXCEPT ![t] = "open"]
    BY <1>9 DEF CloseFull, Goto
  <2>2. DOMAIN sinks' = DOMAIN sinks
    BY <1>9, CloseFullFiles
  <2> QED BY <1>7, <2>1, <2>2 DEF Pc
<1>10. ASSUME NEW t \in Thread, Open(t)
       PROVE  MadeInv'
  <2>1. pc[t] # "exit" /\ made' = made /\ ended' = ended /\ pc' = [pc EXCEPT ![t] = "write"]
    BY <1>10 DEF Open, Goto
  <2>2. DOMAIN sinks' = DOMAIN sinks
    BY <1>10, OpenFiles
  <2> QED BY <1>7, <2>1, <2>2 DEF Pc
<1>11. ASSUME NEW t \in Thread, Write(t)
       PROVE  MadeInv'
  <2>1. /\ pc[t] # "exit" /\ made' = made /\ ended' = ended
        /\ pc' = [pc EXCEPT ![t] = "size"] \/ pc' = [pc EXCEPT ![t] = "idle"]
    BY <1>11, WriteMoves
  <2>2. DOMAIN sinks' = DOMAIN sinks
    BY <1>11, WriteFiles
  <2> QED BY <1>7, <2>1, <2>2 DEF Pc
<1> QED BY <1>2, <1>3, <1>4, <1>5, <1>6, <1>8, <1>9, <1>10, <1>11 DEF Next

LEMMA LoggerStep ==
  ASSUME IInv, [Next]_vars
  PROVE  LoggerInv'
<1>1. /\ LoggerInv /\ pc \in [Thread -> Pc] /\ next \in [Thread -> Nat \ {0}]
      /\ mine \in [Thread -> Thread \cup {None}] /\ at \in [Thread -> Nat \ {0}]
      /\ made \in [Thread -> Seq(Nat)] /\ registry \in [Name -> Thread \cup {None}]
  BY DEF IInv, TypeOK
<1>2. None \notin Thread /\ NameOf \in [Thread -> Name]
  BY LoggingAssumption
<1>3. CASE Tick \/ UNCHANGED vars
  BY <1>1, <1>3 DEF Tick, files, vars, LoggerInv, Built
<1>4. CASE Crash \/ StartAgain
  <2>1. /\ pc' = [t \in Thread |-> "start"] /\ mine' = [t \in Thread |-> None]
        /\ registry' = [n \in Name |-> None]
    BY <1>4 DEF Crash, StartAgain, Restart, AtStart, Nobody, NoNames
  <2> QED BY <2>1 DEF LoggerInv, Writing
<1>5. CASE Exit
  <2>1. /\ pc' = [t \in Thread |-> "exit"]
        /\ UNCHANGED <<mine, registry, made>>
    BY <1>5 DEF Exit
  <2> QED BY <1>1, <2>1 DEF LoggerInv, Writing, Built
<1>6. ASSUME NEW k \in DOMAIN sinks, CloseStream(k)
      PROVE  LoggerInv'
  BY <1>1, <1>6 DEF CloseStream, LoggerInv, Built
<1>7. ASSUME NEW t \in Thread, BuildSink(t)
      PROVE  LoggerInv'
  <2>1. /\ pc[t] = "build" /\ Len(made[t]) < Len(Kinds[t])
        /\ \A u \in Thread : u # t => made'[u] = made[u]
        /\ UNCHANGED <<pc, next, mine, at, registry>>
    BY <1>1, <1>7 DEF BuildSink
  <2>2. ~Built(t)
    BY <1>1, <2>1, LoggingAssumption DEF Built
  <2>3. \A u \in Thread : Built(u) => u # t /\ Built(u)'
    BY <2>1, <2>2 DEF Built
  <2> QED BY <1>1, <1>2, <2>1, <2>3 DEF LoggerInv, Writing
<1>8. ASSUME NEW t \in Thread, StartBuild(t)
      PROVE  LoggerInv'
  BY <1>1, <1>8 DEF StartBuild, Goto, LoggerInv, Built, Writing
<1>9. ASSUME NEW t \in Thread, Build(t)
      PROVE  LoggerInv'
  BY <1>1, <1>2, <1>9 DEF Build, Goto, LoggerInv, Built, Writing
<1>10. ASSUME NEW t \in Thread, HasLogger(t)
       PROVE  LoggerInv'
  BY <1>1, <1>10 DEF HasLogger, Goto, LoggerInv, Built, Writing
<1>11. ASSUME NEW t \in Thread, Insert(t)
       PROVE  LoggerInv'
  <2>1. /\ pc[t] = "insert" /\ pc' = [pc EXCEPT ![t] = "idle"]
        /\ registry' = [registry EXCEPT ![NameOf[t]] =
                          IF registry[NameOf[t]] = None THEN t ELSE registry[NameOf[t]]]
        /\ UNCHANGED <<next, mine, at, made>>
    BY <1>11 DEF Insert, Goto
  <2>2. Built(t)
    BY <1>1, <1>2, <2>1 DEF LoggerInv
  <2>3. ASSUME NEW n \in Name, registry'[n] # None
        PROVE  Built(registry'[n])
    <3>1. registry'[n] = t \/ registry'[n] = registry[n]
      BY <1>1, <2>1
    <3> QED BY <1>1, <2>2, <2>3, <3>1 DEF LoggerInv
  <2> QED BY <1>1, <2>1, <2>3 DEF LoggerInv, Built, Writing
<1>12. ASSUME NEW t \in Thread, GetLogger(t)
       PROVE  LoggerInv'
  BY <1>1, <1>2, <1>12 DEF GetLogger, Goto, LoggerInv, Built, Writing
<1>13. ASSUME NEW t \in Thread, Say(t)
       PROVE  LoggerInv'
  BY <1>1, <1>13 DEF Say, Goto, LoggerInv, Built, Writing
<1>14. ASSUME NEW t \in Thread, Lock(t)
       PROVE  LoggerInv'
  <2>1. /\ pc[t] = "lock" /\ pc' = [pc EXCEPT ![t] = "size"]
        /\ at' = [at EXCEPT ![t] = 1] /\ UNCHANGED <<next, mine, made, registry>>
    BY <1>14 DEF Lock, Goto
  <2>2. mine[t] \in Thread /\ Built(mine[t])
    BY <1>1, <2>1 DEF LoggerInv
  <2>3. Kinds[mine[t]] \in Seq(SinkKind) /\ Kinds[mine[t]] # <<>>
    BY <2>2, LoggingAssumption
  <2>4. 1 <= Len(made[mine[t]])
    BY <2>2, <2>3 DEF Built
  <2>5. \A u \in Thread : u # t => pc'[u] = pc[u] /\ at'[u] = at[u]
    BY <1>1, <2>1
  <2>6. pc'[t] = "size" /\ at'[t] = 1
    BY <1>1, <2>1
  <2> QED BY <1>1, <2>1, <2>4, <2>5, <2>6 DEF LoggerInv, Built, Writing
<1>15. ASSUME NEW t \in Thread, SizeOk(t) \/ CloseFull(t) \/ Open(t)
       PROVE  LoggerInv'
  BY <1>1, <1>15 DEF SizeOk, CloseFull, Open, Goto, LoggerInv, Built, Writing
<1>16. ASSUME NEW t \in Thread, Write(t)
       PROVE  LoggerInv'
  <2>1. pc[t] = "write" /\ UNCHANGED <<mine, made, registry>>
    BY <1>16, WriteMoves
  <2>2. \A u \in Thread :
          u # t => pc'[u] = pc[u] /\ at'[u] = at[u] /\ next'[u] = next[u]
    BY <1>16, OthersWait
  <2>3. \/ pc'[t] = "idle"
        \/ /\ pc'[t] = "size" /\ next'[t] = next[t]
           /\ at'[t] = at[t] + 1 /\ at[t] < Len(made[mine[t]])
    BY <1>1, <1>16, WriteMoves
  <2>4. mine[t] \in Thread /\ next[t] <= Len(Work[t])
    BY <1>1, <2>1 DEF LoggerInv, Writing
  <2>5. pc'[t] = "size" => at'[t] <= Len(made[mine[t]])
    <3>1. Len(made[mine[t]]) \in Nat /\ at[t] \in Nat
      BY <1>1, <2>4
    <3> QED BY <2>3, <3>1
  <2>6. /\ mine'[t] # None /\ pc'[t] \in {"idle", "size"}
        /\ pc'[t] = "size" => next'[t] <= Len(Work[t])
    BY <1>2, <2>1, <2>3, <2>4
  <2> QED BY <1>1, <2>1, <2>2, <2>5, <2>6 DEF LoggerInv, Built, Writing
<1> QED BY <1>3, <1>4, <1>5, <1>6, <1>7, <1>8, <1>9, <1>10, <1>11, <1>12, <1>13,
           <1>14, <1>15, <1>16 DEF Next

LEMMA MutexStep ==
  ASSUME IInv, [Next]_vars
  PROVE  MutexInv'
<1>1. /\ MutexInv /\ pc \in [Thread -> Pc] /\ mine \in [Thread -> Thread \cup {None}]
      /\ mutex \in [Thread -> Thread \cup {None}] /\ LoggerInv /\ None \notin Thread
  BY LoggingAssumption DEF IInv, TypeOK
<1>2. ASSUME NEW t \in Thread, pc[t] \in Writing
      PROVE  mine[t] \in Thread
  BY <1>2, Using
<1>3. CASE Tick \/ UNCHANGED vars
  BY <1>1, <1>3 DEF Tick, vars, MutexInv
<1>4. CASE Crash \/ StartAgain
  <2>1. pc' = [t \in Thread |-> "start"]
    BY <1>4 DEF Crash, StartAgain, Restart, AtStart
  <2> QED BY <2>1 DEF MutexInv, Writing
<1>5. CASE Exit
  <2>1. pc' = [t \in Thread |-> "exit"]
    BY <1>5 DEF Exit
  <2> QED BY <2>1 DEF MutexInv, Writing
<1>6. ASSUME NEW k \in DOMAIN sinks, CloseStream(k)
      PROVE  MutexInv'
  BY <1>1, <1>6 DEF CloseStream, MutexInv
<1>7. ASSUME NEW t \in Thread,
             \/ StartBuild(t) \/ BuildSink(t) \/ Build(t) \/ HasLogger(t) \/ Insert(t)
             \/ GetLogger(t) \/ Say(t)
      PROVE  MutexInv'
  <2>1. /\ \A u \in Thread : u # t => pc'[u] = pc[u] /\ mine'[u] = mine[u]
        /\ pc'[t] \notin Writing /\ mutex' = mutex
    BY <1>1, <1>7 DEF StartBuild, BuildSink, Build, HasLogger, Insert, GetLogger, Say,
                      Goto, Writing
  <2> QED BY <1>1, <2>1 DEF MutexInv
<1>8. ASSUME NEW t \in Thread, Lock(t)
      PROVE  MutexInv'
  <2>1. /\ pc[t] = "lock" /\ mutex[mine[t]] = None
        /\ mutex' = [mutex EXCEPT ![mine[t]] = t]
        /\ \A u \in Thread : u # t => pc'[u] = pc[u]
        /\ mine' = mine
    BY <1>1, <1>8 DEF Lock, Goto
  <2>2. mine[t] \in Thread
    BY <1>1, <2>1 DEF LoggerInv
  <2>3. mutex'[mine[t]] = t
    BY <1>1, <2>1, <2>2
  <2>4. ASSUME NEW u \in Thread, u # t, pc'[u] \in Writing
        PROVE  mutex'[mine[u]] = u
    <3>1. mine[u] \in Thread /\ mutex[mine[u]] = u
      BY <1>1, <1>2, <2>1, <2>4 DEF MutexInv
    <3>2. mine[u] # mine[t]
      BY <1>1, <2>1, <3>1
    <3> QED BY <1>1, <2>1, <3>1, <3>2
  <2> QED BY <2>1, <2>3, <2>4 DEF MutexInv
<1>9. ASSUME NEW t \in Thread, SizeOk(t) \/ CloseFull(t) \/ Open(t)
      PROVE  MutexInv'
  <2>1. /\ \A u \in Thread : u # t => pc'[u] = pc[u]
        /\ pc[t] \in Writing /\ mutex' = mutex /\ mine' = mine
    BY <1>1, <1>9 DEF SizeOk, CloseFull, Open, Goto, Writing
  <2> QED BY <1>1, <2>1 DEF MutexInv
<1>10. ASSUME NEW t \in Thread, Write(t)
       PROVE  MutexInv'
  <2>1. /\ \A u \in Thread : u # t => pc'[u] = pc[u]
        /\ pc[t] \in Writing /\ mine' = mine
    BY <1>1, <1>10, WriteMoves DEF Writing
  <2>2. CASE mutex' = mutex
    BY <1>1, <2>1, <2>2 DEF MutexInv
  <2>3. CASE pc' = [pc EXCEPT ![t] = "idle"] /\ mutex' = [mutex EXCEPT ![mine[t]] = None]
    <3>1. mine[t] \in Thread /\ mutex[mine[t]] = t /\ pc'[t] \notin Writing
      BY <1>1, <1>2, <2>1, <2>3 DEF MutexInv, Writing
    <3>2. ASSUME NEW u \in Thread, u # t, pc[u] \in Writing
          PROVE  mutex'[mine[u]] = u
      <4>1. mine[u] \in Thread /\ mutex[mine[u]] = u
        BY <1>1, <1>2, <3>2 DEF MutexInv
      <4>2. mine[u] # mine[t]
        BY <3>1, <3>2, <4>1
      <4> QED BY <1>1, <2>3, <4>1, <4>2
    <3> QED BY <2>1, <3>1, <3>2 DEF MutexInv
  <2> QED BY <1>10, <2>2, <2>3, WriteMoves
<1> QED BY <1>3, <1>4, <1>5, <1>6, <1>7, <1>8, <1>9, <1>10 DEF Next

(* A thread that is at a sink and does not move on finds it unchanged.     *)
LEMMA SizeSame ==
  ASSUME IInv, NEW u \in Thread, pc'[u] \in {"open", "write"}, pc'[u] = pc[u],
         mine'[u] = mine[u], at'[u] = at[u], made'[mine[u]] = made[mine[u]],
         Sink(u) \in DOMAIN sinks => sinks'[Sink(u)] = sinks[Sink(u)]
  PROVE  /\ pc'[u] = "open" => IsFull(sinks[Sink(u)])' /\ sinks'[Sink(u)'].unflushed = <<>>
         /\ pc'[u] = "write" => ~IsFull(sinks[Sink(u)])'
<1>1. Sink(u)' = Sink(u)
  BY DEF Sink
<1>2. Sink(u) \in DOMAIN sinks
  BY Using DEF Writing
<1>3. sinks'[Sink(u)'] = sinks[Sink(u)]
  BY <1>1, <1>2
<1>4. IsFull(sinks[Sink(u)])' = IsFull(sinks[Sink(u)])
  BY <1>3 DEF IsFull
<1> QED BY <1>3, <1>4 DEF IInv, SizeInv

LEMMA SizeStep ==
  ASSUME IInv, [Next]_vars
  PROVE  SizeInv'
<1>1. /\ SizeInv /\ LoggerInv /\ pc \in [Thread -> Pc]
      /\ mine \in [Thread -> Thread \cup {None}] /\ at \in [Thread -> Nat \ {0}]
      /\ made \in [Thread -> Seq(Nat)]
  BY DEF IInv, TypeOK
<1> DEFINE Ok(u) ==
      /\ pc[u] = "open" => IsFull(sinks[Sink(u)]) /\ sinks[Sink(u)].unflushed = <<>>
      /\ pc[u] = "write" => ~IsFull(sinks[Sink(u)])
<1>2. SizeInv' <=> \A u \in Thread : Ok(u)'
  BY DEF SizeInv
<1>3. ASSUME NEW u \in Thread, pc'[u] = pc[u], mine'[u] = mine[u], at'[u] = at[u],
             pc[u] \in Writing =>
               made'[mine[u]] = made[mine[u]] /\ sinks'[Sink(u)] = sinks[Sink(u)]
      PROVE  Ok(u)'
  BY <1>3, SizeSame DEF Writing
<1>4. CASE Tick \/ UNCHANGED vars
  <2>1. UNCHANGED <<pc, mine, at, made, sinks>>
    BY <1>4 DEF Tick, files, vars
  <2> QED BY <1>2, <1>3, <2>1
<1>5. CASE Crash \/ StartAgain \/ Exit
  <2>1. \A t \in Thread : pc'[t] \in {"start", "exit"}
    BY <1>5 DEF Crash, StartAgain, Restart, AtStart, Exit
  <2> QED BY <1>2, <2>1
<1>6. ASSUME NEW k \in DOMAIN sinks, CloseStream(k)
      PROVE  SizeInv'
  <2>1. \A t \in Thread : pc'[t] = "exit"
    BY <1>6 DEF CloseStream
  <2> QED BY <1>2, <2>1
<1>7. ASSUME NEW t \in Thread, BuildSink(t)
      PROVE  SizeInv'
  <2>1. /\ pc[t] = "build" /\ Len(made[t]) < Len(Kinds[t])
        /\ \A u \in Thread : u # t => made'[u] = made[u]
        /\ UNCHANGED <<pc, mine, at>>
    BY <1>1, <1>7 DEF BuildSink
  <2>2. ~Built(t)
    BY <1>1, <2>1, LoggingAssumption DEF Built
  <2>3. ASSUME NEW u \in Thread, pc[u] \in Writing
        PROVE  made'[mine[u]] = made[mine[u]] /\ sinks'[Sink(u)] = sinks[Sink(u)]
    <3>1. mine[u] \in Thread /\ Sink(u) \in DOMAIN sinks
      BY <2>3, Using
    <3>2. Built(mine[u])
      BY <1>1, <3>1, LoggingAssumption DEF LoggerInv
    <3> QED BY <1>7, <2>1, <2>2, <3>1, <3>2, BuildSinkFiles
  <2> QED BY <1>2, <1>3, <2>1, <2>3
<1>8. ASSUME NEW t \in Thread,
             \/ StartBuild(t) \/ Build(t) \/ HasLogger(t) \/ Insert(t) \/ GetLogger(t)
             \/ Say(t) \/ Lock(t)
      PROVE  SizeInv'
  <2>1. /\ \A u \in Thread : u # t => /\ pc'[u] = pc[u] /\ mine'[u] = mine[u]
                                      /\ at'[u] = at[u]
        /\ pc'[t] \notin {"open", "write"} /\ sinks' = sinks /\ made' = made
    BY <1>1, <1>8 DEF StartBuild, Build, HasLogger, Insert, GetLogger, Say, Lock, Goto,
                      files
  <2> QED BY <1>2, <1>3, <2>1
<1>9. ASSUME NEW t \in Thread, pc[t] \in Writing,
             \A u \in Thread : u # t => pc'[u] = pc[u] /\ at'[u] = at[u],
             mine' = mine, made' = made,
             \A k \in DOMAIN sinks : k # Sink(t) => sinks'[k] = sinks[k],
             Ok(t)'
      PROVE  SizeInv'
  <2>1. ASSUME NEW u \in Thread, u # t, pc[u] \in Writing
        PROVE  sinks'[Sink(u)] = sinks[Sink(u)]
    BY <1>9, <2>1, Using, Exclusive
  <2> QED BY <1>2, <1>3, <1>9, <2>1
<1>10. ASSUME NEW t \in Thread, SizeOk(t)
       PROVE  SizeInv'
  <2>1. /\ pc[t] \in Writing /\ pc' = [pc EXCEPT ![t] = "write"] /\ sinks' = sinks
        /\ ~IsFull(sinks[Sink(t)]) /\ UNCHANGED <<mine, at, made>>
    BY <1>10 DEF SizeOk, Goto, Writing, files
  <2>2. pc'[t] = "write" /\ \A u \in Thread : u # t => pc'[u] = pc[u]
    BY <1>1, <2>1
  <2>3. Sink(t)' = Sink(t)
    BY <2>1 DEF Sink
  <2>4. Ok(t)'
    BY <2>1, <2>2, <2>3 DEF IsFull
  <2> QED BY <1>9, <2>1, <2>2, <2>4
<1>11. ASSUME NEW t \in Thread, CloseFull(t)
       PROVE  SizeInv'
  <2>1. /\ pc[t] \in Writing /\ pc' = [pc EXCEPT ![t] = "open"]
        /\ UNCHANGED <<mine, at, made>>
    BY <1>11 DEF CloseFull, Goto, Writing
  <2>2. pc'[t] = "open" /\ \A u \in Thread : u # t => pc'[u] = pc[u]
    BY <1>1, <2>1
  <2>3. Sink(t)' = Sink(t)
    BY <2>1 DEF Sink
  <2>4. /\ IsFull(sinks'[Sink(t)]) /\ sinks'[Sink(t)].unflushed = <<>>
        /\ \A k \in DOMAIN sinks : k # Sink(t) => sinks'[k] = sinks[k]
    BY <1>11, CloseFullFiles
  <2>5. Ok(t)'
    BY <2>2, <2>3, <2>4 DEF IsFull
  <2> QED BY <1>9, <2>1, <2>2, <2>4, <2>5
<1>12. ASSUME NEW t \in Thread, Open(t)
       PROVE  SizeInv'
  <2>1. /\ pc[t] \in Writing /\ pc' = [pc EXCEPT ![t] = "write"]
        /\ UNCHANGED <<mine, at, made>>
    BY <1>12 DEF Open, Goto, Writing
  <2>2. pc'[t] = "write" /\ \A u \in Thread : u # t => pc'[u] = pc[u]
    BY <1>1, <2>1
  <2>3. Sink(t)' = Sink(t)
    BY <2>1 DEF Sink
  <2>4. /\ ~IsFull(sinks'[Sink(t)])
        /\ \A k \in DOMAIN sinks : k # Sink(t) => sinks'[k] = sinks[k]
    BY <1>12, OpenFiles
  <2>5. Ok(t)'
    BY <2>2, <2>3, <2>4 DEF IsFull
  <2> QED BY <1>9, <2>1, <2>2, <2>4, <2>5
<1>13. ASSUME NEW t \in Thread, Write(t)
       PROVE  SizeInv'
  <2>1. /\ pc[t] \in Writing /\ pc'[t] \in {"size", "idle"} /\ mine' = mine /\ made' = made
        /\ \A u \in Thread : u # t => pc'[u] = pc[u] /\ at'[u] = at[u]
    BY <1>1, <1>13, WriteMoves DEF Writing
  <2>2. \A k \in DOMAIN sinks : k # Sink(t) => sinks'[k] = sinks[k]
    BY <1>13, WriteFiles
  <2>3. Ok(t)'
    BY <2>1
  <2> QED BY <1>9, <2>1, <2>2, <2>3
<1> QED BY <1>4, <1>5, <1>6, <1>7, <1>8, <1>10, <1>11, <1>12, <1>13 DEF Next

(* No sink is told anything new, and no thread goes back.                  *)
LEMMA FreshSame ==
  ASSUME IInv,
         \A k \in DOMAIN sinks' : \A p \in DOMAIN sinks'[k].said :
           /\ k \in DOMAIN sinks /\ p \in DOMAIN sinks[k].said
           /\ sinks'[k].said[p] = sinks[k].said[p],
         \A u \in Thread : \/ next'[u] = next[u] /\ \A k \in Nat : HadTurn(u, k) => HadTurn(u, k)'
                           \/ next'[u] = next[u] + 1
  PROVE  FreshInv'
<1> SUFFICES ASSUME NEW k \in DOMAIN sinks', NEW p \in DOMAIN sinks'[k].said,
                    NEW u \in Thread, sinks'[k].said[p].by = u
             PROVE  \/ sinks'[k].said[p].no < next'[u]
                    \/ sinks'[k].said[p].no = next'[u] /\ HadTurn(u, k)'
  BY DEF FreshInv
<1> DEFINE m == sinks[k].said[p]
<1>1. k \in DOMAIN sinks /\ p \in DOMAIN sinks[k].said /\ sinks'[k].said[p] = m
  OBVIOUS
<1>2. k \in Nat /\ sinks[k].said \in Seq(MessageType)
  <2>1. FilesOK /\ BooksInv
    BY DEF IInv, TypeOK, FilesOK
  <2> QED BY <1>1, <2>1, OfSink, Fields
<1>3. m \in MessageType
  BY <1>1, <1>2
<1>4. m.no < next[u] \/ (m.no = next[u] /\ HadTurn(u, k))
  BY <1>1 DEF IInv, FreshInv
<1> HIDE DEF m
<1>5. m.no \in Nat /\ next[u] \in Nat
  BY <1>3 DEF MessageType, IInv, TypeOK
<1>6. CASE next'[u] = next[u] /\ (HadTurn(u, k) => HadTurn(u, k)')
  BY <1>1, <1>4, <1>6
<1>7. CASE next'[u] = next[u] + 1
  <2>1. m.no < next'[u]
    BY <1>4, <1>5, <1>7
  <2> QED BY <1>1, <2>1
<1> QED BY <1>2, <1>6, <1>7

LEMMA FreshStep ==
  ASSUME IInv, [Next]_vars
  PROVE  FreshInv'
<1>1. /\ FreshInv /\ LoggerInv /\ pc \in [Thread -> Pc] /\ next \in [Thread -> Nat \ {0}]
      /\ mine \in [Thread -> Thread \cup {None}] /\ at \in [Thread -> Nat \ {0}]
      /\ made \in [Thread -> Seq(Nat)] /\ None \notin Thread
  BY LoggingAssumption DEF IInv, TypeOK
<1> DEFINE SaidSame == \A k \in DOMAIN sinks' : \A p \in DOMAIN sinks'[k].said :
                         /\ k \in DOMAIN sinks /\ p \in DOMAIN sinks[k].said
                         /\ sinks'[k].said[p] = sinks[k].said[p]
           Kept1(u) == \/ next'[u] = next[u] /\ \A k \in Nat : HadTurn(u, k) => HadTurn(u, k)'
                       \/ next'[u] = next[u] + 1
<1>2. ASSUME SaidSame, \A u \in Thread : Kept1(u)
      PROVE  FreshInv'
  BY <1>2, FreshSame
<1>3. ASSUME sinks' = sinks
      PROVE  SaidSame
  BY <1>3
<1>4. ASSUME NEW u \in Thread, next'[u] = next[u],
             pc[u] \in Writing => /\ pc'[u] \in Writing /\ at'[u] = at[u]
                                  /\ mine'[u] = mine[u]
                                  /\ made'[mine[u]] = made[mine[u]]
      PROVE  Kept1(u)
  BY <1>4 DEF HadTurn
<1> HIDE DEF SaidSame, Kept1
<1>5. CASE Tick \/ UNCHANGED vars
  <2>1. UNCHANGED <<pc, next, mine, at, made, sinks>>
    BY <1>5 DEF Tick, files, vars
  <2> QED BY <1>2, <1>3, <1>4, <2>1
<1>6. CASE Crash
  <2>1. sinks' = sinks
    BY <1>6 DEF Crash, Restart
  <2>2. ASSUME NEW u \in Thread
        PROVE  Kept1(u)
    <3>1. CASE pc[u] \in {"lock", "size", "open", "write"}
      BY <1>6, <3>1 DEF Crash, Kept1
    <3>2. CASE pc[u] \notin {"lock", "size", "open", "write"}
      BY <1>4, <1>6, <3>2 DEF Crash, Writing
    <3> QED BY <3>1, <3>2
  <2> QED BY <1>2, <1>3, <2>1, <2>2
<1>7. CASE Exit
  <2>1. sinks' = sinks /\ next' = next /\ \A u \in Thread : pc[u] \notin Writing
    BY <1>7 DEF Exit, files, Writing
  <2> QED BY <1>2, <1>3, <1>4, <2>1
<1>8. CASE StartAgain
  <2>1. sinks' = sinks /\ next' = next /\ \A u \in Thread : pc[u] \notin Writing
    BY <1>8 DEF StartAgain, Restart, Writing
  <2> QED BY <1>2, <1>3, <1>4, <2>1
<1>9. ASSUME NEW k \in DOMAIN sinks, CloseStream(k)
      PROVE  FreshInv'
  <2>1. next' = next /\ \A u \in Thread : pc[u] \notin Writing
    BY <1>9 DEF CloseStream, Writing
  <2>2. SaidSame
    BY <1>9, CloseStreamFiles DEF SaidSame
  <2> QED BY <1>2, <1>4, <2>1, <2>2
<1>10. ASSUME NEW t \in Thread, BuildSink(t)
       PROVE  FreshInv'
  <2>1. /\ pc[t] = "build" /\ Len(made[t]) < Len(Kinds[t])
        /\ \A u \in Thread : u # t => made'[u] = made[u]
        /\ UNCHANGED <<pc, next, mine, at>>
    BY <1>1, <1>10 DEF BuildSink
  <2>2. ~Built(t)
    BY <1>1, <2>1, LoggingAssumption DEF Built
  <2>3. ASSUME NEW u \in Thread, pc[u] \in Writing
        PROVE  made'[mine[u]] = made[mine[u]]
    <3>1. mine[u] \in Thread
      BY <2>3, Using
    <3>2. Built(mine[u])
      BY <1>1, <3>1 DEF LoggerInv
    <3> QED BY <2>1, <2>2, <3>1, <3>2
  <2>4. SaidSame
    <3>1. /\ Len(sinks) \in Nat /\ DOMAIN sinks = 1..Len(sinks)
          /\ DOMAIN sinks' = 1..(Len(sinks) + 1)
          /\ \A j \in DOMAIN sinks : sinks'[j] = sinks[j]
          /\ sinks'[Len(sinks) + 1].said = <<>>
      BY <1>10, BuildSinkFiles
    <3>2. ASSUME NEW k \in DOMAIN sinks', NEW p \in DOMAIN sinks'[k].said
          PROVE  k \in DOMAIN sinks
      BY <3>1
    <3> QED BY <3>1, <3>2 DEF SaidSame
  <2> QED BY <1>2, <1>4, <2>1, <2>3, <2>4
<1>11. ASSUME NEW t \in Thread,
              \/ StartBuild(t) \/ Build(t) \/ HasLogger(t) \/ Insert(t) \/ GetLogger(t)
              \/ Lock(t)
       PROVE  FreshInv'
  <2>1. /\ \A u \in Thread : u # t => pc'[u] = pc[u] /\ mine'[u] = mine[u] /\ at'[u] = at[u]
        /\ pc[t] \notin Writing /\ sinks' = sinks /\ made' = made /\ next' = next
    BY <1>1, <1>11 DEF StartBuild, Build, HasLogger, Insert, GetLogger, Lock, Goto,
                       files, Writing
  <2> QED BY <1>2, <1>3, <1>4, <2>1
<1>12. ASSUME NEW t \in Thread, Say(t)
       PROVE  FreshInv'
  <2>1. /\ \A u \in Thread : u # t => pc'[u] = pc[u] /\ next'[u] = next[u]
        /\ next'[t] = next[t] \/ next'[t] = next[t] + 1
        /\ pc[t] \notin Writing /\ sinks' = sinks /\ UNCHANGED <<mine, at, made>>
    BY <1>1, <1>12 DEF Say, Goto, files, Writing
  <2>2. ASSUME NEW u \in Thread
        PROVE  Kept1(u)
    BY <1>4, <2>1 DEF Kept1
  <2> QED BY <1>2, <1>3, <2>1, <2>2
<1>13. ASSUME NEW t \in Thread, SizeOk(t) \/ CloseFull(t) \/ Open(t)
       PROVE  FreshInv'
  <2>1. /\ \A u \in Thread : pc[u] \in Writing => pc'[u] \in Writing
        /\ UNCHANGED <<next, mine, at, made>>
    BY <1>1, <1>13 DEF SizeOk, CloseFull, Open, Goto, Writing
  <2>2. SaidSame
    <3>1. CASE SizeOk(t)
      BY <1>3, <3>1 DEF SizeOk, files
    <3>2. CASE CloseFull(t)
      BY <3>2, CloseFullFiles DEF SaidSame
    <3>3. CASE Open(t)
      BY <3>3, OpenFiles DEF SaidSame
    <3> QED BY <1>13, <3>1, <3>2, <3>3
  <2> QED BY <1>2, <1>4, <2>1, <2>2
<1>14. ASSUME NEW t \in Thread, Write(t)
       PROVE  FreshInv'
  <2>1. /\ \A u \in Thread : u # t => pc'[u] = pc[u] /\ at'[u] = at[u] /\ next'[u] = next[u]
        /\ pc[t] = "write" /\ pc[t] \in Writing /\ UNCHANGED <<mine, made>>
    BY <1>14, WriteMoves, OthersWait DEF Writing
  <2>2. \/ next'[t] = next[t] + 1
        \/ next'[t] = next[t] /\ pc'[t] = "size" /\ at'[t] = at[t] + 1
    BY <1>1, <1>14, WriteMoves
  <2>3. at[t] \in Nat \ {0} /\ next[t] \in Nat
    BY <1>1
  <2>4. ASSUME NEW u \in Thread
        PROVE  Kept1(u)
    <3>1. CASE u # t
      BY <1>4, <2>1, <3>1
    <3>2. CASE u = t /\ next'[t] = next[t] + 1
      BY <3>2 DEF Kept1
    <3>3. CASE u = t /\ next'[t] = next[t] /\ pc'[t] = "size" /\ at'[t] = at[t] + 1
      <4>1. pc'[t] \in Writing /\ 1..(at[t] - 1) \subseteq 1..(at'[t] - 1)
        BY <2>3, <3>3 DEF Writing
      <4>2. \A k \in Nat : HadTurn(t, k) => HadTurn(t, k)'
        BY <2>1, <4>1 DEF HadTurn
      <4> QED BY <3>3, <4>2 DEF Kept1
    <3> QED BY <2>2, <3>1, <3>2, <3>3
  <2> SUFFICES ASSUME NEW k \in DOMAIN sinks', NEW p \in DOMAIN sinks'[k].said,
                      NEW u \in Thread, sinks'[k].said[p].by = u
               PROVE  \/ sinks'[k].said[p].no < next'[u]
                      \/ sinks'[k].said[p].no = next'[u] /\ HadTurn(u, k)'
    BY DEF FreshInv
  <2> DEFINE m == sinks'[k].said[p]
  <2>5. /\ k \in DOMAIN sinks
        /\ \/ p \in DOMAIN sinks[k].said /\ m = sinks[k].said[p]
           \/ k = Sink(t) /\ m = Message(t)
    BY <1>14, WriteFiles
  <2>6. CASE p \in DOMAIN sinks[k].said /\ m = sinks[k].said[p]
    <3>1. k \in Nat /\ sinks[k].said \in Seq(MessageType)
      <4>1. FilesOK /\ BooksInv
        BY DEF IInv, TypeOK, FilesOK
      <4> QED BY <2>5, <4>1, OfSink, Fields
    <3>2. m \in MessageType
      BY <2>6, <3>1
    <3>3. m.no < next[u] \/ (m.no = next[u] /\ HadTurn(u, k))
      <4> DEFINE o == sinks[k].said[p]
      <4>1. m = o /\ o.by = u
        BY <2>6
      <4>2. o.no < next[u] \/ (o.no = next[u] /\ HadTurn(u, k))
        BY <1>1, <2>5, <2>6, <4>1 DEF FreshInv
      <4> HIDE DEF m, o
      <4> QED BY <4>1, <4>2
    <3> HIDE DEF m
    <3>4. m.no \in Nat /\ next[u] \in Nat
      BY <1>1, <3>2 DEF MessageType
    <3>5. Kept1(u)
      BY <2>4
    <3>6. CASE next'[u] = next[u] /\ (HadTurn(u, k) => HadTurn(u, k)')
      BY <3>3, <3>6 DEF m
    <3>7. CASE next'[u] = next[u] + 1
      <4>1. m.no < next'[u]
        BY <3>3, <3>4, <3>7
      <4> QED BY <4>1 DEF m
    <3> QED BY <3>1, <3>5, <3>6, <3>7 DEF Kept1
  <2>7. CASE k = Sink(t) /\ m = Message(t)
    <3>1. u = t /\ m.no = next[t]
      BY <2>7 DEF Message
    <3>2. CASE next'[t] = next[t] + 1
      BY <2>3, <3>1, <3>2
    <3>3. CASE next'[t] = next[t] /\ pc'[t] = "size" /\ at'[t] = at[t] + 1
      <4>1. pc'[t] \in Writing /\ at[t] \in 1..(at'[t] - 1)
        BY <2>3, <3>3 DEF Writing
      <4>2. made'[mine'[t]][at[t]] = k
        BY <2>1, <2>7 DEF Sink
      <4>3. HadTurn(t, k)'
        BY <4>1, <4>2 DEF HadTurn
      <4> QED BY <3>1, <3>3, <4>3
    <3> QED BY <2>2, <3>2, <3>3
  <2> QED BY <2>5, <2>6, <2>7
<1> QED BY <1>5, <1>6, <1>7, <1>8, <1>9, <1>10, <1>11, <1>12, <1>13, <1>14 DEF Next

(***************************************************************************)
(* The theorems                                                            *)
(***************************************************************************)

(* Two threads are never at one sink, a thread finds the file it writes as *)
(* it left it, a sink is told each message once, its books of what is in   *)
(* which of its files are right, and so is the disk: whatever SyncLogger,  *)
(* the sinks and LoggerManager do, and wherever the process dies.          *)
THEOREM Invariance == Spec => []IInv
<1>1. Init => IInv
  <2> SUFFICES ASSUME Init PROVE IInv
    OBVIOUS
  <2>1. /\ disk = <<>> /\ clock = 1 /\ life = 0
        /\ pc = [t \in Thread |-> "start"] /\ next = [t \in Thread |-> 1]
        /\ mine = [t \in Thread |-> None] /\ at = [t \in Thread |-> 1]
        /\ made = [t \in Thread |-> <<>>] /\ mutex = [t \in Thread |-> None]
        /\ registry = [n \in Name |-> None] /\ sinks = <<>> /\ ended = <<>>
    BY DEF Init, AtStart, Nobody, NoNames
  <2>2. 1 \in 1..Len(Times) /\ 0 \in 0..MaxRestarts
    BY LoggingAssumption
  <2>3. FilesOK
    BY <2>1 DEF FilesOK
  <2>4. TypeOK
    BY <2>1, <2>2, <2>3 DEF FilesOK, TypeOK, Pc
  <2>5. MadeInv /\ LoggerInv /\ MutexInv /\ SizeInv /\ FreshInv
    BY <2>1, LoggingAssumption DEF MadeInv, LoggerInv, MutexInv, SizeInv, FreshInv, Writing
  <2>6. BooksInv
    BY <2>1 DEF BooksInv, DiskOk
  <2> QED BY <2>4, <2>5, <2>6 DEF IInv
<1>2. IInv /\ [Next]_vars => IInv'
  <2> SUFFICES ASSUME IInv, [Next]_vars PROVE IInv'
    OBVIOUS
  <2>1. TypeOK'
    BY FilesStep, ThreadsStep DEF FilesOK, ThreadsOK, TypeOK
  <2> QED BY <2>1, FilesStep, MadeStep, LoggerStep, MutexStep, SizeStep, FreshStep
          DEF IInv
<1> QED BY <1>1, <1>2, PTL DEF Spec

(* Every variable keeps its type, and every file of a sink exists.         *)
THEOREM TypeCorrect == Spec => []TypeOK
<1>1. IInv => TypeOK
  BY DEF IInv
<1> QED BY <1>1, Invariance, PTL

LEMMA NamesDiffer ==
  ASSUME NEW s \in SinkType, SinkOk(s), NEW i \in DOMAIN s.files, NEW j \in DOMAIN s.files,
         s.files[i] = s.files[j]
  PROVE  i = j
<1>1. Len(s.files) \in Nat \ {0} /\ DOMAIN s.files = 1..Len(s.files)
  BY Numbers
<1>2. CASE s.kind = "roll"
  <2>1. s.files[i].count = i - 1 /\ s.files[j].count = j - 1
    BY <1>2 DEF SinkOk, NamesOk
  <2> QED BY <1>1, <2>1
<1>3. CASE s.kind # "roll"
  <2>1. s.kind = "file"
    BY <1>3, Fields DEF SinkKind
  <2>2. Len(s.files) = 1
    BY <2>1 DEF SinkOk, NamesOk
  <2> QED BY <1>1, <2>2
<1> QED BY <1>2, <1>3

(* The names that RollBySizeSink::creatNewFile makes are new each time:    *)
(* the count sees to it when the stamp does not.                           *)
THEOREM NeverTwice == Spec => []NoFileTwice
<1>1. IInv => NoFileTwice
  <2> SUFFICES ASSUME IInv, NEW k \in DOMAIN sinks,
                      NEW i \in DOMAIN sinks[k].files, NEW j \in DOMAIN sinks[k].files,
                      sinks[k].files[i] = sinks[k].files[j]
               PROVE  i = j
    BY DEF NoFileTwice
  <2>1. sinks[k] \in SinkType /\ SinkOk(sinks[k])
    BY OfSink DEF IInv, TypeOK, FilesOK
  <2> QED BY <2>1, NamesDiffer
<1> QED BY <1>1, Invariance, PTL

(* Where a byte of a sink is.                                              *)
LEMMA Position ==
  ASSUME IInv, NEW k \in DOMAIN sinks, NEW i \in DOMAIN sinks[k].files,
         NEW n \in Held(k, i)
  PROVE  /\ Pos(k, i, n) \in 1..PassedOn(sinks[k])
         /\ Pos(k, i, n) \in OnDisk(sinks[k])
         /\ Pos(k, i, n) \in DOMAIN sinks[k].said
         /\ sinks[k].starts[i] < Pos(k, i, n) /\ Pos(k, i, n) <= EndOf(sinks[k], i)
         /\ \A m \in Held(k, i) : m < n => Pos(k, i, m) < Pos(k, i, n)
         /\ Held(k, i) \subseteq Nat
<1> DEFINE s == sinks[k]
           f == s.files[i]
           b == disk[f][n]
<1>1. FilesOK /\ BooksInv
  BY DEF IInv, TypeOK, FilesOK
<1>2. s \in SinkType /\ SinkOk(s) /\ k \in Nat
  BY <1>1, OfSink
<1>3. f \in DOMAIN disk /\ disk[f] \in Seq(Byte)
  BY <1>1 DEF FilesOK
<1>4. n \in DOMAIN disk[f] /\ b.sink = k /\ Pos(k, i, n) = b.pos
  BY DEF Held, Contents, Pos
<1>5. b \in Byte /\ InPlace(b, f, sinks)
  BY <1>1, <1>3, <1>4 DEF BooksInv, DiskOk
<1>6. PICK j \in DOMAIN s.files : /\ s.files[j] = f
                                  /\ s.starts[j] < b.pos /\ b.pos <= EndOf(s, j)
  BY <1>4, <1>5 DEF InPlace
<1>7. b.pos \in OnDisk(s) /\ b.pos \in 1..PassedOn(s)
  BY <1>4, <1>5 DEF InPlace, OnDisk
<1>8. i = j
  BY <1>2, <1>6, NamesDiffer
<1>9. \A m \in Held(k, i) : m < n => Pos(k, i, m) < Pos(k, i, n)
  <2> SUFFICES ASSUME NEW m \in Held(k, i), m < n PROVE disk[f][m].pos < b.pos
    BY <1>4 DEF Pos, Contents
  <2>1. m \in DOMAIN disk[f] /\ disk[f][m].sink = k
    BY DEF Held, Contents
  <2>2. m \in 1..(n - 1)
    BY <1>3, <1>4, <2>1
  <2> QED BY <1>1, <1>3, <1>4, <2>1, <2>2 DEF BooksInv, DiskOk
<1>10. b.pos \in Nat
  BY <1>5 DEF Byte
<1>11. Held(k, i) \subseteq Nat
  BY <1>3 DEF Held, Contents
<1> HIDE DEF b, f, s
<1>12. /\ s.starts[i] \in Nat /\ EndOf(s, i) \in Nat /\ PassedOn(s) \in Nat
       /\ PassedOn(s) + Len(s.unflushed) = Len(s.said) /\ Len(s.unflushed) \in Nat
       /\ DOMAIN s.said = 1..Len(s.said) /\ Len(s.said) \in Nat
  <2>1. i \in 1..Len(s.files)
    BY <1>2, <1>6, <1>8, Numbers
  <2> QED BY <1>2, <2>1, Numbers, Fields
<1>13. b.pos \in 1..PassedOn(s) /\ b.pos \in DOMAIN s.said
  <2>1. PassedOn(s) <= Len(s.said)
    BY <1>12
  <2> QED BY <1>7, <1>10, <1>12, <2>1
<1> QED BY <1>4, <1>6, <1>7, <1>8, <1>9, <1>11, <1>13 DEF s

(* Each byte that has left the buffer, and was not dropped, is somewhere.  *)
LEMMA Somewhere ==
  ASSUME IInv, NEW k \in DOMAIN sinks, NEW p \in OnDisk(sinks[k])
  PROVE  \E i \in DOMAIN sinks[k].files : \E n \in Held(k, i) : Pos(k, i, n) = p
<1>1. PICK f \in DOMAIN disk : \E n \in DOMAIN disk[f] : disk[f][n] = ByteOf(k, p)
  BY DEF IInv, BooksInv, DiskOk
<1>2. PICK n \in DOMAIN disk[f] : disk[f][n] = ByteOf(k, p)
  BY <1>1
<1> DEFINE b == disk[f][n]
<1>3. b.sink = k /\ b.pos = p
  BY <1>2 DEF ByteOf
<1>4. InPlace(b, f, sinks)
  BY DEF IInv, BooksInv, DiskOk
<1>5. PICK i \in DOMAIN sinks[k].files : sinks[k].files[i] = f
  BY <1>3, <1>4 DEF InPlace
<1>6. n \in Held(k, i) /\ Pos(k, i, n) = p
  BY <1>3, <1>5 DEF Held, Pos, Contents
<1> QED BY <1>6

(* The files of a sink follow each other.                                  *)
LEMMA Follow ==
  ASSUME NEW s \in SinkType, SinkOk(s), NEW i \in DOMAIN s.files, NEW j \in DOMAIN s.files,
         i < j
  PROVE  /\ i + 1 \in DOMAIN s.files /\ EndOf(s, i) = s.starts[i + 1]
         /\ s.starts[i + 1] <= s.starts[j]
<1>1. /\ Len(s.files) \in Nat \ {0} /\ DOMAIN s.files = 1..Len(s.files)
      /\ DOMAIN s.starts = 1..Len(s.files)
  BY Numbers
<1>2. i + 1 \in 1..Len(s.files) /\ i # Len(s.files) /\ i + 1 <= j
  BY <1>1
<1>3. s.starts[i + 1] <= s.starts[j]
  BY <1>1, <1>2 DEF SinkOk, StartsOk
<1> QED BY <1>1, <1>2, <1>3 DEF EndOf

(* What sync logging puts into the files of a sink is, in order, what it   *)
(* was told to write, all but the bytes that a crash finds in the buffer   *)
(* and those that a close(), which nobody looks at, has failed to write:   *)
(* the end of a file that was full, or of the last one.                    *)
THEOREM OnlyByCrashOrClose == Spec => []LostOnlyByCrashOrClose
<1>1. ASSUME IInv, NEW k \in DOMAIN sinks
      PROVE  LET All == DOMAIN sinks[k].files
             IN  /\ \A i, j \in All : \A m \in Held(k, i) : \A n \in Held(k, j) :
                      i < j \/ (i = j /\ m < n) => Pos(k, i, m) < Pos(k, j, n)
                 /\ UNION {{Pos(k, i, n) : n \in Held(k, i)} : i \in All}
                      = (1..(Len(sinks[k].said) - Len(sinks[k].unflushed)))
                          \ sinks[k].dropped
                 /\ ended[k] = "closed" => sinks[k].unflushed = <<>>
                 /\ \A p \in sinks[k].dropped : \A i \in All : \A n \in Held(k, i) :
                      sinks[k].starts[i] < p => Pos(k, i, n) < p
                 /\ \A p \in sinks[k].dropped :
                      p > sinks[k].starts[Len(sinks[k].starts)]
                        => ended[k] = "closed" \/ IsFull(sinks[k])
  <2> DEFINE s == sinks[k]
             All == DOMAIN s.files
  <2>1. s \in SinkType /\ SinkOk(s)
    BY <1>1, OfSink DEF IInv, TypeOK, FilesOK
  <2>2. ASSUME NEW i \in All, NEW j \in All, NEW m \in Held(k, i), NEW n \in Held(k, j),
               i < j
        PROVE  Pos(k, i, m) < Pos(k, j, n)
    <3>1. Pos(k, i, m) <= EndOf(s, i) /\ s.starts[j] < Pos(k, j, n)
      BY <1>1, Position
    <3>2. /\ i + 1 \in All /\ EndOf(s, i) = s.starts[i + 1]
          /\ s.starts[i + 1] <= s.starts[j]
      BY <2>1, <2>2, Follow
    <3>3. s.starts[i + 1] \in Nat /\ s.starts[j] \in Nat
      BY <2>1, <3>2, Numbers
    <3>4. Pos(k, i, m) \in Nat /\ Pos(k, j, n) \in Nat
      <4>1. Pos(k, i, m) \in 1..PassedOn(s) /\ Pos(k, j, n) \in 1..PassedOn(s)
        BY <1>1, Position
      <4>2. PassedOn(s) \in Nat
        BY <2>1, Numbers
      <4> QED BY <4>1, <4>2
    <3> QED BY <3>1, <3>2, <3>3, <3>4
  <2>3. ASSUME NEW i \in All, NEW m \in Held(k, i), NEW n \in Held(k, i), m < n
        PROVE  Pos(k, i, m) < Pos(k, i, n)
    BY <1>1, <2>3, Position
  <2>4. UNION {{Pos(k, i, n) : n \in Held(k, i)} : i \in All} = OnDisk(s)
    <3>1. ASSUME NEW i \in All, NEW n \in Held(k, i)
          PROVE  Pos(k, i, n) \in OnDisk(s)
      BY <1>1, Position
    <3>2. ASSUME NEW p \in OnDisk(s)
          PROVE  \E i \in All : \E n \in Held(k, i) : Pos(k, i, n) = p
      BY <1>1, Somewhere
    <3> QED BY <3>1, <3>2
  <2>5. ended[k] = "closed" => s.unflushed = <<>>
    BY <1>1 DEF IInv, BooksInv
  <2>6. ASSUME NEW p \in s.dropped, NEW i \in All, NEW n \in Held(k, i), s.starts[i] < p
        PROVE  Pos(k, i, n) < p
    <3> DEFINE q == Pos(k, i, n)
    <3>1. /\ q \in 1..PassedOn(s) /\ q \in OnDisk(s) /\ q <= EndOf(s, i)
      BY <1>1, Position
    <3>2. s.dropped \subseteq 1..PassedOn(s) /\ q \notin s.dropped
      BY <2>1, <3>1 DEF SinkOk, DropsOk, OnDisk
    <3>3. i \in DOMAIN s.starts /\ EndOf(s, i) \in Nat /\ PassedOn(s) \in Nat
      BY <2>1, Numbers
    <3> HIDE DEF q
    <3>4. ~(p < q)
      BY <2>1, <2>6, <3>1, <3>2, <3>3 DEF SinkOk, DropsOk
    <3>5. q \in Nat /\ p \in Nat /\ q # p
      BY <3>1, <3>2, <3>3
    <3> QED BY <3>4, <3>5 DEF q
  <2>7. ASSUME NEW p \in s.dropped, p > s.starts[Len(s.starts)]
        PROVE  ended[k] = "closed" \/ IsFull(s)
    <3>1. ~Intact(s)
      <4>1. s.starts[Len(s.starts)] \in Nat /\ p \in Nat
        <5>1. Len(s.starts) = Len(s.files) /\ Len(s.files) \in 1..Len(s.files)
          BY <2>1, Numbers DEF SinkOk, NamesOk
        <5> QED BY <2>1, <5>1, Numbers, Fields
      <4> QED BY <2>7, <4>1 DEF Intact
    <3> QED BY <1>1, <3>1 DEF IInv, BooksInv
  <2> QED BY <2>2, <2>3, <2>4, <2>5, <2>6, <2>7 DEF PassedOn, OnDisk
<1>2. IInv => LostOnlyByCrashOrClose
  BY <1>1 DEF LostOnlyByCrashOrClose
<1> QED BY <1>2, Invariance, PTL

(* RollBySizeSink never divides a message between two of its files.        *)
THEOREM MessagesWhole == Spec => []OneFilePerMessage
<1>1. ASSUME IInv, NEW k \in DOMAIN sinks,
             NEW i \in DOMAIN sinks[k].files, NEW j \in DOMAIN sinks[k].files, i < j,
             NEW m \in Held(k, i), NEW n \in Held(k, j)
      PROVE  Said(k, i, m) # Said(k, j, n)
  <2> DEFINE s == sinks[k]
             p == Pos(k, i, m)
             q == Pos(k, j, n)
  <2>1. s \in SinkType /\ SinkOk(s)
    BY <1>1, OfSink DEF IInv, TypeOK, FilesOK
  <2>2. /\ p \in 1..PassedOn(s) /\ p \in DOMAIN s.said /\ p <= EndOf(s, i)
        /\ q \in 1..PassedOn(s) /\ q \in DOMAIN s.said /\ s.starts[j] < q
    BY <1>1, Position
  <2>3. /\ i + 1 \in DOMAIN s.files /\ EndOf(s, i) = s.starts[i + 1]
        /\ s.starts[i + 1] <= s.starts[j]
    BY <1>1, <2>1, Follow
  <2>4. /\ s.starts[i + 1] \in Nat /\ s.starts[j] \in Nat /\ PassedOn(s) \in Nat
        /\ i + 1 \in DOMAIN s.starts
    BY <2>1, <2>3, Numbers
  <2> HIDE DEF p, q
  <2>5. p <= s.starts[i + 1] /\ s.starts[i + 1] < q
    BY <2>2, <2>3, <2>4
  <2>6. s.said[p] # s.said[q]
    BY <2>1, <2>2, <2>4, <2>5 DEF SinkOk, WholeOk
  <2> QED BY <2>6 DEF Said, p, q
<1>2. ASSUME IInv, NEW k \in DOMAIN sinks,
             NEW i \in DOMAIN sinks[k].files, NEW j \in DOMAIN sinks[k].files, i # j,
             NEW m \in Held(k, i), NEW n \in Held(k, j)
      PROVE  Said(k, i, m) # Said(k, j, n)
  <2>1. i \in Nat /\ j \in Nat
    <3>1. sinks[k] \in SinkType /\ SinkOk(sinks[k])
      BY <1>2, OfSink DEF IInv, TypeOK, FilesOK
    <3> QED BY <3>1, Numbers
  <2>2. CASE i < j
    BY <1>1, <1>2, <2>2
  <2>3. CASE j < i
    BY <1>1, <1>2, <2>3
  <2> QED BY <1>2, <2>1, <2>2, <2>3
<1>3. IInv => OneFilePerMessage
  BY <1>2 DEF OneFilePerMessage
<1> QED BY <1>3, Invariance, PTL

(* A file that RollBySizeSink has left has MaxSize bytes or more, unless   *)
(* its close() lost some.                                                  *)
LEMMA LeftFull ==
  ASSUME IInv, NEW k \in DOMAIN sinks, sinks[k].kind = "roll",
         NEW i \in DOMAIN sinks[k].files, i < Len(sinks[k].files),
         \A p \in sinks[k].dropped : ~(sinks[k].starts[i] < p /\ p <= sinks[k].starts[i + 1])
  PROVE  Len(Contents(k, i)) >= MaxSize
<1> DEFINE s == sinks[k]
           l == Len(s.files)
           T == (s.starts[i] + 1)..s.starts[i + 1]
           f == [n \in Held(k, i) |-> Pos(k, i, n)]
<1>1. s \in SinkType /\ SinkOk(s) /\ MaxSize \in Nat \ {0}
  BY OfSink, SinkAssumption DEF IInv, TypeOK, FilesOK
<1>2. l \in Nat \ {0} /\ DOMAIN s.files = 1..l /\ DOMAIN s.starts = 1..l
  BY <1>1, Numbers
<1>3. l \in DOMAIN s.files
  BY <1>2
<1>4. /\ i + 1 \in DOMAIN s.files /\ EndOf(s, i) = s.starts[i + 1]
      /\ s.starts[i + 1] <= s.starts[l]
  BY <1>1, <1>3, Follow
<1>5. /\ s.starts[i] \in Nat /\ s.starts[i + 1] \in Nat /\ s.starts[l] \in Nat
      /\ PassedOn(s) \in Nat /\ s.starts[l] <= PassedOn(s)
  BY <1>1, <1>2, <1>3, <1>4, Numbers
<1>6. s.starts[i + 1] - s.starts[i] >= MaxSize
  BY <1>1, <1>2 DEF SinkOk, RollsOk, NamesOk
<1>7. /\ IsFiniteSet(Held(k, i))
      /\ Len(Contents(k, i)) \in Nat /\ Cardinality(Held(k, i)) <= Len(Contents(k, i))
  <2>1. Contents(k, i) \in Seq(Byte)
    BY DEF IInv, TypeOK, Contents
  <2>2. DOMAIN Contents(k, i) = 1..Len(Contents(k, i)) /\ Len(Contents(k, i)) \in Nat
    BY <2>1
  <2> DEFINE c == Len(Contents(k, i))
  <2> HIDE DEF c
  <2>3. IsFiniteSet(1..c) /\ Cardinality(1..c) = c
    <3>1. 1 \in Int /\ c \in Int
      BY <2>2 DEF c
    <3>2. IsFiniteSet(1..c) /\ Cardinality(1..c) = IF 1 > c THEN 0 ELSE c - 1 + 1
      BY <3>1, FS_Interval
    <3> QED BY <2>2, <3>2 DEF c
  <2>4. Held(k, i) \subseteq 1..c
    BY <2>2 DEF Held, c
  <2>5. IsFiniteSet(Held(k, i)) /\ Cardinality(Held(k, i)) <= Cardinality(1..c)
    BY <2>3, <2>4, FS_Subset
  <2> QED BY <2>2, <2>3, <2>5 DEF c
<1>8. ASSUME NEW n \in Held(k, i)
      PROVE  Pos(k, i, n) \in T
  <2>1. /\ Pos(k, i, n) \in 1..PassedOn(s)
        /\ s.starts[i] < Pos(k, i, n) /\ Pos(k, i, n) <= EndOf(s, i)
    BY Position
  <2> QED BY <1>4, <1>5, <2>1
<1>9. ASSUME NEW p \in T
      PROVE  \E n \in Held(k, i) : Pos(k, i, n) = p
  <2>1. p \in OnDisk(s) /\ p \in Nat /\ s.starts[i] < p /\ p <= s.starts[i + 1]
    <3>1. p \in 1..PassedOn(s) /\ s.starts[i] < p /\ p <= s.starts[i + 1]
      BY <1>4, <1>5
    <3> QED BY <3>1 DEF OnDisk
  <2>2. PICK j \in DOMAIN s.files : \E n \in Held(k, j) : Pos(k, j, n) = p
    BY <2>1, Somewhere
  <2>3. s.starts[j] < p /\ p <= EndOf(s, j) /\ s.starts[j] \in Nat
    BY <1>1, <2>2, Position, Numbers
  <2>4. ~(i < j)
    <3> SUFFICES ASSUME i < j PROVE FALSE
      OBVIOUS
    <3>1. s.starts[i + 1] <= s.starts[j]
      BY <1>1, Follow
    <3> QED BY <1>5, <2>1, <2>3, <3>1
  <2>5. ~(j < i)
    <3> SUFFICES ASSUME j < i PROVE FALSE
      OBVIOUS
    <3>1. j + 1 \in DOMAIN s.files /\ EndOf(s, j) = s.starts[j + 1]
          /\ s.starts[j + 1] <= s.starts[i]
      BY <1>1, Follow
    <3>2. s.starts[j + 1] \in Nat
      BY <1>1, <3>1, Numbers
    <3> QED BY <1>5, <2>1, <2>3, <3>1, <3>2
  <2>6. i = j
    BY <1>2, <2>4, <2>5
  <2> QED BY <2>2, <2>6
<1> HIDE DEF T
<1>10. f \in Surjection(Held(k, i), T)
  BY <1>8, <1>9 DEF Surjection
<1>11. Cardinality(T) <= Cardinality(Held(k, i)) /\ Cardinality(Held(k, i)) \in Nat
  BY <1>7, <1>10, FS_Surjection, FS_CardinalityType
<1>12. Cardinality(T) = s.starts[i + 1] - s.starts[i]
  <2>1. s.starts[i] <= s.starts[i + 1]
    BY <1>1, <1>5, <1>6
  <2> QED BY <1>5, <2>1, Behind DEF T
<1> QED BY <1>1, <1>5, <1>6, <1>7, <1>11, <1>12

(* And less than that before any message in it.                            *)
LEMMA NotFullBefore ==
  ASSUME IInv, NEW k \in DOMAIN sinks, sinks[k].kind = "roll",
         NEW i \in DOMAIN sinks[k].files, NEW n \in Held(k, i)
  PROVE  Cardinality({m \in Held(k, i) : m < n /\ Said(k, i, m) # Said(k, i, n)}) < MaxSize
<1> DEFINE s == sinks[k]
           X == {m \in Held(k, i) : m < n /\ Said(k, i, m) # Said(k, i, n)}
           T == (s.starts[i] + 1)..(s.starts[i] + (MaxSize - 1))
           f == [m \in X |-> Pos(k, i, m)]
<1>1. s \in SinkType /\ SinkOk(s) /\ MaxSize \in Nat \ {0}
  BY OfSink, SinkAssumption DEF IInv, TypeOK, FilesOK
<1>2. /\ PassedOn(s) \in Nat /\ s.starts[i] \in Nat /\ i \in DOMAIN s.starts
      /\ EndOf(s, i) \in Nat
  BY <1>1, Numbers
<1>3. ASSUME NEW m \in X
      PROVE  Pos(k, i, m) \in T
  <2> DEFINE p == Pos(k, i, m)
             q == Pos(k, i, n)
  <2>1. /\ p \in 1..PassedOn(s) /\ p \in DOMAIN s.said /\ s.starts[i] < p
        /\ q \in 1..PassedOn(s) /\ q \in DOMAIN s.said /\ q <= EndOf(s, i)
    BY Position
  <2>2. p < q
    BY Position
  <2>3. s.said[p] # s.said[q]
    BY DEF Said
  <2> HIDE DEF p, q
  <2>4. p - s.starts[i] < MaxSize
    BY <1>1, <1>2, <2>1, <2>2, <2>3 DEF SinkOk, RollsOk
  <2> QED BY <1>1, <1>2, <2>1, <2>4 DEF p
<1>4. ASSUME NEW m \in X, NEW o \in X, Pos(k, i, m) = Pos(k, i, o)
      PROVE  m = o
  <2>1. /\ m \in Nat /\ o \in Nat
        /\ m < o => Pos(k, i, m) < Pos(k, i, o)
        /\ o < m => Pos(k, i, o) < Pos(k, i, m)
    BY Position
  <2>2. Pos(k, i, m) \in Nat /\ Pos(k, i, o) \in Nat
    BY <1>1, <1>2, <1>3
  <2> QED BY <1>4, <2>1, <2>2
<1> HIDE DEF X, T
<1>5. f \in Injection(X, T)
  BY <1>3, <1>4 DEF Injection, IsInjective
<1>6. IsFiniteSet(T) /\ Cardinality(T) = MaxSize - 1
  <2> DEFINE a == s.starts[i]
             b == a + (MaxSize - 1)
  <2>1. a \in Nat /\ b \in Nat /\ a <= b /\ b - a = MaxSize - 1
    BY <1>1, <1>2
  <2>2. T = (a + 1)..b
    BY DEF T
  <2> HIDE DEF a, b
  <2> QED BY <2>1, <2>2, Behind
<1>7. Cardinality(X) <= Cardinality(T) /\ Cardinality(X) \in Nat
  BY <1>5, <1>6, FS_Injection, FS_CardinalityType
<1>8. Cardinality(X) < MaxSize
  BY <1>1, <1>6, <1>7
<1> QED BY <1>8 DEF X

(* A file that one sink alone has had holds nothing of another.            *)
LEMMA AllHeld ==
  ASSUME IInv, NEW k \in DOMAIN sinks, NEW i \in DOMAIN sinks[k].files, Alone(k, i)
  PROVE  Held(k, i) = DOMAIN Contents(k, i)
<1> DEFINE f == sinks[k].files[i]
<1>1. f \in DOMAIN disk
  BY DEF IInv, TypeOK
<1>2. ASSUME NEW n \in DOMAIN disk[f]
      PROVE  disk[f][n].sink = k
  <2>1. InPlace(disk[f][n], f, sinks)
    BY <1>1 DEF IInv, BooksInv, DiskOk
  <2> QED BY <2>1 DEF InPlace, Alone
<1> QED BY <1>2 DEF Held, Contents

(* RollBySizeSink goes on to a new file when, and only when, the one it    *)
(* writes is full; what its close() then loses is missing there, and what  *)
(* others append to the same file it does not count.                       *)
THEOREM RollsWhenFull == Spec => []RollsInTime
<1>1. ASSUME IInv, NEW k \in DOMAIN sinks, sinks[k].kind = "roll",
             NEW i \in DOMAIN sinks[k].files, i < Len(sinks[k].files)
      PROVE  \/ Len(Contents(k, i)) >= MaxSize
             \/ \E p \in sinks[k].dropped : /\ sinks[k].starts[i] < p
                                            /\ p <= sinks[k].starts[i + 1]
  BY <1>1, LeftFull
<1>2. ASSUME IInv, NEW k \in DOMAIN sinks, sinks[k].kind = "roll",
             NEW i \in DOMAIN sinks[k].files, Alone(k, i), NEW n \in DOMAIN Contents(k, i)
      PROVE  Cardinality({m \in 1..(n - 1) : Said(k, i, m) # Said(k, i, n)}) < MaxSize
  <2> DEFINE X == {m \in 1..(n - 1) : Said(k, i, m) # Said(k, i, n)}
             Y == {m \in Held(k, i) : m < n /\ Said(k, i, m) # Said(k, i, n)}
  <2>1. Contents(k, i) \in Seq(Byte)
    BY <1>2 DEF IInv, TypeOK, Contents
  <2>2. Held(k, i) = 1..Len(Contents(k, i)) /\ Len(Contents(k, i)) \in Nat
    BY <1>2, <2>1, AllHeld
  <2>3. n \in Held(k, i) /\ n \in Nat /\ n <= Len(Contents(k, i))
    BY <1>2, <2>1, <2>2
  <2>4. X = Y
    BY <2>2, <2>3
  <2>5. Cardinality(Y) < MaxSize
    BY <1>2, <2>3, NotFullBefore
  <2> HIDE DEF X, Y
  <2>6. Cardinality(X) < MaxSize
    BY <2>4, <2>5
  <2> QED BY <2>6 DEF X
<1>3. IInv => RollsInTime
  BY <1>1, <1>2 DEF RollsInTime
<1> QED BY <1>3, Invariance, PTL

(* LoggerManager's two locks let two threads find a name free; the second  *)
(* insertion changes nothing.                                              *)
THEOREM NamesStay == Spec => NameIsStable
<1> DEFINE Stays == \A n \in Name : registry[n] # None /\ life' = life
                                      => registry'[n] = registry[n]
<1>1. ASSUME IInv, [Next]_vars
      PROVE  Stays
  <2>1. registry \in [Name -> Thread \cup {None}] /\ life \in Nat
    BY <1>1, LoggingAssumption DEF IInv, TypeOK
  <2>2. CASE Crash \/ StartAgain
    <3>1. life' = life + 1
      BY <2>2 DEF Crash, StartAgain, Restart
    <3> QED BY <2>1, <3>1
  <2>3. CASE Tick \/ Exit \/ UNCHANGED vars
    BY <2>3 DEF Tick, Exit, vars
  <2>4. ASSUME NEW k \in DOMAIN sinks, CloseStream(k)
        PROVE  Stays
    BY <2>4 DEF CloseStream
  <2>5. ASSUME NEW t \in Thread, Insert(t)
        PROVE  Stays
    BY <2>1, <2>5 DEF Insert
  <2>6. ASSUME NEW t \in Thread,
               \/ StartBuild(t) \/ BuildSink(t) \/ Build(t) \/ HasLogger(t)
               \/ GetLogger(t) \/ Say(t) \/ Lock(t) \/ SizeOk(t) \/ CloseFull(t)
               \/ Open(t) \/ Write(t)
        PROVE  Stays
    BY <2>6 DEF StartBuild, BuildSink, Build, HasLogger, GetLogger, Say, Lock, SizeOk,
                CloseFull, Open, Write
  <2> QED BY <1>1, <2>2, <2>3, <2>4, <2>5, <2>6 DEF Next
<1>2. IInv /\ [Next]_vars => [Stays]_vars
  BY <1>1
<1>3. Spec => [][Stays]_vars
  BY <1>2, Invariance, PTL DEF Spec
<1> QED BY <1>3 DEF NameIsStable
=============================================================================
