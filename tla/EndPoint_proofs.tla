-------------------------- MODULE EndPoint_proofs --------------------------
(***************************************************************************)
(* Theorems about EndPoint: for any site, any requests, any sizes of int,  *)
(* size_t and sendfile(), and any number of changes to the files, whole    *)
(* requests and only those are answered, what reaches the client is a      *)
(* prefix of the response, Content-Length is true and no file stays open.  *)
(***************************************************************************)
EXTENDS EndPoint, TLAPS

(***************************************************************************)
(* Operators                                                               *)
(***************************************************************************)

(* An int is in its range, and assigning does not make a number larger     *)
(* unless it makes it negative, which only one above MaxInt becomes.       *)
LEMMA IntRange ==
  ASSUME NEW n \in Int
  PROVE  ToInt(n) \in IntType
<1>1. MaxInt \in Nat
  BY EndPointAssumption
<1>2. \A k \in Nat \ {0} : \A m \in Int : m % k \in 0..(k - 1)
  OBVIOUS
<1>3. (n + (MaxInt + 1)) % (2 * (MaxInt + 1)) \in 0..(2 * (MaxInt + 1) - 1)
  BY <1>1, <1>2
<1> QED BY <1>1, <1>3 DEF ToInt, IntType

LEMMA IntBelow ==
  ASSUME NEW n \in Nat
  PROVE  IF ToInt(n) < 0 THEN MaxInt < n ELSE ToInt(n) <= n
<1>1. MaxInt \in Nat
  BY EndPointAssumption
<1> DEFINE k == 2 * (MaxInt + 1)
<1>2. \A i \in Nat \ {0} : \A m \in Nat : m % i <= m /\ m % i \in Nat
  OBVIOUS
<1>3. \A i \in Nat \ {0} : \A m \in Nat : m < i => m % i = m
  OBVIOUS
<1>4. n + (MaxInt + 1) \in Nat /\ k \in Nat \ {0}
  BY <1>1
<1>5. ToInt(n) <= n
  BY <1>1, <1>2, <1>4 DEF ToInt
<1>6. ASSUME n <= MaxInt
      PROVE  ToInt(n) = n
  <2>1. n + (MaxInt + 1) < k
    BY <1>1, <1>6
  <2>2. (n + (MaxInt + 1)) % k = n + (MaxInt + 1)
    BY <1>3, <1>4, <2>1
  <2> QED BY <1>1, <2>2 DEF ToInt
<1> QED BY <1>1, <1>5, <1>6, IntRange DEF IntType

(* An int that is not zero is one byte nearer to it after a byte, the      *)
(* least int as well.                                                      *)
LEMMA OneLess ==
  ASSUME NEW n \in IntType
  PROVE  /\ n \in Int /\ Countdown(n) \in Nat
         /\ n # 0 => Countdown(ToInt(n - 1)) = Countdown(n) - 1
<1>1. MaxInt \in Nat /\ n \in Int /\ -(MaxInt + 1) <= n /\ n <= MaxInt
  BY EndPointAssumption DEF IntType
<1>2. Countdown(n) \in Nat
  BY <1>1 DEF Countdown
<1>3. ASSUME n # 0
      PROVE  Countdown(ToInt(n - 1)) = Countdown(n) - 1
  <2>1. \A i \in Nat \ {0} : \A m \in Nat : m < i => m % i = m
    OBVIOUS
  <2>2. \A i \in Nat \ {0} : (-1) % i = i - 1
    OBVIOUS
  <2>3. PICK k \in Nat \ {0} : k = 2 * (MaxInt + 1)
    BY <1>1
  <2>4. CASE n = -(MaxInt + 1)
    <3>1. (n - 1 + (MaxInt + 1)) % k = k - 1
      <4>1. n - 1 + (MaxInt + 1) = -1
        BY <1>1, <2>4
      <4> QED BY <2>2, <4>1
    <3>2. ToInt(n - 1) = MaxInt
      BY <1>1, <2>3, <3>1 DEF ToInt
    <3> QED BY <1>1, <2>4, <3>2 DEF Countdown
  <2>5. CASE n # -(MaxInt + 1)
    <3>1. PICK m \in Nat : m = n - 1 + (MaxInt + 1) /\ m < k
      BY <1>1, <2>3, <2>5
    <3>2. (n - 1 + (MaxInt + 1)) % k = m
      BY <2>1, <3>1
    <3>3. ToInt(n - 1) = n - 1
      BY <1>1, <2>3, <3>1, <3>2 DEF ToInt
    <3> QED BY <1>1, <1>3, <3>3 DEF Countdown
  <2> QED BY <2>4, <2>5
<1> QED BY <1>1, <1>2, <1>3

LEMMA SizeTRange ==
  ASSUME NEW n \in Int
  PROVE  ToSizeT(n) \in Nat
BY EndPointAssumption DEF ToSizeT

(* The items of a request, one by one. *)
Item(r, i) == IF i = 1 THEN "line"
              ELSE IF i <= 1 + Len(r.lengths) THEN "header"
              ELSE IF i = 2 + Len(r.lengths) THEN "blank" ELSE "byte"

LEMMA Items ==
  ASSUME NEW r \in RequestType
  PROVE  /\ Wire(r) \in Seq({"line", "header", "blank", "byte"})
         /\ Len(Wire(r)) = 2 + Len(r.lengths) + r.body
         /\ \A i \in 1..Len(Wire(r)) : Wire(r)[i] = Item(r, i)
<1> DEFINE h == [i \in 1..Len(r.lengths) |-> "header"]
           b == [i \in 1..r.body |-> "byte"]
<1>1. Len(r.lengths) \in Nat /\ r.body \in Nat
  BY DEF RequestType
<1>2. h \in Seq({"line", "header", "blank", "byte"}) /\ Len(h) = Len(r.lengths)
  BY <1>1
<1>3. b \in Seq({"line", "header", "blank", "byte"}) /\ Len(b) = r.body
  BY <1>1
<1>4. Wire(r) = <<"line">> \o h \o <<"blank">> \o b
  BY DEF Wire
<1>5. \A i \in 1..Len(h) : h[i] = "header"
  BY <1>2
<1>6. \A i \in 1..Len(b) : b[i] = "byte"
  BY <1>3
<1> HIDE DEF h, b
<1>7. /\ <<"line">> \o h \in Seq({"line", "header", "blank", "byte"})
      /\ Len(<<"line">> \o h) = 1 + Len(h)
      /\ (<<"line">> \o h)[1] = "line"
      /\ \A i \in 2..(1 + Len(h)) : (<<"line">> \o h)[i] = "header"
  BY <1>1, <1>2, <1>5
<1> DEFINE f == <<"line">> \o h
<1> HIDE DEF f
<1>8. /\ f \o <<"blank">> \in Seq({"line", "header", "blank", "byte"})
      /\ Len(f \o <<"blank">>) = 2 + Len(h)
      /\ \A i \in 1..(1 + Len(h)) : (f \o <<"blank">>)[i] = f[i]
      /\ (f \o <<"blank">>)[2 + Len(h)] = "blank"
  <2> DEFINE S == {"line", "header", "blank", "byte"}
             o == <<"blank">>
  <2>1. Len(f) = 1 + Len(h)
    BY <1>7 DEF f
  <2>2. f \in Seq(S) /\ o \in Seq(S)
    BY <1>7 DEF f
  <2>3. Len(o) = 1 /\ o[1] = "blank" /\ Len(h) \in Nat
    BY <1>1, <1>2
  <2> HIDE DEF S, o
  <2>4. f \o o \in Seq(S)
    BY <2>2
  <2>5. Len(f \o o) = 2 + Len(h)
    <3>1. Len(f \o o) = Len(f) + Len(o)
      BY <2>2
    <3> QED BY <2>1, <2>3, <3>1
  <2>6. \A i \in 1..(1 + Len(h)) : (f \o o)[i] = f[i]
    <3>1. \A i \in 1..Len(f) : (f \o o)[i] = f[i]
      BY <2>2
    <3> QED BY <2>1, <3>1
  <2>7. (f \o o)[2 + Len(h)] = "blank"
    <3>1. \A i \in (Len(f) + 1)..(Len(f) + Len(o)) : (f \o o)[i] = o[i - Len(f)]
      BY <2>2
    <3>2. /\ 2 + Len(h) \in (Len(f) + 1)..(Len(f) + Len(o))
          /\ (2 + Len(h)) - Len(f) = 1
      BY <2>1, <2>3
    <3> QED BY <2>3, <3>1, <3>2
  <2> QED BY <2>4, <2>5, <2>6, <2>7 DEF S, o
<1> DEFINE g == f \o <<"blank">>
<1> HIDE DEF g
<1>9. /\ g \o b \in Seq({"line", "header", "blank", "byte"})
      /\ Len(g \o b) = 2 + Len(h) + Len(b)
      /\ \A i \in 1..(2 + Len(h)) : (g \o b)[i] = g[i]
      /\ \A i \in (3 + Len(h))..(2 + Len(h) + Len(b)) : (g \o b)[i] = "byte"
  <2>1. g \in Seq({"line", "header", "blank", "byte"}) /\ Len(g) = 2 + Len(h)
    BY <1>8 DEF g
  <2>2. /\ g \o b \in Seq({"line", "header", "blank", "byte"})
        /\ Len(g \o b) = Len(g) + Len(b)
        /\ \A i \in 1..Len(g) : (g \o b)[i] = g[i]
        /\ \A i \in (Len(g) + 1)..(Len(g) + Len(b)) : (g \o b)[i] = b[i - Len(g)]
    <3> DEFINE S == {"line", "header", "blank", "byte"}
    <3>1. g \in Seq(S) /\ b \in Seq(S)
      BY <1>3, <2>1
    <3> HIDE DEF S
    <3>2. g \o b \in Seq(S)
      BY <3>1
    <3>3. Len(g \o b) = Len(g) + Len(b)
      BY <3>1
    <3>4. \A i \in 1..Len(g) : (g \o b)[i] = g[i]
      BY <3>1
    <3>5. \A i \in (Len(g) + 1)..(Len(g) + Len(b)) : (g \o b)[i] = b[i - Len(g)]
      BY <3>1
    <3> QED BY <3>2, <3>3, <3>4, <3>5 DEF S
  <2>3. ASSUME NEW i \in (3 + Len(h))..(2 + Len(h) + Len(b))
        PROVE  (g \o b)[i] = "byte"
    <3>1. Len(h) \in Nat /\ Len(b) \in Nat /\ Len(g) = 2 + Len(h)
      BY <1>1, <1>2, <1>3, <2>1
    <3>2. i - Len(g) \in 1..Len(b) /\ i \in (Len(g) + 1)..(Len(g) + Len(b))
      BY <3>1
    <3> QED BY <3>2, <2>2, <1>6
  <2> QED BY <2>1, <2>2, <2>3
<1>10. Wire(r) = g \o b
  BY <1>4 DEF f, g
<1>11. ASSUME NEW i \in 1..(2 + Len(h) + Len(b))
       PROVE  (g \o b)[i] = Item(r, i)
  <2>1. CASE i = 1
    BY <1>1, <1>2, <1>7, <1>8, <1>9, <2>1 DEF Item, f, g
  <2>2. CASE i \in 2..(1 + Len(h))
    <3>1. (g \o b)[i] = "header"
      BY <1>1, <1>2, <1>7, <1>8, <1>9, <2>2 DEF f, g
    <3> QED BY <1>1, <1>2, <2>2, <3>1 DEF Item
  <2>3. CASE i = 2 + Len(h)
    <3>1. (g \o b)[i] = "blank"
      BY <1>1, <1>2, <1>8, <1>9, <2>3 DEF g
    <3> QED BY <1>1, <1>2, <2>3, <3>1 DEF Item
  <2>4. CASE i \in (3 + Len(h))..(2 + Len(h) + Len(b))
    <3>1. (g \o b)[i] = "byte"
      BY <1>9, <2>4
    <3>2. Len(h) = Len(r.lengths) /\ Len(h) \in Nat /\ Len(b) \in Nat
      BY <1>1, <1>2, <1>3
    <3> QED BY <2>4, <3>1, <3>2 DEF Item
  <2>5. Len(h) \in Nat /\ Len(b) \in Nat
    BY <1>1, <1>2, <1>3
  <2>6. \/ i = 1 \/ i \in 2..(1 + Len(h)) \/ i = 2 + Len(h)
        \/ i \in (3 + Len(h))..(2 + Len(h) + Len(b))
    BY <2>5
  <2> QED BY <2>1, <2>2, <2>3, <2>4, <2>6
<1> QED BY <1>1, <1>2, <1>3, <1>9, <1>10, <1>11

(***************************************************************************)
(* Types                                                                   *)
(***************************************************************************)

LEMMA NewType ==
  ASSUME NEW r \in Request
  PROVE  NewEndPoint(r) \in EndPointType
<1>1. r.path \in Path
  BY EndPointAssumption DEF RequestType
<1>2. <<>> \in Seq(PartType)
  OBVIOUS
<1>3. 0 \in IntType
  BY EndPointAssumption DEF IntType
<1> QED BY <1>1, <1>2, <1>3 DEF NewEndPoint, EndPointType, StatusCode, FileState, NoFd

(* One member of EndPoint changes at a time. *)
LEMMA SetPath ==
  ASSUME NEW e \in EndPointType, NEW x \in Path
  PROVE  [e EXCEPT !.path = x] \in EndPointType
BY DEF EndPointType

LEMMA SetCgi ==
  ASSUME NEW e \in EndPointType, NEW x \in BOOLEAN
  PROVE  [e EXCEPT !.cgi = x] \in EndPointType
BY DEF EndPointType

LEMMA SetSize ==
  ASSUME NEW e \in EndPointType, NEW x \in IntType \cup {Undef}
  PROVE  [e EXCEPT !.size = x] \in EndPointType
BY DEF EndPointType

LEMMA SetSt ==
  ASSUME NEW e \in EndPointType, NEW x \in FileState
  PROVE  [e EXCEPT !.st = x] \in EndPointType
BY DEF EndPointType

LEMMA SetCode ==
  ASSUME NEW e \in EndPointType, NEW x \in StatusCode
  PROVE  [e EXCEPT !.code = x] \in EndPointType
BY DEF EndPointType

LEMMA SetFd ==
  ASSUME NEW e \in EndPointType, NEW x \in [open : BOOLEAN, size : Nat]
  PROVE  [e EXCEPT !.fd = x] \in EndPointType
BY DEF EndPointType

LEMMA SetBody ==
  ASSUME NEW e \in EndPointType, NEW x \in Nat
  PROVE  [e EXCEPT !.body = x] \in EndPointType
BY DEF EndPointType

LEMMA SetHeader ==
  ASSUME NEW e \in EndPointType, NEW x \in Seq(PartType)
  PROVE  [e EXCEPT !.header = x] \in EndPointType
BY DEF EndPointType

LEMMA SetSent ==
  ASSUME NEW e \in EndPointType, NEW x \in Nat
  PROVE  [e EXCEPT !.sent = x] \in EndPointType
BY DEF EndPointType

LEMMA SetTotal ==
  ASSUME NEW e \in EndPointType, NEW x \in Nat
  PROVE  [e EXCEPT !.total = x] \in EndPointType
BY DEF EndPointType

LEMMA TypeInit == Init => TypeOK
<1>1. SUFFICES ASSUME Init PROVE TypeOK
  OBVIOUS
<1>2. ep \in EndPointType
  BY <1>1, NewType DEF Init
<1> QED BY <1>1, <1>2, EndPointAssumption DEF Init, TypeOK, HandlerPc

(* An answer's length is one that atoi returned, as an int holds it. *)
LEMMA LengthType ==
  ASSUME NEW r \in Request
  PROVE  ContentLength(r) \in IntType /\ Len(r.lengths) \in Nat /\ r \in RequestType
<1>1. r \in RequestType
  BY EndPointAssumption
<1>2. r.lengths \in Seq(Int)
  BY <1>1 DEF RequestType
<1>3. CASE IsNeedRecvHttpRequestBody(r)
  <2>1. r.lengths # <<>>
    BY <1>3 DEF IsNeedRecvHttpRequestBody
  <2>2. r.lengths[1] \in Int
    BY <1>2, <2>1
  <2>3. ToInt(r.lengths[1]) \in IntType
    BY <2>2, IntRange
  <2> QED BY <1>1, <1>2, <1>3, <2>3 DEF ContentLength
<1>4. CASE ~IsNeedRecvHttpRequestBody(r)
  <2>1. 0 \in IntType
    BY EndPointAssumption DEF IntType
  <2> QED BY <1>1, <1>2, <1>4, <2>1 DEF ContentLength
<1> QED BY <1>3, <1>4

LEMMA ConnectType == TypeOK /\ Connect => TypeOK'
<1>1. SUFFICES ASSUME TypeOK, Connect PROVE TypeOK'
  OBVIOUS
<1>2. PICK r \in Request : ep' = NewEndPoint(r) /\ wire' = Wire(r)
  BY <1>1 DEF Connect
<1>3. ep' \in EndPointType
  BY <1>2, NewType
<1>4. wire' \in Seq({"line", "header", "blank", "byte"})
  BY <1>2, Items, EndPointAssumption
<1>5. client' \in [got : Seq(PartType), bytes : Nat]
  BY <1>1 DEF Connect
<1> QED BY <1>1, <1>3, <1>4, <1>5, EndPointAssumption DEF Connect, TypeOK, HandlerPc

LEMMA PeerType ==
  TypeOK /\ (Finish \/ Reset \/ \E p \in Path : Replace(p)) => TypeOK'
<1>1. ASSUME TypeOK, Finish \/ Reset
      PROVE  TypeOK'
  <2>1. wire' = wire \/ wire' = <<>>
    BY <1>1 DEF Finish, Reset
  <2>3. wire \in Seq({"line", "header", "blank", "byte"})
    BY <1>1 DEF TypeOK
  <2>4. <<>> \in Seq({"line", "header", "blank", "byte"})
    OBVIOUS
  <2>2. wire' \in Seq({"line", "header", "blank", "byte"})
    BY <2>1, <2>3, <2>4
  <2> QED BY <1>1, <2>2 DEF Finish, Reset, TypeOK, fileVars
<1>2. ASSUME TypeOK, NEW p \in Path, Replace(p)
      PROVE  TypeOK'
  <2>1. PICK s \in Site : files' = [files EXCEPT ![p] = s[p]]
    BY <1>2 DEF Replace
  <2>2. s[p] \in FileState
    BY EndPointAssumption
  <2>3. files' \in [Path -> FileState]
    BY <1>2, <2>1, <2>2 DEF TypeOK
  <2>4. changes' \in 0..MaxChanges
    BY <1>2, EndPointAssumption DEF Replace, TypeOK
  <2> QED BY <1>2, <2>3, <2>4 DEF Replace, TypeOK
<1> QED BY <1>1, <1>2

(* What a step of BuildHttpResponse makes of ep, type by type. *)
LEMMA DecideType ==
  ASSUME TypeOK, NEW e \in EndPointType, NEW label \in HandlerPc, Decide(e, label)
  PROVE  TypeOK'
BY DEF Decide, TypeOK, fileVars

LEMMA RecvType ==
  ASSUME TypeOK, \/ RecvHttpRequestLine \/ RecvHttpRequestHeader \/ RecvBlankLine
                 \/ RecvHttpRequestBody \/ RecvStops
  PROVE  TypeOK'
<1> DEFINE W == {"line", "header", "blank", "byte"}
<1>1. ASSUME NEW item, Take(item)
      PROVE  wire' \in Seq(W) /\ taken' \in Nat
  BY <1>1 DEF TypeOK, Take
<1>2. CASE RecvHttpRequestLine
  BY <1>1, <1>2 DEF RecvHttpRequestLine, Take, TypeOK, HandlerPc, fileVars
<1>3. CASE RecvHttpRequestHeader
  BY <1>1, <1>3 DEF RecvHttpRequestHeader, Take, TypeOK, fileVars
<1>4. CASE RecvBlankLine
  <2>1. ep \in EndPointType /\ ep.request \in Request
    BY DEF TypeOK, EndPointType
  <2>2. ContentLength(ep.request) \in IntType
    BY <2>1, LengthType
  <2>3. ep' = [ep EXCEPT !.left = ContentLength(ep.request)]
    BY <1>4 DEF RecvBlankLine
  <2>4. ep' \in EndPointType
    BY <2>1, <2>2, <2>3 DEF EndPointType
  <2> QED BY <1>1, <1>4, <2>4 DEF RecvBlankLine, Take, TypeOK, HandlerPc, fileVars
<1>5. CASE RecvHttpRequestBody
  <2>1. ep \in EndPointType /\ ep' = [ep EXCEPT !.left = ToInt(ep.left - 1)]
    BY <1>5 DEF RecvHttpRequestBody, TypeOK
  <2>2. ep' \in EndPointType
    <3>1. ep.left \in IntType
      BY <2>1 DEF EndPointType
    <3>2. PICK d \in Int : d = ep.left - 1
      BY <3>1, OneLess
    <3>3. ToInt(ep.left - 1) \in IntType
      BY <3>2, IntRange
    <3> QED BY <2>1, <3>3 DEF EndPointType
  <2> QED BY <1>1, <1>5, <2>2 DEF RecvHttpRequestBody, Take, TypeOK, HandlerPc, fileVars
<1>6. CASE RecvStops
  BY <1>6 DEF RecvStops, TypeOK, HandlerPc, fileVars
<1> QED BY <1>2, <1>3, <1>4, <1>5, <1>6

LEMMA RouteType ==
  ASSUME TypeOK, \/ BadMethod \/ Stat \/ StatIndex \/ ProcessCgi \/ ProcessNonCgi
                 \/ HandlerErrorOpen \/ HandlerErrorNoPage \/ HandlerErrorStat
  PROVE  TypeOK'
<1>1. /\ ep \in EndPointType /\ ep.request \in RequestType /\ ep.path \in Path
      /\ fds \in Nat /\ ErrorPage \in Path
      /\ \A p \in Path : IndexOf[p] \in Path /\ files[p] \in FileState
  BY EndPointAssumption DEF TypeOK, EndPointType
<1>2. ASSUME NEW p \in Path
      PROVE  files[p].size \in Nat /\ ToInt(files[p].size) \in IntType
  <2>1. files[p].size \in Nat
    BY <1>1 DEF FileState
  <2>2. files[p].size \in Int
    BY <2>1
  <2> QED BY <2>1, <2>2, IntRange
<1>3. \A n \in Int \cup {Undef} : \A e \in EndPointType :
        PageLines(e, n) \in Seq(PartType) /\ BareLines(e) \in Seq(PartType)
  BY DEF PageLines, BareLines, PartType, Part, EndPointType, StatusCode
<1>4. ASSUME NEW e \in EndPointType
      PROVE  BuildOkResponse(e) \in EndPointType
  <2>1. (IF e.cgi THEN e.body ELSE e.size) \in Int \cup {Undef}
    BY EndPointAssumption DEF EndPointType, IntType
  <2>2. PageLines(e, IF e.cgi THEN e.body ELSE e.size) \in Seq(PartType)
    BY <1>3, <2>1
  <2> QED BY <2>2, SetHeader DEF BuildOkResponse
<1>5. ASSUME NEW p \in Path
      PROVE  Opened(p) \in [open : BOOLEAN, size : Nat]
  BY <1>1 DEF Opened, FileState
<1>6. \A e \in EndPointType : \A s \in FileState : WithStat(e, s) \in EndPointType
  <2>1. ASSUME NEW e \in EndPointType, NEW s \in FileState
        PROVE  WithStat(e, s) \in EndPointType
    <3>1. ToInt(s.size) \in IntType \cup {Undef}
      BY IntRange DEF FileState
    <3>2. (e.cgi \/ s.exec) \in BOOLEAN
      OBVIOUS
    <3>3. [e EXCEPT !.st = s] \in EndPointType
      BY SetSt
    <3>4. [[e EXCEPT !.st = s] EXCEPT !.cgi = e.cgi \/ s.exec] \in EndPointType
      BY <3>2, <3>3, SetCgi
    <3>5. [[[e EXCEPT !.st = s] EXCEPT !.cgi = e.cgi \/ s.exec]
             EXCEPT !.size = ToInt(s.size)] \in EndPointType
      BY <3>1, <3>4, SetSize
    <3> QED BY <3>5 DEF WithStat, EndPointType
  <2> QED BY <2>1
<1>7. NoFd \in [open : BOOLEAN, size : Nat]
  BY DEF NoFd
<1>16. 200 \in StatusCode /\ 400 \in StatusCode /\ 404 \in StatusCode
  BY DEF StatusCode
<1>8. CASE BadMethod
  <2>1. [ep EXCEPT !.code = 400] \in EndPointType
    BY <1>1, <1>16, SetCode
  <2>2. "err_open" \in HandlerPc
    BY DEF HandlerPc
  <2> QED BY <1>8, <2>1, <2>2, DecideType DEF BadMethod
<1>9. CASE Stat
  <2> DEFINE p == Resolve(ep.request)
             e == [ep EXCEPT !.path = p, !.cgi = WantsCgi(ep.request)]
  <2>1. p \in Path /\ WantsCgi(ep.request) \in BOOLEAN
    BY <1>1 DEF Resolve, WantsCgi, RequestType
  <2>2. e \in EndPointType
    <3>1. [ep EXCEPT !.path = p] \in EndPointType
      BY <1>1, <2>1, SetPath
    <3> QED BY <2>1, <3>1, SetCgi
  <2>6. files[p] \in FileState /\ IndexOf[p] \in Path
    BY <1>1, <2>1
  <2> HIDE DEF p, e
  <2>7. [e EXCEPT !.path = IndexOf[p]] \in EndPointType
    BY <2>2, <2>6, SetPath
  <2>8. [e EXCEPT !.code = 404] \in EndPointType
    BY <1>16, <2>2, SetCode
  <2>9. [e EXCEPT !.path = IndexOf[p], !.st = files[p]] \in EndPointType
    BY <2>6, <2>7, SetSt
  <2>10. WithStat(e, files[p]) \in EndPointType
    BY <1>6, <2>2, <2>6
  <2>4. "err_open" \in HandlerPc /\ "stat2" \in HandlerPc /\ "run" \in HandlerPc
    BY DEF HandlerPc
  <2>5. \/ Decide([e EXCEPT !.code = 404], "err_open")
        \/ Decide([e EXCEPT !.path = IndexOf[p], !.st = files[p]], "stat2")
        \/ Decide(WithStat(e, files[p]), "run")
    BY <1>9 DEF Stat, p, e
  <2> QED BY <2>4, <2>5, <2>8, <2>9, <2>10, DecideType
<1>10. CASE StatIndex
  <2> DEFINE s == IF files[ep.path].kind = "none" THEN ep.st ELSE files[ep.path]
  <2>1. s \in FileState
    BY <1>1 DEF EndPointType
  <2>2. WithStat(ep, s) \in EndPointType
    BY <1>1, <1>6, <2>1
  <2>3. "run" \in HandlerPc
    BY DEF HandlerPc
  <2> QED BY <1>10, <2>2, <2>3, DecideType DEF StatIndex
<1>11. CASE ProcessCgi
  <2>1. PICK code \in CgiCodes(ep.path) :
          \E n \in IF Runnable(ep.path) THEN CgiOutput ELSE {0} :
             LET e == [ep EXCEPT !.code = code, !.body = n]
             IN  IF code = 200 THEN Decide(BuildOkResponse(e), "send")
                               ELSE Decide(e, "err_open")
    BY <1>11 DEF ProcessCgi
  <2>2. PICK n \in IF Runnable(ep.path) THEN CgiOutput ELSE {0} :
             LET e == [ep EXCEPT !.code = code, !.body = n]
             IN  IF code = 200 THEN Decide(BuildOkResponse(e), "send")
                               ELSE Decide(e, "err_open")
    BY <2>1
  <2> DEFINE e == [ep EXCEPT !.code = code, !.body = n]
  <2>3. code \in StatusCode /\ n \in Nat
    BY EndPointAssumption DEF CgiCodes, StatusCode
  <2>4. e \in EndPointType /\ BuildOkResponse(e) \in EndPointType
    <3>1. [ep EXCEPT !.code = code] \in EndPointType
      BY <1>1, <2>3, SetCode
    <3>2. e \in EndPointType
      BY <2>3, <3>1, SetBody
    <3> QED BY <1>4, <3>2
  <2>5. "send" \in HandlerPc /\ "err_open" \in HandlerPc
    BY DEF HandlerPc
  <2>6. Decide(BuildOkResponse(e), "send") \/ Decide(e, "err_open")
    BY <2>2
  <2> QED BY <2>4, <2>5, <2>6, DecideType
<1>12. CASE ProcessNonCgi
  <2> DEFINE e == [ep EXCEPT !.code = 200, !.fd = Opened(ep.path)]
  <2>1. e \in EndPointType
    <3>1. [ep EXCEPT !.code = 200] \in EndPointType
      BY <1>1, <1>16, SetCode
    <3> QED BY <1>1, <1>5, <3>1, SetFd
  <2>2. BuildOkResponse(e) \in EndPointType
    BY <1>4, <2>1
  <2>3. [ep EXCEPT !.code = 404, !.fd = NoFd] \in EndPointType
    <3>1. [ep EXCEPT !.code = 404] \in EndPointType
      BY <1>1, <1>16, SetCode
    <3> QED BY <1>7, <3>1, SetFd
  <2>4. ep' \in EndPointType /\ fds' \in Nat /\ pc' \in HandlerPc
    BY <1>1, <1>12, <2>2, <2>3 DEF ProcessNonCgi, HandlerPc
  <2> QED BY <1>12, <2>4 DEF ProcessNonCgi, TypeOK, fileVars
<1>13. CASE HandlerErrorOpen
  <2>1. [ep EXCEPT !.cgi = FALSE, !.fd = Opened(ErrorPage)] \in EndPointType
    <3>1. [ep EXCEPT !.cgi = FALSE] \in EndPointType
      BY <1>1, SetCgi
    <3> QED BY <1>1, <1>5, <3>1, SetFd
  <2>2. ep' \in EndPointType /\ fds' \in Nat /\ pc' \in HandlerPc
    BY <1>1, <1>13, <2>1 DEF HandlerErrorOpen, HandlerPc
  <2> QED BY <1>13, <2>2 DEF HandlerErrorOpen, TypeOK, fileVars
<1>14. CASE HandlerErrorNoPage
  <2>1. BareLines(ep) \in Seq(PartType)
    BY <1>1, <1>3
  <2>2. [ep EXCEPT !.cgi = FALSE, !.fd = NoFd, !.header = BareLines(ep)]
          \in EndPointType
    <3>1. [ep EXCEPT !.cgi = FALSE] \in EndPointType
      BY <1>1, SetCgi
    <3>2. [[ep EXCEPT !.cgi = FALSE] EXCEPT !.fd = NoFd] \in EndPointType
      BY <1>7, <3>1, SetFd
    <3> QED BY <2>1, <3>2, SetHeader
  <2>3. "send" \in HandlerPc
    BY DEF HandlerPc
  <2> QED BY <1>14, <2>2, <2>3, DecideType DEF HandlerErrorNoPage
<1>15. CASE HandlerErrorStat
  <2> DEFINE s == files[ErrorPage]
             n == IF s.kind # "none" THEN s.size ELSE Undef
             z == IF s.kind # "none" THEN ToInt(s.size) ELSE Undef
  <2>1. n \in Int \cup {Undef} /\ z \in IntType \cup {Undef}
    BY <1>1, <1>2 DEF FileState
  <2>2. PageLines(ep, n) \in Seq(PartType)
    BY <1>1, <1>3, <2>1
  <2>3. [ep EXCEPT !.size = z, !.header = PageLines(ep, n)] \in EndPointType
    <3>1. [ep EXCEPT !.size = z] \in EndPointType
      BY <1>1, <2>1, SetSize
    <3> QED BY <2>2, <3>1, SetHeader
  <2>4. "send" \in HandlerPc
    BY DEF HandlerPc
  <2> QED BY <1>15, <2>3, <2>4, DecideType DEF HandlerErrorStat
<1> QED BY <1>8, <1>9, <1>10, <1>11, <1>12, <1>13, <1>14, <1>15

LEMMA SendType ==
  ASSUME TypeOK, OpenWhileNeeded, SentInv,
         \/ SendPart \/ SendBody \/ SendBodyFails \/ SendBodyDone \/ SendFile \/ Destroy
  PROVE  TypeOK'
<1>1. /\ ep \in EndPointType /\ ep.sent \in Nat /\ ep.total \in Nat /\ ep.body \in Nat
      /\ ep.header \in Seq(PartType) /\ ep.fd \in [open : BOOLEAN, size : Nat]
      /\ client \in [got : Seq(PartType), bytes : Nat] /\ fds \in Nat
      /\ ep.size \in Int \cup {Undef} /\ SendMax \in Nat
  BY EndPointAssumption DEF TypeOK, EndPointType, IntType
<1>2. CASE SendPart
  <2>1. ep' = [ep EXCEPT !.sent = ep.sent + 1] /\ ep'.sent = ep.sent + 1
    BY <1>1, <1>2 DEF SendPart, EndPointType
  <2>5. ep.sent + 1 \in Nat
    BY <1>1
  <2>2. ep' \in EndPointType
    BY <1>1, <2>1, <2>5, SetSent
  <2>3. CASE peer = "reset"
    BY <1>2, <2>2, <2>3 DEF SendPart, TypeOK, fileVars
  <2>4. CASE peer # "reset"
    <3>1. client' = [client EXCEPT !.got = Append(client.got, ep.header[ep.sent + 1])]
      BY <1>2, <2>1, <2>4 DEF SendPart
    <3>2. ep.sent + 1 \in 1..Len(ep.header)
      BY <1>1, <1>2 DEF SendPart, AllPartsSent, SentInv
    <3>3. ep.header[ep.sent + 1] \in PartType
      BY <1>1, <3>2
    <3>5. Append(client.got, ep.header[ep.sent + 1]) \in Seq(PartType)
      BY <1>1, <3>3
    <3>4. client' \in [got : Seq(PartType), bytes : Nat]
      BY <1>1, <3>1, <3>5
    <3> QED BY <1>2, <2>2, <3>4 DEF SendPart, TypeOK, fileVars
  <2> QED BY <2>3, <2>4
<1>3. CASE SendBody
  <2>1. PICK n \in 1..(ep.body - ep.total) :
          /\ ep' = [ep EXCEPT !.total = ep.total + n]
          /\ client' = [client EXCEPT !.bytes = client.bytes + n]
    BY <1>3 DEF SendBody
  <2>2. ep.total + n \in Nat /\ client.bytes + n \in Nat
    BY <1>1
  <2>3. ep' \in EndPointType
    BY <1>1, <2>1, <2>2, SetTotal
  <2>4. client' \in [got : Seq(PartType), bytes : Nat]
    BY <1>1, <2>1, <2>2
  <2> QED BY <1>3, <2>3, <2>4 DEF SendBody, TypeOK, fileVars
<1>4. CASE SendBodyFails
  <2>1. ep' = [ep EXCEPT !.total = ToSizeT(ep.total - 1)]
    BY <1>4 DEF SendBodyFails
  <2>4. ep.total - 1 \in Int
    BY <1>1
  <2>2. ToSizeT(ep.total - 1) \in Nat
    BY <2>4, SizeTRange
  <2>3. ep' \in EndPointType
    BY <1>1, <2>1, <2>2, SetTotal
  <2> QED BY <1>4, <2>3 DEF SendBodyFails, TypeOK, fileVars
<1>5. CASE SendBodyDone
  BY <1>5 DEF SendBodyDone, TypeOK, HandlerPc, fileVars
<1>6. CASE SendFile
  <2>1. PICK n \in Transfers : client' = [client EXCEPT !.bytes = client.bytes + n]
    BY <1>6 DEF SendFile
  <2>2. Transfers \subseteq Nat
    BY <1>1 DEF Transfers, Least
  <2>3. client' \in [got : Seq(PartType), bytes : Nat]
    <3>1. client.got \in Seq(PartType) /\ client.bytes + n \in Nat
      BY <1>1, <2>2
    <3>2. client' = [got |-> client.got, bytes |-> client.bytes + n]
      BY <1>1, <2>1
    <3> QED BY <3>1, <3>2
  <2>4. [ep.fd EXCEPT !.open = FALSE] \in [open : BOOLEAN, size : Nat]
    BY <1>1
  <2>5. ep' = [ep EXCEPT !.fd = [ep.fd EXCEPT !.open = FALSE]]
    BY <1>6 DEF SendFile
  <2>6. ep' \in EndPointType
    BY <1>1, <2>4, <2>5, SetFd
  <2>7. fds' \in Nat
    BY <1>1, <1>6 DEF SendFile, OpenWhileNeeded
  <2>8. pc' \in HandlerPc
    BY <1>6 DEF SendFile, HandlerPc
  <2> QED BY <1>6, <2>3, <2>6, <2>7, <2>8 DEF SendFile, TypeOK, fileVars
<1>7. CASE Destroy
  BY <1>7 DEF Destroy, TypeOK, HandlerPc, fileVars
<1> QED BY <1>2, <1>3, <1>4, <1>5, <1>6, <1>7

LEMMA TypeStep == TypeOK /\ OpenWhileNeeded /\ SentInv /\ [Next]_vars => TypeOK'
<1>1. ASSUME TypeOK, UNCHANGED vars
      PROVE  TypeOK'
  BY <1>1 DEF vars, TypeOK
<1> QED BY <1>1, ConnectType, PeerType, RecvType, RouteType, SendType
     DEF Next, HandlerStep

(***************************************************************************)
(* What the steps leave alone                                              *)
(***************************************************************************)

(* The request and what SendHttpResponse looks at. *)
Made  == <<ep.path, ep.cgi, ep.size, ep.code, ep.body, ep.header>>
Rest  == <<ep.request, Made, ep.sent, ep.total, ep.fd>>

RecvStep == \/ RecvHttpRequestLine \/ RecvHttpRequestHeader \/ RecvBlankLine
            \/ RecvHttpRequestBody \/ RecvStops
RouteStep == \/ BadMethod \/ Stat \/ StatIndex \/ ProcessCgi \/ ProcessNonCgi
             \/ HandlerErrorOpen \/ HandlerErrorNoPage \/ HandlerErrorStat
SendStep == \/ SendPart \/ SendBody \/ SendBodyFails \/ SendBodyDone \/ SendFile

(* Receiving changes nothing but the bytes left to receive. *)
LEMMA Receiving ==
  ASSUME TypeOK, RecvStep
  PROVE  /\ pc \in {"line", "header", "body"}
         /\ pc' \in {"header", "body", "route", "destroy"}
         /\ UNCHANGED <<Rest, peer, client, files, changes, fds>>
<1>1. ep \in EndPointType
  BY DEF TypeOK
<1>2. UNCHANGED Rest
  BY <1>1 DEF RecvStep, RecvHttpRequestLine, RecvHttpRequestHeader, RecvBlankLine,
              RecvHttpRequestBody, RecvStops, Rest, Made, EndPointType
<1> QED BY <1>2 DEF RecvStep, RecvHttpRequestLine, RecvHttpRequestHeader,
              RecvBlankLine, RecvHttpRequestBody, RecvStops, Take, fileVars

(* Building the response makes its header at the end, and does not touch   *)
(* what has been received or sent.                                         *)
LEMMA Deciding ==
  ASSUME TypeOK, RouteStep
  PROVE  /\ pc \in {"route", "stat2", "run", "err_open", "err_stat"}
         /\ UNCHANGED <<ep.request, ep.sent, ep.total>>
         /\ UNCHANGED <<wire, taken, peer, client, files, changes>>
         /\ \/ pc' \in {"stat2", "run", "err_open", "err_stat"} /\ ep'.header = ep.header
            \/ pc' = "send" /\ ep'.header # <<>>
<1>1. ep \in EndPointType
  BY DEF TypeOK
<1>2. \A e : \A n : PageLines(e, n) # <<>> /\ BareLines(e) # <<>>
  BY DEF PageLines, BareLines
<1>3. CASE BadMethod
  BY <1>1, <1>3 DEF BadMethod, Decide, EndPointType, fileVars
<1>4. CASE Stat
  <2> DEFINE p == Resolve(ep.request)
             e == [ep EXCEPT !.path = p, !.cgi = WantsCgi(ep.request)]
             e1 == [e EXCEPT !.code = 404]
             e2 == [e EXCEPT !.path = IndexOf[p], !.st = files[p]]
             e3 == WithStat(e, files[p])
  <2>1. /\ e1.request = ep.request /\ e1.sent = ep.sent /\ e1.total = ep.total
        /\ e1.header = ep.header
    BY <1>1 DEF EndPointType
  <2>3. /\ e2.request = ep.request /\ e2.sent = ep.sent /\ e2.total = ep.total
        /\ e2.header = ep.header
    BY <1>1 DEF EndPointType
  <2>4. /\ e3.request = ep.request /\ e3.sent = ep.sent /\ e3.total = ep.total
        /\ e3.header = ep.header
    BY <1>1 DEF WithStat, EndPointType
  <2>2. pc = "route" /\ (Decide(e1, "err_open") \/ Decide(e2, "stat2") \/ Decide(e3, "run"))
    BY <1>4 DEF Stat
  <2> HIDE DEF e1, e2, e3
  <2> QED BY <2>1, <2>2, <2>3, <2>4 DEF Decide, fileVars
<1>5. CASE StatIndex
  BY <1>1, <1>5 DEF StatIndex, Decide, WithStat, EndPointType, fileVars
<1>6. CASE ProcessCgi
  <2>1. PICK code \in CgiCodes(ep.path) :
          \E n \in IF Runnable(ep.path) THEN CgiOutput ELSE {0} :
             LET e == [ep EXCEPT !.code = code, !.body = n]
             IN  IF code = 200 THEN Decide(BuildOkResponse(e), "send")
                               ELSE Decide(e, "err_open")
    BY <1>6 DEF ProcessCgi
  <2>2. PICK n \in IF Runnable(ep.path) THEN CgiOutput ELSE {0} :
             LET e == [ep EXCEPT !.code = code, !.body = n]
             IN  IF code = 200 THEN Decide(BuildOkResponse(e), "send")
                               ELSE Decide(e, "err_open")
    BY <2>1
  <2> DEFINE e == [ep EXCEPT !.code = code, !.body = n]
             f == BuildOkResponse(e)
  <2>3. /\ e.request = ep.request /\ e.sent = ep.sent /\ e.total = ep.total
        /\ e.header = ep.header
        /\ f.request = ep.request /\ f.sent = ep.sent /\ f.total = ep.total
        /\ f.header # <<>>
    BY <1>1, <1>2 DEF BuildOkResponse, EndPointType
  <2>4. Decide(f, "send") \/ Decide(e, "err_open")
    BY <2>2
  <2> HIDE DEF e, f
  <2> QED BY <1>6, <2>3, <2>4 DEF ProcessCgi, Decide, fileVars
<1>7. CASE ProcessNonCgi
  <2> DEFINE e == [ep EXCEPT !.code = 200, !.fd = Opened(ep.path)]
             f == BuildOkResponse(e)
             g == [ep EXCEPT !.code = 404, !.fd = NoFd]
  <2>1. /\ f.request = ep.request /\ f.sent = ep.sent /\ f.total = ep.total
        /\ f.header # <<>>
        /\ g.request = ep.request /\ g.sent = ep.sent /\ g.total = ep.total
        /\ g.header = ep.header
    BY <1>1, <1>2 DEF BuildOkResponse, EndPointType
  <2>2. CASE files[ep.path].kind # "none"
    <3>1. ep' = f /\ pc' = "send"
      BY <1>7, <2>2 DEF ProcessNonCgi
    <3> HIDE DEF f
    <3> QED BY <1>7, <2>1, <3>1 DEF ProcessNonCgi, fileVars
  <2>3. CASE files[ep.path].kind = "none"
    <3>1. ep' = g /\ pc' = "err_open"
      BY <1>7, <2>3 DEF ProcessNonCgi
    <3> HIDE DEF g
    <3> QED BY <1>7, <2>1, <3>1 DEF ProcessNonCgi, fileVars
  <2> QED BY <2>2, <2>3
<1>8. CASE HandlerErrorOpen
  BY <1>1, <1>8 DEF HandlerErrorOpen, EndPointType, fileVars
<1>9. CASE HandlerErrorNoPage
  BY <1>1, <1>2, <1>9 DEF HandlerErrorNoPage, Decide, EndPointType, fileVars
<1>10. CASE HandlerErrorStat
  BY <1>1, <1>2, <1>10 DEF HandlerErrorStat, Decide, EndPointType, fileVars
<1> QED BY <1>3, <1>4, <1>5, <1>6, <1>7, <1>8, <1>9, <1>10 DEF RouteStep

(* Sending leaves the response as it is. *)
LEMMA Sending ==
  ASSUME TypeOK, SendStep
  PROVE  /\ pc = "send" /\ pc' \in {"send", "destroy"}
         /\ UNCHANGED <<ep.request, Made>>
         /\ UNCHANGED <<wire, taken, peer, files, changes>>
<1>1. ep \in EndPointType
  BY DEF TypeOK
<1>2. UNCHANGED <<ep.request, Made>>
  BY <1>1 DEF SendStep, SendPart, SendBody, SendBodyFails, SendBodyDone, SendFile,
              Made, EndPointType
<1> QED BY <1>2 DEF SendStep, SendPart, SendBody, SendBodyFails, SendBodyDone,
                    SendFile, fileVars

(* The world around the handler moves, the handler does not. *)
LEMMA Around ==
  ASSUME Finish \/ Reset \/ (\E p \in Path : Replace(p)) \/ UNCHANGED vars
  PROVE  /\ UNCHANGED <<pc, ep, taken, client, fds>>
         /\ wire' = wire \/ wire' = <<>>
         /\ peer = "reset" => peer' = "reset"
         /\ \/ files' = files /\ changes' = changes
            \/ changes' = changes + 1
<1>1. CASE Finish
  BY <1>1 DEF Finish, fileVars
<1>2. CASE Reset
  BY <1>2 DEF Reset, fileVars
<1>3. CASE \E p \in Path : Replace(p)
  BY <1>3 DEF Replace
<1>4. CASE UNCHANGED vars
  BY <1>4 DEF vars
<1> QED BY <1>1, <1>2, <1>3, <1>4

(* A new connection. *)
LEMMA Connecting ==
  ASSUME Connect
  PROVE  /\ pc = "closed" /\ pc' = "line" /\ ep'.request \in Request
         /\ wire' = Wire(ep'.request) /\ taken' = 0
         /\ ~ep'.fd.open /\ ep'.header = <<>> /\ ep'.sent = 0 /\ ep'.total = 0
         /\ ~ep'.cgi /\ client'.got = <<>> /\ client'.bytes = 0
         /\ fds' = fds
<1>1. PICK r \in Request : ep' = NewEndPoint(r) /\ wire' = Wire(r)
  BY DEF Connect
<1>2. /\ ep'.request = r /\ ~ep'.fd.open /\ ep'.header = <<>> /\ ep'.sent = 0
      /\ ep'.total = 0 /\ ~ep'.cgi
  BY <1>1 DEF NewEndPoint, NoFd
<1> QED BY <1>1, <1>2 DEF Connect

(***************************************************************************)
(* The open file                                                           *)
(***************************************************************************)

LEMMA OpenStep ==
  TypeOK /\ OpenWhileNeeded /\ FoundInv /\ [Next]_vars => OpenWhileNeeded'
<1> SUFFICES ASSUME TypeOK, OpenWhileNeeded, FoundInv, [Next]_vars
             PROVE  OpenWhileNeeded'
  OBVIOUS
<1>0. ep \in EndPointType /\ fds \in Nat
  BY DEF TypeOK
<1>1. CASE Connect
  BY <1>1, Connecting DEF OpenWhileNeeded
<1>2. CASE Finish \/ Reset \/ (\E p \in Path : Replace(p)) \/ UNCHANGED vars
  BY <1>2, Around DEF OpenWhileNeeded
<1>3. CASE RecvStep
  BY <1>3, Receiving DEF OpenWhileNeeded, Rest, Made
<1>4. CASE BadMethod \/ Stat \/ StatIndex
  <2>1. pc \in {"route", "stat2"} /\ UNCHANGED fds /\ pc' # "send"
    BY <1>4 DEF BadMethod, Stat, StatIndex, Decide
  <2>2. ep'.fd = ep.fd
    <3>1. CASE BadMethod
      BY <1>0, <3>1 DEF BadMethod, Decide, EndPointType
    <3>2. CASE Stat
      <4> DEFINE p == Resolve(ep.request)
                 e == [ep EXCEPT !.path = p, !.cgi = WantsCgi(ep.request)]
                 e1 == [e EXCEPT !.code = 404]
                 e2 == [e EXCEPT !.path = IndexOf[p], !.st = files[p]]
                 e3 == WithStat(e, files[p])
      <4>1. e1.fd = ep.fd /\ e2.fd = ep.fd /\ e3.fd = ep.fd
        BY <1>0 DEF WithStat, EndPointType
      <4>2. \/ Decide(e1, "err_open") \/ Decide(e2, "stat2") \/ Decide(e3, "run")
        BY <3>2 DEF Stat
      <4> HIDE DEF e1, e2, e3
      <4> QED BY <4>1, <4>2 DEF Decide
    <3>3. CASE StatIndex
      BY <1>0, <3>3 DEF StatIndex, Decide, WithStat, EndPointType
    <3> QED BY <1>4, <3>1, <3>2, <3>3
  <2>3. ~ep'.fd.open
    BY <2>1, <2>2 DEF OpenWhileNeeded
  <2> QED BY <2>1, <2>2, <2>3 DEF OpenWhileNeeded
<1>5. CASE ProcessCgi
  <2>1. PICK code \in CgiCodes(ep.path) :
          \E n \in IF Runnable(ep.path) THEN CgiOutput ELSE {0} :
             LET e == [ep EXCEPT !.code = code, !.body = n]
             IN  IF code = 200 THEN Decide(BuildOkResponse(e), "send")
                               ELSE Decide(e, "err_open")
    BY <1>5 DEF ProcessCgi
  <2>2. PICK n \in IF Runnable(ep.path) THEN CgiOutput ELSE {0} :
             LET e == [ep EXCEPT !.code = code, !.body = n]
             IN  IF code = 200 THEN Decide(BuildOkResponse(e), "send")
                               ELSE Decide(e, "err_open")
    BY <2>1
  <2> DEFINE e == [ep EXCEPT !.code = code, !.body = n]
             f == BuildOkResponse(e)
  <2>3. e.fd = ep.fd /\ f.fd = ep.fd /\ f.code = code
    BY <1>0 DEF BuildOkResponse, EndPointType
  <2>4. (code = 200 /\ Decide(f, "send")) \/ Decide(e, "err_open")
    BY <2>2
  <2> HIDE DEF e, f
  <2>5. pc = "run"
    BY <1>5 DEF ProcessCgi
  <2> QED BY <2>3, <2>4, <2>5 DEF Decide, OpenWhileNeeded
<1>6. CASE ProcessNonCgi
  <2>1. pc = "run" /\ ~ep.cgi
    BY <1>6 DEF ProcessNonCgi
  <2>2. ep'.cgi = ep.cgi
    <3> DEFINE e1 == [ep EXCEPT !.code = 200, !.fd = Opened(ep.path)]
               e2 == [ep EXCEPT !.code = 404, !.fd = NoFd]
               e3 == BuildOkResponse(e1)
    <3>1. e1.cgi = ep.cgi /\ e2.cgi = ep.cgi /\ e3.cgi = e1.cgi
      BY <1>0 DEF BuildOkResponse, EndPointType
    <3>2. ep' = e3 \/ ep' = e2
      BY <1>6 DEF ProcessNonCgi
    <3> HIDE DEF e1, e2, e3
    <3> QED BY <3>1, <3>2
  <2>3. CASE files[ep.path].kind # "none"
    <3>1. fds' = fds + 1 /\ ep'.fd = Opened(ep.path) /\ pc' = "send"
      BY <1>0, <1>6, <2>3 DEF ProcessNonCgi, BuildOkResponse, EndPointType
    <3>2. ep'.fd.open
      BY <3>1 DEF Opened
    <3>3. ~ep.fd.open
      BY <2>1 DEF OpenWhileNeeded
    <3> QED BY <2>1, <2>2, <3>1, <3>2, <3>3 DEF OpenWhileNeeded
  <2>4. CASE files[ep.path].kind = "none"
    <3>1. fds' = fds /\ ep'.fd = NoFd /\ pc' = "err_open"
      BY <1>0, <1>6, <2>4 DEF ProcessNonCgi, EndPointType
    <3>2. ~ep'.fd.open
      BY <3>1 DEF NoFd
    <3> QED BY <2>1, <3>1, <3>2 DEF OpenWhileNeeded
  <2> QED BY <2>3, <2>4
<1>7. CASE HandlerErrorOpen \/ HandlerErrorNoPage
  <2>1. pc = "err_open" /\ ~ep'.cgi
    BY <1>0, <1>7 DEF HandlerErrorOpen, HandlerErrorNoPage, Decide, EndPointType
  <2>2. \/ fds' = fds + 1 /\ ep'.fd = Opened(ErrorPage) /\ pc' = "err_stat"
        \/ fds' = fds /\ ep'.fd = NoFd
    BY <1>0, <1>7 DEF HandlerErrorOpen, HandlerErrorNoPage, Decide, EndPointType
  <2>3. Opened(ErrorPage).open /\ ~NoFd.open
    BY DEF Opened, NoFd
  <2>4. ~ep.fd.open
    BY <2>1 DEF OpenWhileNeeded
  <2> QED BY <2>1, <2>2, <2>3, <2>4 DEF OpenWhileNeeded
<1>8. CASE HandlerErrorStat
  <2>1. pc = "err_stat" /\ pc' = "send" /\ fds' = fds
        /\ ep'.fd = ep.fd /\ ep'.cgi = ep.cgi /\ ep'.code = ep.code
    BY <1>0, <1>8 DEF HandlerErrorStat, Decide, EndPointType
  <2>2. ep.fd.open /\ ~ep.cgi
    BY <2>1 DEF FoundInv, OpenWhileNeeded
  <2> QED BY <2>1, <2>2 DEF OpenWhileNeeded
<1>9. CASE SendPart \/ SendBody \/ SendBodyFails \/ SendBodyDone
  <2>1. pc = "send" /\ fds' = fds
        /\ ep'.fd = ep.fd /\ ep'.cgi = ep.cgi /\ ep'.code = ep.code
    BY <1>0, <1>9 DEF SendPart, SendBody, SendBodyFails, SendBodyDone, EndPointType
  <2>2. pc' = "send" \/ (ep.cgi /\ pc' = "destroy")
    BY <1>9, <2>1 DEF SendPart, SendBody, SendBodyFails, SendBodyDone
  <2> QED BY <2>1, <2>2 DEF OpenWhileNeeded
<1>10. CASE SendFile
  <2>1. ~ep'.fd.open /\ pc' = "destroy" /\ fds' = IF ep.fd.open THEN fds - 1 ELSE fds
    BY <1>0, <1>10 DEF SendFile, EndPointType
  <2> QED BY <1>0, <2>1 DEF OpenWhileNeeded
<1>11. CASE Destroy
  BY <1>11 DEF Destroy, OpenWhileNeeded
<1> QED BY <1>1, <1>2, <1>3, <1>4, <1>5, <1>6, <1>7, <1>8, <1>9, <1>10, <1>11
        DEF Next, HandlerStep, RecvStep

(***************************************************************************)
(* Receiving the request                                                   *)
(***************************************************************************)

LEMMA WireStep == TypeOK /\ WireInv /\ [Next]_vars => WireInv'
<1> SUFFICES ASSUME TypeOK, WireInv, [Next]_vars
             PROVE  WireInv'
  OBVIOUS
<1>0. /\ wire \in Seq({"line", "header", "blank", "byte"}) /\ taken \in Nat
      /\ Request \subseteq RequestType
  BY EndPointAssumption DEF TypeOK
<1>1. CASE Connect
  <2>1. /\ taken' = 0 /\ wire' = Wire(ep'.request)
        /\ ep'.request \in RequestType
    BY <1>0, <1>1, Connecting
  <2>2. Len(wire') \in Nat
    BY <2>1, Items
  <2> QED BY <2>1, <2>2 DEF WireInv
<1>2. CASE Finish \/ Reset \/ (\E p \in Path : Replace(p)) \/ UNCHANGED vars
  BY <1>2, Around DEF WireInv
<1>3. CASE RecvStep
  <2>1. ep'.request = ep.request
    BY <1>3, Receiving DEF Rest
  <2>2. CASE RecvStops
    BY <2>1, <2>2 DEF RecvStops, WireInv
  <2>3. CASE ~RecvStops
    <3>1. wire # <<>> /\ wire' = Tail(wire) /\ taken' = taken + 1
      BY <1>3, <2>3 DEF RecvStep, RecvHttpRequestLine, RecvHttpRequestHeader,
                        RecvBlankLine, RecvHttpRequestBody, Take
    <3>2. /\ Len(wire') = Len(wire) - 1 /\ Len(wire) \in Nat
          /\ \A i \in 1..Len(wire') : wire'[i] = wire[i + 1]
      BY <1>0, <3>1
    <3>3. taken' + Len(wire') = Len(Wire(ep'.request))
      BY <1>0, <2>1, <3>1, <3>2 DEF WireInv
    <3>4. ASSUME NEW i \in 1..Len(wire')
          PROVE  wire'[i] = Wire(ep'.request)[taken' + i]
      <4>1. i + 1 \in 1..Len(wire)
        BY <3>2
      <4>2. wire[i + 1] = Wire(ep.request)[taken + (i + 1)]
        BY <3>1, <4>1 DEF WireInv
      <4>3. taken + (i + 1) = taken' + i
        BY <1>0, <3>1
      <4> QED BY <2>1, <3>2, <4>2, <4>3
    <3> QED BY <3>3, <3>4 DEF WireInv
  <2> QED BY <2>2, <2>3
<1>4. CASE RouteStep
  BY <1>4, Deciding DEF WireInv
<1>5. CASE SendStep
  BY <1>5, Sending DEF WireInv
<1>6. CASE Destroy
  BY <1>6 DEF Destroy, WireInv
<1> QED BY <1>1, <1>2, <1>3, <1>4, <1>5, <1>6
        DEF Next, HandlerStep, RecvStep, RouteStep, SendStep

(* What comes next tells how many headers there are. *)
LEMMA NextItem ==
  ASSUME TypeOK, WireInv, NEW item, Take(item)
  PROVE  taken + 1 \in 1..Len(Wire(ep.request)) /\ item = Item(ep.request, taken + 1)
<1>1. /\ wire \in Seq({"line", "header", "blank", "byte"}) /\ taken \in Nat
      /\ ep.request \in RequestType
  BY EndPointAssumption DEF TypeOK, EndPointType
<1>2. wire # <<>> /\ Head(wire) = item
  BY DEF Take
<1>3. Len(wire) \in Nat \ {0} /\ wire[1] = item
  BY <1>1, <1>2
<1>4. taken + Len(wire) = Len(Wire(ep.request)) /\ wire[1] = Wire(ep.request)[taken + 1]
  BY <1>2, <1>3 DEF WireInv
<1>5. taken + 1 \in 1..Len(Wire(ep.request))
  BY <1>1, <1>3, <1>4
<1> QED BY <1>1, <1>3, <1>4, <1>5, Items

LEMMA RecvInvStep == TypeOK /\ WireInv /\ RecvInv /\ [Next]_vars => RecvInv'
<1> SUFFICES ASSUME TypeOK, WireInv, RecvInv, [Next]_vars
             PROVE  RecvInv'
  OBVIOUS
<1> DEFINE r == ep.request
<1>0. /\ ep \in EndPointType /\ taken \in Nat /\ ep.left \in IntType
      /\ r \in RequestType /\ Len(r.lengths) \in Nat
      /\ Countdown(ep.left) \in Nat /\ Countdown(ContentLength(r)) \in Nat
  BY LengthType, OneLess DEF TypeOK, EndPointType
<1>01. Countdown(0) = 0
  BY DEF Countdown
<1> HIDE DEF r
<1>1. CASE Connect
  BY <1>1, Connecting DEF RecvInv, Answering
<1>2. CASE Finish \/ Reset \/ (\E p \in Path : Replace(p)) \/ UNCHANGED vars
  BY <1>2, Around DEF RecvInv
<1>4. CASE RecvHttpRequestLine
  <2>1. pc = "line" /\ taken' = taken + 1 /\ pc' = "header" /\ ep' = ep
    BY <1>4 DEF RecvHttpRequestLine, Take
  <2>2. taken' = 1
    BY <2>1 DEF RecvInv
  <2> QED BY <1>0, <2>1, <2>2 DEF RecvInv, Answering, r
<1>5. CASE RecvHttpRequestHeader
  <2>1. pc = "header" /\ taken' = taken + 1 /\ pc' = "header" /\ ep' = ep
    BY <1>5 DEF RecvHttpRequestHeader, Take
  <2>2. "header" = Item(r, taken + 1) /\ taken >= 1
    BY <1>5, <2>1, NextItem DEF RecvHttpRequestHeader, RecvInv, r
  <2>3. taken + 1 <= 1 + Len(r.lengths)
    BY <1>0, <2>2 DEF Item
  <2> QED BY <1>0, <2>1, <2>2, <2>3 DEF RecvInv, Answering, r
<1>6. CASE RecvBlankLine
  <2>1. /\ pc = "header" /\ taken' = taken + 1
        /\ ep' = [ep EXCEPT !.left = ContentLength(r)]
        /\ pc' = IF ep'.left = 0 THEN "route" ELSE "body"
    BY <1>6 DEF RecvBlankLine, Take, r
  <2>2. "blank" = Item(r, taken + 1) /\ taken >= 1
    BY <1>6, <2>1, NextItem DEF RecvBlankLine, RecvInv, r
  <2>3. taken + 1 = 2 + Len(r.lengths)
    BY <1>0, <2>2 DEF Item
  <2>4. ep'.left = ContentLength(r) /\ ep'.request = r
    BY <1>0, <2>1 DEF EndPointType, r
  <2>5. taken' + Countdown(ep'.left) = Needed(r)
    BY <1>0, <2>1, <2>3, <2>4 DEF Needed
  <2>6. ep'.left = 0 => taken' = Needed(r)
    BY <1>0, <1>01, <2>1, <2>5
  <2> QED BY <2>1, <2>4, <2>5, <2>6 DEF RecvInv, Answering
<1>7. CASE RecvHttpRequestBody
  <2>1. /\ pc = "body" /\ taken' = taken + 1
        /\ ep' = [ep EXCEPT !.left = ToInt(ep.left - 1)]
        /\ pc' = IF ep'.left = 0 THEN "route" ELSE "body"
    BY <1>7 DEF RecvHttpRequestBody, Take
  <2>2. ep'.left = ToInt(ep.left - 1) /\ ep'.request = r
    BY <1>0, <2>1 DEF EndPointType, r
  <2>3. ep.left # 0 /\ taken + Countdown(ep.left) = Needed(r)
    BY <2>1 DEF RecvInv, r
  <2>4. Countdown(ep'.left) = Countdown(ep.left) - 1
    BY <1>0, <2>2, <2>3, OneLess
  <2>5. taken' + Countdown(ep'.left) = Needed(r)
    BY <1>0, <2>1, <2>3, <2>4
  <2>6. ep'.left = 0 => taken' = Needed(r)
    BY <1>0, <1>01, <2>1, <2>5
  <2> QED BY <2>1, <2>2, <2>5, <2>6 DEF RecvInv, Answering
<1>8. CASE RecvStops
  BY <1>8 DEF RecvStops, RecvInv, Answering
<1>9. CASE RouteStep
  <2>1. pc \in Answering /\ pc' \in Answering /\ taken' = taken /\ ep'.request = r
    BY <1>9, Deciding DEF Answering, r
  <2> QED BY <2>1 DEF RecvInv, Answering, r
<1>10. CASE SendStep
  <2>1. pc \in Answering /\ pc' \in {"send", "destroy"} /\ taken' = taken
        /\ ep'.request = r
    BY <1>10, Sending DEF Answering, r
  <2> QED BY <2>1 DEF RecvInv, Answering, r
<1>11. CASE Destroy
  BY <1>11 DEF Destroy, RecvInv, Answering
<1> QED BY <1>1, <1>2, <1>4, <1>5, <1>6, <1>7, <1>8, <1>9, <1>10, <1>11
        DEF Next, HandlerStep, RouteStep, SendStep

(***************************************************************************)
(* Sending the response                                                    *)
(***************************************************************************)

(* One more part is a longer prefix. *)
LEMMA LongerPrefix ==
  ASSUME NEW S, NEW h \in Seq(S), NEW n \in Nat, n < Len(h)
  PROVE  Append(SubSeq(h, 1, n), h[n + 1]) = SubSeq(h, 1, n + 1)
<1> DEFINE s == Append(SubSeq(h, 1, n), h[n + 1])
           t == SubSeq(h, 1, n + 1)
<1>1. /\ SubSeq(h, 1, n) \in Seq(S) /\ Len(SubSeq(h, 1, n)) = n
      /\ \A i \in 1..n : SubSeq(h, 1, n)[i] = h[i]
  OBVIOUS
<1>2. /\ t \in Seq(S) /\ Len(t) = n + 1
      /\ \A i \in 1..(n + 1) : t[i] = h[i]
  OBVIOUS
<1>3. h[n + 1] \in S
  OBVIOUS
<1>4. /\ s \in Seq(S) /\ Len(s) = n + 1 /\ s[n + 1] = h[n + 1]
      /\ \A i \in 1..n : s[i] = h[i]
  BY <1>1, <1>3
<1> HIDE DEF s, t
<1>5. \A i \in 1..(n + 1) : s[i] = t[i]
  BY <1>2, <1>4
<1>6. s = t
  BY <1>2, <1>4, <1>5
<1> QED BY <1>6 DEF s, t

(* Nothing more to send: what the client has is the whole header. *)
LEMMA WholeHeader ==
  ASSUME TypeOK, SentInv, DeliversPrefix, pc = "send", AllPartsSent, peer # "reset"
  PROVE  client.got = ep.header
<1>1. ep.header \in Seq(PartType)
  BY DEF TypeOK, EndPointType
<1>2. Len(client.got) = Len(ep.header)
  BY DEF SentInv, AllPartsSent
<1>3. client.got = SubSeq(ep.header, 1, Len(ep.header))
  BY <1>2 DEF DeliversPrefix
<1> QED BY <1>1, <1>3

LEMMA SentStep ==
  TypeOK /\ SentInv /\ DeliversPrefix /\ [Next]_vars => SentInv' /\ DeliversPrefix'
<1> SUFFICES ASSUME TypeOK, SentInv, DeliversPrefix, [Next]_vars
             PROVE  SentInv' /\ DeliversPrefix'
  OBVIOUS
<1>0. /\ ep \in EndPointType /\ ep.header \in Seq(PartType) /\ ep.body \in Nat
      /\ ep.sent \in Nat /\ ep.total \in Nat
      /\ client \in [got : Seq(PartType), bytes : Nat]
      /\ client.bytes \in Nat /\ client.got \in Seq(PartType)
  BY DEF TypeOK, EndPointType
<1>1. CASE Connect
  <2>1. /\ pc' = "line" /\ ep'.header = <<>> /\ ep'.sent = 0 /\ ep'.total = 0
        /\ ~ep'.cgi /\ client'.got = <<>> /\ client'.bytes = 0
    BY <1>1, Connecting
  <2>2. <<>> = SubSeq(<<>>, 1, Len(<<>>))
    OBVIOUS
  <2> QED BY <2>1, <2>2 DEF SentInv, DeliversPrefix
<1>2. CASE Finish \/ Reset \/ (\E p \in Path : Replace(p)) \/ UNCHANGED vars
  <2>1. UNCHANGED <<pc, ep, client>> /\ (peer = "reset" => peer' = "reset")
    BY <1>2, Around
  <2> QED BY <2>1 DEF SentInv, DeliversPrefix, AllPartsSent
<1>3. CASE RecvStep
  <2>1. /\ pc \in {"line", "header", "body"}
        /\ pc' \in {"header", "body", "route", "destroy"}
        /\ UNCHANGED <<ep.header, ep.sent, ep.total, ep.cgi, ep.body, client>>
    BY <1>3, Receiving DEF Rest, Made
  <2>2. ep.header = <<>> /\ ep.sent = 0 /\ ep.total = 0
    BY <2>1 DEF SentInv, HandlerPc
  <2>3. client.got = <<>> /\ client.bytes = 0
    BY <2>2 DEF SentInv
  <2>4. SentInv'
    BY <2>1, <2>2, <2>3 DEF SentInv
  <2>5. DeliversPrefix'
    BY <2>1 DEF DeliversPrefix
  <2> QED BY <2>4, <2>5
<1>4. CASE RouteStep
  <2>1. /\ pc \in {"route", "stat2", "run", "err_open", "err_stat"}
        /\ UNCHANGED <<ep.sent, ep.total, peer, client>>
        /\ \/ pc' \in {"stat2", "run", "err_open", "err_stat"} /\ ep'.header = ep.header
           \/ pc' = "send" /\ ep'.header # <<>>
    BY <1>4, Deciding
  <2>2. ep.header = <<>> /\ ep.sent = 0 /\ ep.total = 0
    BY <2>1 DEF SentInv, HandlerPc
  <2>3. client.got = <<>> /\ client.bytes = 0
    BY <2>2 DEF SentInv
  <2>4. ep'.header \in Seq(PartType) /\ ep'.body \in Nat
    BY <1>4, RouteType DEF RouteStep, TypeOK, EndPointType
  <2>5. SentInv'
    BY <2>1, <2>2, <2>3, <2>4 DEF SentInv
  <2>6. client'.got = SubSeq(ep'.header, 1, Len(client'.got))
    BY <2>1, <2>3, <2>4
  <2>7. DeliversPrefix'
    BY <2>1, <2>3, <2>4, <2>6 DEF DeliversPrefix
  <2> QED BY <2>5, <2>7
<1>5. CASE SendStep
  <2>1. /\ pc = "send" /\ pc' \in {"send", "destroy"}
        /\ UNCHANGED <<ep.cgi, ep.body, ep.header, peer>>
        /\ ep.header # <<>> /\ Len(client.got) <= ep.sent /\ ep.sent <= Len(ep.header)
    BY <1>5, Sending DEF Made, SentInv
  <2>2. CASE SendPart
    <3>1. ep'.sent = ep.sent + 1 /\ ep'.total = ep.total /\ ~AllPartsSent /\ pc' = "send"
      BY <1>0, <2>2 DEF SendPart, EndPointType
    <3>2. client.bytes = 0 /\ ep.total = 0 /\ ep.sent < Len(ep.header)
      BY <1>0, <2>1, <3>1 DEF SentInv, AllPartsSent
    <3>3. CASE peer = "reset"
      <4>1. client' = client
        BY <2>2, <3>3 DEF SendPart
      <4>2. SentInv'
        BY <1>0, <2>1, <3>1, <3>2, <3>3, <4>1 DEF SentInv
      <4>3. DeliversPrefix'
        BY <2>1, <4>1 DEF DeliversPrefix
      <4> QED BY <4>2, <4>3
    <3>4. CASE peer # "reset"
      <4>1. client' = [client EXCEPT !.got = Append(client.got, ep.header[ep.sent + 1])]
        BY <2>2, <3>1, <3>4 DEF SendPart
      <4>2. /\ client'.bytes = 0
            /\ client'.got = Append(client.got, ep.header[ep.sent + 1])
        BY <1>0, <3>2, <4>1
      <4>3. Len(client.got) = ep.sent
        BY <2>1, <3>4 DEF SentInv
      <4>4. client'.got = SubSeq(ep.header, 1, ep.sent + 1)
        BY <1>0, <3>2, <4>2, <4>3, LongerPrefix DEF DeliversPrefix
      <4>5. Len(client'.got) = ep.sent + 1
        BY <1>0, <4>2, <4>3
      <4>6. SentInv'
        BY <1>0, <2>1, <3>1, <3>2, <4>2, <4>5 DEF SentInv
      <4>7. DeliversPrefix'
        BY <1>0, <2>1, <3>2, <4>2, <4>4, <4>5 DEF DeliversPrefix
      <4> QED BY <4>6, <4>7
    <3> QED BY <3>3, <3>4
  <2>3. CASE SendBody
    <3>1. /\ AllPartsSent /\ ep.cgi /\ peer # "reset" /\ pc' = "send"
          /\ \E n \in 1..(ep.body - ep.total) :
               /\ ep' = [ep EXCEPT !.total = ep.total + n]
               /\ client' = [client EXCEPT !.bytes = client.bytes + n]
      BY <2>3 DEF SendBody
    <3>2. PICK n \in 1..(ep.body - ep.total) :
            /\ ep' = [ep EXCEPT !.total = ep.total + n]
            /\ client' = [client EXCEPT !.bytes = client.bytes + n]
      BY <3>1
    <3>3. /\ ep'.total = ep.total + n /\ ep'.sent = ep.sent
          /\ client'.bytes = client.bytes + n /\ client'.got = client.got
      BY <1>0, <3>2 DEF EndPointType
    <3>4. client.bytes = ep.total /\ Len(client.got) = ep.sent
      BY <2>1, <3>1 DEF SentInv
    <3>5. client'.bytes = ep'.total /\ client'.bytes <= ep.body
      BY <1>0, <3>3, <3>4
    <3>6. client.got = ep.header
      BY <2>1, <3>1, WholeHeader
    <3>7. SentInv'
      BY <2>1, <3>1, <3>3, <3>4, <3>5 DEF SentInv, AllPartsSent
    <3>8. DeliversPrefix'
      BY <2>1, <3>3, <3>5, <3>6 DEF DeliversPrefix
    <3> QED BY <3>7, <3>8
  <2>4. CASE SendBodyFails
    <3>1. /\ AllPartsSent /\ ep.cgi /\ peer = "reset" /\ pc' = "send"
          /\ client' = client /\ ep'.sent = ep.sent
      BY <1>0, <2>4 DEF SendBodyFails, EndPointType
    <3>2. SentInv'
      BY <2>1, <3>1 DEF SentInv, AllPartsSent
    <3>3. DeliversPrefix'
      BY <2>1, <3>1 DEF DeliversPrefix
    <3> QED BY <3>2, <3>3
  <2>5. CASE SendBodyDone
    <3>1. /\ AllPartsSent /\ pc' = "destroy" /\ client' = client /\ ep' = ep
      BY <2>5 DEF SendBodyDone
    <3>2. peer # "reset" => client.got = ep.header
      BY <2>1, <3>1, WholeHeader
    <3>3. SentInv'
      BY <2>1, <3>1, <3>2 DEF SentInv
    <3>4. DeliversPrefix'
      BY <3>1 DEF DeliversPrefix
    <3> QED BY <3>3, <3>4
  <2>6. CASE SendFile
    <3>1. /\ AllPartsSent /\ ~ep.cgi /\ pc' = "destroy"
          /\ \E n \in Transfers : client' = [client EXCEPT !.bytes = client.bytes + n]
      BY <2>6 DEF SendFile
    <3>2. PICK n \in Transfers : client' = [client EXCEPT !.bytes = client.bytes + n]
      BY <3>1
    <3>3. client'.got = client.got /\ client'.bytes = client.bytes + n
      BY <1>0, <3>2
    <3>4. peer # "reset" => client.got = ep.header
      BY <2>1, <3>1, WholeHeader
    <3>5. peer = "reset" => n = 0
      BY DEF Transfers
    <3>6. client.bytes = 0
      BY <2>1, <3>1 DEF SentInv
    <3>7. SentInv'
      BY <2>1, <3>1, <3>3, <3>4 DEF SentInv
    <3>8. DeliversPrefix'
      BY <2>1, <3>1, <3>3, <3>4, <3>5, <3>6 DEF DeliversPrefix
    <3> QED BY <3>7, <3>8
  <2> QED BY <1>5, <2>2, <2>3, <2>4, <2>5, <2>6 DEF SendStep
<1>6. CASE Destroy
  BY <1>6 DEF Destroy, SentInv, DeliversPrefix
<1> QED BY <1>1, <1>2, <1>3, <1>4, <1>5, <1>6
        DEF Next, HandlerStep, RecvStep, RouteStep, SendStep

LEMMA AnsweredStep ==
  TypeOK /\ RecvInv /\ SentInv /\ DeliversPrefix /\ AnsweredIffWhole /\ [Next]_vars
    => AnsweredIffWhole'
<1> SUFFICES ASSUME TypeOK, RecvInv, SentInv, DeliversPrefix, AnsweredIffWhole,
                    [Next]_vars
             PROVE  AnsweredIffWhole'
  OBVIOUS
<1>0. /\ ep \in EndPointType /\ client \in [got : Seq(PartType), bytes : Nat]
      /\ taken \in Nat /\ Len(ep.request.lengths) \in Nat
      /\ Countdown(ContentLength(ep.request)) \in Nat
      /\ ep.left # 0 => Countdown(ep.left) \in Nat \ {0}
  <2>1. ep.left \in IntType /\ ep.left \in Int /\ MaxInt \in Nat
    BY OneLess, EndPointAssumption DEF TypeOK, EndPointType
  <2>2. ep.left # 0 => Countdown(ep.left) \in Nat \ {0}
    BY <2>1 DEF Countdown, IntType
  <2> QED BY <2>2, LengthType, OneLess DEF TypeOK, EndPointType
<1>1. CASE Connect
  BY <1>1, Connecting DEF AnsweredIffWhole
<1>2. CASE Finish \/ Reset \/ (\E p \in Path : Replace(p)) \/ UNCHANGED vars
  <2>1. UNCHANGED <<pc, ep, taken, client>> /\ (peer = "reset" => peer' = "reset")
    BY <1>2, Around
  <2> QED BY <2>1 DEF AnsweredIffWhole
<1>3. CASE RecvStep
  <2>1. /\ pc \in {"line", "header", "body"} /\ ep'.request = ep.request
        /\ UNCHANGED <<ep.header, client>>
    BY <1>3, Receiving DEF Rest, Made
  <2>2. ep.header = <<>>
    BY <2>1 DEF SentInv, HandlerPc
  <2>3. client.got = <<>>
    BY <2>2 DEF SentInv
  <2>4. CASE RecvStops
    <3>1. taken' = taken
      BY <2>4 DEF RecvStops
    <3>2. taken # Needed(ep.request)
      BY <1>0, <2>1 DEF RecvInv, Needed
    <3> QED BY <2>1, <2>3, <3>1, <3>2 DEF AnsweredIffWhole
  <2>5. CASE ~RecvStops
    <3>1. pc' # "destroy"
      BY <1>3, <2>5 DEF RecvStep, RecvHttpRequestLine, RecvHttpRequestHeader,
                        RecvBlankLine, RecvHttpRequestBody
    <3> QED BY <2>1, <2>3, <3>1 DEF AnsweredIffWhole
  <2> QED BY <2>4, <2>5
<1>4. CASE RouteStep
  <2>1. pc \in Answering /\ pc' # "destroy"
        /\ UNCHANGED <<ep.request, taken, client>>
    BY <1>4, Deciding DEF Answering
  <2> QED BY <2>1 DEF AnsweredIffWhole
<1>5. CASE SendStep
  <2>1. /\ pc = "send" /\ UNCHANGED <<ep.request, ep.header, taken, peer>>
    BY <1>5, Sending DEF Made
  <2>2. taken = Needed(ep.request) /\ ep.header # <<>>
    BY <2>1 DEF RecvInv, Answering, SentInv
  <2>3. ASSUME pc' = "destroy", peer # "reset"
        PROVE  client'.got # <<>>
    <3>1. AllPartsSent /\ client'.got = client.got
      BY <1>0, <1>5, <2>1, <2>3 DEF SendStep, SendPart, SendBody, SendBodyFails,
                                    SendBodyDone, SendFile
    <3> QED BY <2>1, <2>2, <2>3, <3>1, WholeHeader
  <2> QED BY <2>1, <2>2, <2>3 DEF AnsweredIffWhole
<1>6. CASE Destroy
  BY <1>6 DEF Destroy, AnsweredIffWhole
<1> QED BY <1>1, <1>2, <1>3, <1>4, <1>5, <1>6
        DEF Next, HandlerStep, RecvStep, RouteStep, SendStep

(***************************************************************************)
(* Content-Length                                                          *)
(***************************************************************************)

LEMMA FoundStep == TypeOK /\ FoundInv /\ [Next]_vars => FoundInv'
<1> SUFFICES ASSUME TypeOK, FoundInv, [Next]_vars
             PROVE  FoundInv'
  OBVIOUS
<1>0. ep \in EndPointType /\ changes \in Nat
  BY EndPointAssumption DEF TypeOK
<1>1. CASE Connect
  BY <1>1, Connecting DEF FoundInv
<1>2. CASE Finish \/ Reset \/ (\E p \in Path : Replace(p)) \/ UNCHANGED vars
  <2>1. /\ UNCHANGED <<pc, ep>>
        /\ (files' = files /\ changes' = changes) \/ changes' = changes + 1
    BY <1>2, Around
  <2>2. changes' = 0 => files' = files /\ changes = 0
    BY <1>0, <2>1
  <2> QED BY <2>1, <2>2 DEF FoundInv, Opened
<1>3. CASE RecvStep
  BY <1>3, Receiving DEF FoundInv
<1>4. CASE BadMethod
  <2>1. pc' = "err_open" /\ ep'.code = 400
    BY <1>0, <1>4 DEF BadMethod, Decide, EndPointType
  <2> QED BY <2>1 DEF FoundInv
<1>5. CASE Stat
  <2> DEFINE p == Resolve(ep.request)
             e == [ep EXCEPT !.path = p, !.cgi = WantsCgi(ep.request)]
             e1 == [e EXCEPT !.code = 404]
             e2 == [e EXCEPT !.path = IndexOf[p], !.st = files[p]]
             e3 == WithStat(e, files[p])
  <2>1. e1.code = 404 /\ e3.path = p /\ e3.size = ToInt(files[p].size)
    BY <1>0 DEF WithStat, EndPointType
  <2>2. \/ Decide(e1, "err_open") \/ Decide(e2, "stat2") \/ Decide(e3, "run")
    BY <1>5 DEF Stat
  <2> HIDE DEF e1, e2, e3
  <2> QED BY <2>1, <2>2 DEF Decide, FoundInv, fileVars
<1>6. CASE StatIndex
  <2>1. /\ pc' = "run" /\ ep'.path = ep.path /\ UNCHANGED files
        /\ files[ep.path].kind # "none" => ep'.size = ToInt(files[ep.path].size)
    BY <1>0, <1>6 DEF StatIndex, Decide, WithStat, EndPointType, fileVars
  <2> QED BY <2>1 DEF FoundInv
<1>7. CASE ProcessCgi
  <2>1. PICK code \in CgiCodes(ep.path) :
          \E n \in IF Runnable(ep.path) THEN CgiOutput ELSE {0} :
             LET e == [ep EXCEPT !.code = code, !.body = n]
             IN  IF code = 200 THEN Decide(BuildOkResponse(e), "send")
                               ELSE Decide(e, "err_open")
    BY <1>7 DEF ProcessCgi
  <2>2. PICK n \in IF Runnable(ep.path) THEN CgiOutput ELSE {0} :
             LET e == [ep EXCEPT !.code = code, !.body = n]
             IN  IF code = 200 THEN Decide(BuildOkResponse(e), "send")
                               ELSE Decide(e, "err_open")
    BY <2>1
  <2> DEFINE e == [ep EXCEPT !.code = code, !.body = n]
  <2>3. pc' = "send" \/ (pc' = "err_open" /\ ep' = e /\ code # 200)
    BY <2>2 DEF Decide
  <2>4. e.code = code
    BY <1>0 DEF EndPointType
  <2> HIDE DEF e
  <2> QED BY <2>3, <2>4 DEF FoundInv
<1>8. CASE ProcessNonCgi
  <2> DEFINE e == [ep EXCEPT !.code = 404, !.fd = NoFd]
  <2>2. pc' = "send" \/ (pc' = "err_open" /\ ep' = e)
    BY <1>8 DEF ProcessNonCgi
  <2>3. e.code = 404
    BY <1>0 DEF EndPointType
  <2> HIDE DEF e
  <2>1. pc' = "send" \/ (pc' = "err_open" /\ ep'.code = 404)
    BY <2>2, <2>3
  <2> QED BY <2>1 DEF FoundInv
<1>9. CASE HandlerErrorOpen
  <2>1. /\ pc = "err_open" /\ pc' = "err_stat" /\ files[ErrorPage].kind # "none"
        /\ ep'.code = ep.code /\ ep'.fd = Opened(ErrorPage) /\ UNCHANGED files
    BY <1>0, <1>9 DEF HandlerErrorOpen, EndPointType, fileVars
  <2>2. ep'.fd.open /\ ep'.fd = Opened(ErrorPage)'
    BY <2>1 DEF Opened
  <2> QED BY <2>1, <2>2 DEF FoundInv
<1>10. CASE HandlerErrorNoPage \/ HandlerErrorStat
  <2>1. pc' = "send"
    BY <1>10 DEF HandlerErrorNoPage, HandlerErrorStat, Decide
  <2> QED BY <2>1 DEF FoundInv
<1>11. CASE SendStep
  BY <1>11, Sending DEF FoundInv
<1>12. CASE Destroy
  BY <1>12 DEF Destroy, FoundInv
<1> QED BY <1>1, <1>2, <1>3, <1>4, <1>5, <1>6, <1>7, <1>8, <1>9, <1>10, <1>11, <1>12
        DEF Next, HandlerStep, RecvStep, SendStep

(* A header that announces n is recognised by its third part. *)
LEMMA ThirdPart ==
  ASSUME NEW e, NEW n
  PROVE  Len(PageLines(e, n)) = 4 /\ PageLines(e, n)[3].value = n
BY DEF PageLines, Part

(* A response is made with a header that tells the truth about it. *)
LEMMA MadeTrue ==
  ASSUME TypeOK, OpenWhileNeeded, SentInv, FoundInv, RouteStep, pc' = "send"
  PROVE  ToldInv'
<1>0. /\ ep \in EndPointType /\ ep.path \in Path /\ ErrorPage \in Path
      /\ ep.size \in Int \cup {Undef} /\ Undef \notin Int
      /\ MaxInt \in Nat /\ SendMax \in 0..MaxInt
      /\ \A p \in Path : files[p].size \in Nat
  BY EndPointAssumption DEF TypeOK, EndPointType, IntType, FileState
<1>1. /\ pc \in {"route", "stat2", "run", "err_open", "err_stat"}
      /\ UNCHANGED <<client, files, changes>>
  BY Deciding
<1>2. client'.bytes = 0
  <2>1. ep.header = <<>>
    BY <1>1 DEF SentInv, HandlerPc
  <2> QED BY <1>1, <2>1 DEF SentInv
<1>3. CASE ProcessCgi
  <2>1. PICK code \in CgiCodes(ep.path) :
          \E n \in IF Runnable(ep.path) THEN CgiOutput ELSE {0} :
             LET e == [ep EXCEPT !.code = code, !.body = n]
             IN  IF code = 200 THEN Decide(BuildOkResponse(e), "send")
                               ELSE Decide(e, "err_open")
    BY <1>3 DEF ProcessCgi
  <2>2. PICK n \in IF Runnable(ep.path) THEN CgiOutput ELSE {0} :
             LET e == [ep EXCEPT !.code = code, !.body = n]
             IN  IF code = 200 THEN Decide(BuildOkResponse(e), "send")
                               ELSE Decide(e, "err_open")
    BY <2>1
  <2> DEFINE e == [ep EXCEPT !.code = code, !.body = n]
             f == BuildOkResponse(e)
  <2>3. ep' = f
    BY <2>2 DEF Decide
  <2>4. ep.cgi
    BY <1>3 DEF ProcessCgi
  <2>5. /\ f.cgi = ep.cgi /\ f.body = n /\ f.code = code
        /\ f.header = PageLines(e, n) /\ e.code = code
    BY <1>0, <2>4 DEF BuildOkResponse, EndPointType
  <2>6. n \in Nat
    BY EndPointAssumption
  <2> HIDE DEF e, f
  <2>7. ep'.header = PageLines(ep', n)
    BY <2>3, <2>5 DEF PageLines
  <2>8. Tells(n)'
    BY <1>2, <2>3, <2>4, <2>5, <2>6, <2>7 DEF Tells
  <2> QED BY <2>7, <2>8, ThirdPart DEF ToldInv
<1>4. CASE ProcessNonCgi
  <2> DEFINE e == [ep EXCEPT !.code = 200, !.fd = Opened(ep.path)]
             f == BuildOkResponse(e)
  <2> PICK n : n = ep.size
    OBVIOUS
  <2>1. ep' = f /\ ~ep.cgi /\ pc = "run" /\ files[ep.path].kind # "none"
    BY <1>4 DEF ProcessNonCgi
  <2>2. /\ f.cgi = ep.cgi /\ f.code = 200 /\ f.fd = Opened(ep.path)
        /\ f.size = ep.size /\ f.path = ep.path
        /\ f.header = PageLines(e, n) /\ e.code = 200
    BY <1>0, <2>1 DEF BuildOkResponse, EndPointType
  <2> HIDE DEF e, f
  <2>3. ep'.header = PageLines(ep', n)
    BY <2>1, <2>2 DEF PageLines
  <2>4. ep'.fd.open
    BY <2>1, <2>2 DEF Opened
  <2>5. n \in Nat => ep'.size # Undef /\ ep'.size >= 0 /\ ep'.size <= n
    BY <1>0, <2>1, <2>2
  <2>6. ASSUME changes' = 0, Fits(Served)'
        PROVE  n = ep'.size /\ n = files'[Served'].size /\ n = ep'.fd.size
    <3>1. Served' = ep.path /\ files' = files /\ changes = 0
      BY <1>1, <2>1, <2>2, <2>6 DEF Served
    <3>2. files[ep.path].kind = "file" /\ files[ep.path].size = ToInt(files[ep.path].size)
      BY <2>6, <3>1 DEF Fits
    <3>3. n = ToInt(files[ep.path].size)
      BY <2>1, <3>1 DEF FoundInv
    <3>4. Opened(ep.path).size = files[ep.path].size
      BY <3>2 DEF Opened
    <3> QED BY <2>1, <2>2, <3>1, <3>2, <3>3, <3>4
  <2>7. Tells(n)'
    BY <1>2, <2>1, <2>2, <2>3, <2>4, <2>5, <2>6 DEF Tells
  <2> QED BY <2>3, <2>7, ThirdPart DEF ToldInv
<1>5. CASE HandlerErrorNoPage
  <2>1. ep'.header = BareLines(ep) /\ ep'.code = ep.code /\ ~ep'.cgi /\ ep'.fd = NoFd
    BY <1>0, <1>5 DEF HandlerErrorNoPage, Decide, EndPointType
  <2>2. ep'.header = BareLines(ep') /\ ~ep'.fd.open
    BY <2>1 DEF BareLines, NoFd
  <2> QED BY <1>2, <2>1, <2>2 DEF ToldInv, TellsNothing
<1>6. CASE HandlerErrorStat
  <2> DEFINE s == files[ErrorPage]
             known == s.kind # "none"
             z == IF known THEN ToInt(s.size) ELSE Undef
  <2> PICK n : n = IF known THEN s.size ELSE Undef
    OBVIOUS
  <2>1. pc = "err_stat" /\ ep' = [ep EXCEPT !.size = z, !.header = PageLines(ep, n)]
    BY <1>6 DEF HandlerErrorStat, Decide
  <2>2. ep.fd.open /\ ~ep.cgi /\ ep.code # 200
    BY <2>1 DEF FoundInv, OpenWhileNeeded
  <2>3. /\ ep'.header = PageLines(ep, n) /\ ep'.size = z /\ ep'.fd = ep.fd
        /\ ep'.cgi = ep.cgi /\ ep'.code = ep.code
    BY <1>0, <2>1 DEF EndPointType
  <2>4. ep'.header = PageLines(ep', n)
    BY <2>3 DEF PageLines
  <2>5. s.size \in Nat
    BY <1>0
  <2>6. ASSUME n \in Nat
        PROVE  /\ ep'.size # Undef
               /\ IF ep'.size < 0 THEN SendMax <= n ELSE ep'.size <= n
    <3>1. known /\ n = s.size /\ z = ToInt(s.size)
      BY <1>0, <2>6
    <3>2. ToInt(s.size) \in Int
      BY <1>0, <2>5, IntRange DEF IntType
    <3>3. IF ToInt(s.size) < 0 THEN MaxInt < s.size ELSE ToInt(s.size) <= s.size
      BY <2>5, IntBelow
    <3> HIDE DEF known, z, s
    <3> QED BY <1>0, <2>3, <2>5, <3>1, <3>2, <3>3
  <2>7. ASSUME changes' = 0, Fits(Served)'
        PROVE  n = ep'.size /\ n = files'[Served'].size /\ n = ep'.fd.size
    <3>1. Served' = ErrorPage /\ files' = files /\ changes = 0
      BY <1>1, <2>2, <2>3, <2>7 DEF Served
    <3>2. s.kind = "file" /\ s.size = ToInt(s.size)
      BY <2>7, <3>1 DEF Fits
    <3>3. ep.fd = Opened(ErrorPage)
      BY <2>1, <3>1 DEF FoundInv
    <3>4. ep.fd.size = s.size
      BY <3>2, <3>3 DEF Opened
    <3> QED BY <2>3, <3>1, <3>2, <3>4
  <2> HIDE DEF z
  <2>8. Tells(n)'
    BY <1>2, <2>2, <2>3, <2>4, <2>6, <2>7 DEF Tells
  <2> QED BY <2>4, <2>8, ThirdPart DEF ToldInv
<1> QED BY <1>3, <1>4, <1>5, <1>6
        DEF RouteStep, BadMethod, Stat, StatIndex, HandlerErrorOpen, Decide

(* The response is what it was, and no byte of a body has been sent.       *)
LEMMA StillTrue ==
  ASSUME ToldInv, UNCHANGED <<Made, client.bytes>>, ep'.fd = ep.fd,
         pc' = pc, peer = "reset" => peer' = "reset",
         pc = "destroy" => client'.got = client.got,
         changes' = 0 => changes = 0 /\ files' = files
  PROVE  ToldInv'
<1>0. /\ UNCHANGED <<ep.path, ep.cgi, ep.size, ep.code, ep.body, ep.header>>
  BY DEF Made
<1>1. CASE ep.header = <<>>
  BY <1>0, <1>1 DEF ToldInv
<1>2. CASE TellsNothing
  BY <1>0, <1>2 DEF ToldInv, TellsNothing, BareLines
<1>3. ASSUME NEW n, Len(ep.header) = 4, n = ep.header[3].value, Tells(n)
      PROVE  ToldInv'
  <2>1. PageLines(ep', n) = PageLines(ep, n)
    BY <1>0 DEF PageLines
  <2>2. changes' = 0 /\ Fits(Served)' =>
          changes = 0 /\ Fits(Served) /\ files'[Served'] = files[Served]
    BY <1>0 DEF Fits, Served
  <2>3. Tells(n)'
    BY <1>0, <1>3, <2>1, <2>2 DEF Tells
  <2> QED BY <1>0, <1>3, <2>3 DEF ToldInv
<1> QED BY <1>1, <1>2, <1>3 DEF ToldInv

LEMMA ToldStep ==
  TypeOK /\ OpenWhileNeeded /\ SentInv /\ DeliversPrefix /\ FoundInv /\ ToldInv
    /\ [Next]_vars => ToldInv'
<1> SUFFICES ASSUME TypeOK, OpenWhileNeeded, SentInv, DeliversPrefix, FoundInv,
                    ToldInv, [Next]_vars
             PROVE  ToldInv'
  OBVIOUS
<1>0. /\ ep \in EndPointType /\ client \in [got : Seq(PartType), bytes : Nat]
      /\ client.bytes \in Nat /\ ep.total \in Nat /\ ep.body \in Nat
      /\ ep.size \in Int \cup {Undef} /\ ep.fd.size \in Nat /\ changes \in Nat
      /\ ep.fd \in [open : BOOLEAN, size : Nat]
      /\ Undef \notin Int /\ SendMax \in Nat
  BY EndPointAssumption DEF TypeOK, EndPointType, IntType
<1>1. CASE Connect
  BY <1>1, Connecting DEF ToldInv
<1>2. CASE Finish \/ Reset \/ (\E p \in Path : Replace(p)) \/ UNCHANGED vars
  <2>1. /\ UNCHANGED <<pc, ep, client>> /\ (peer = "reset" => peer' = "reset")
        /\ (files' = files /\ changes' = changes) \/ changes' = changes + 1
    BY <1>2, Around
  <2>2. changes' = 0 => changes = 0 /\ files' = files
    BY <1>0, <2>1
  <2> QED BY <2>1, <2>2, StillTrue DEF Made
<1>3. CASE RecvStep
  <2>1. pc \in {"line", "header", "body"} /\ ep'.header = ep.header
    BY <1>3, Receiving DEF Rest, Made
  <2>2. ep.header = <<>>
    BY <2>1 DEF SentInv, HandlerPc
  <2> QED BY <2>1, <2>2 DEF ToldInv
<1>4. CASE RouteStep
  <2>1. CASE pc' = "send"
    BY <1>4, <2>1, MadeTrue
  <2>2. CASE pc' # "send"
    <3>1. /\ pc \in {"route", "stat2", "run", "err_open", "err_stat"}
          /\ ep'.header = ep.header
      BY <1>4, <2>2, Deciding
    <3>2. ep.header = <<>>
      BY <3>1 DEF SentInv, HandlerPc
    <3> QED BY <3>1, <3>2 DEF ToldInv
  <2> QED BY <2>1, <2>2
<1>5. CASE SendPart
  <2>1. /\ pc = "send" /\ pc' = pc /\ peer' = peer /\ ep'.fd = ep.fd
        /\ client'.bytes = client.bytes /\ UNCHANGED <<files, changes>>
    BY <1>0, <1>5 DEF SendPart, EndPointType, fileVars
  <2>2. UNCHANGED Made
    BY <1>5, Sending DEF SendStep
  <2> QED BY <2>1, <2>2, StillTrue
<1>6. CASE SendBodyFails
  <2>1. /\ pc = "send" /\ pc' = pc /\ peer' = peer /\ ep'.fd = ep.fd
        /\ client' = client /\ UNCHANGED <<files, changes>>
    BY <1>0, <1>6 DEF SendBodyFails, EndPointType, fileVars
  <2>2. UNCHANGED Made
    BY <1>6, Sending DEF SendStep
  <2> QED BY <2>1, <2>2, StillTrue
<1>7. CASE SendBody \/ SendBodyDone
  <2>1. /\ pc = "send" /\ ep.cgi /\ AllPartsSent
        /\ UNCHANGED <<ep.cgi, ep.code, ep.body, ep.header, peer>>
    BY <1>7, Sending DEF SendStep, SendBody, SendBodyDone, Made
  <2>2. PICK n : n = ep.header[3].value
    OBVIOUS
  <2>3. Len(ep.header) = 4 /\ Tells(n)
    BY <2>1, <2>2 DEF ToldInv, TellsNothing, SentInv
  <2>4. n = ep.body /\ n \in Nat /\ ep.header = PageLines(ep, n)
    BY <1>0, <2>1, <2>3 DEF Tells
  <2>5. ep'.header = PageLines(ep', n)
    BY <2>1, <2>4 DEF PageLines
  <2>6. client'.bytes <= n
    BY <1>7, <2>1, <2>4, SentStep DEF DeliversPrefix, Next, HandlerStep
  <2>7. pc' = "destroy" /\ peer # "reset" => client'.bytes = n
    <3>1. SUFFICES ASSUME SendBodyDone, peer # "reset"
                   PROVE  client'.bytes = n
      BY <1>7 , <2>1 DEF SendBody
    <3>2. client' = client /\ ep.total >= ep.body
      BY <3>1 DEF SendBodyDone
    <3>3. client.bytes = ep.total
      BY <2>1, <3>1 DEF SentInv
    <3> QED BY <1>0, <2>4, <2>6, <3>2, <3>3
  <2>8. Tells(n)'
    BY <2>1, <2>4, <2>5, <2>6, <2>7 DEF Tells
  <2> QED BY <2>1, <2>2, <2>3, <2>8 DEF ToldInv
<1>8. CASE SendFile
  <2>1. /\ pc = "send" /\ pc' = "destroy" /\ ~ep.cgi /\ AllPartsSent
        /\ UNCHANGED <<ep.path, ep.cgi, ep.size, ep.code, ep.body, ep.header,
                       peer, files, changes>>
    BY <1>8, Sending DEF SendStep, SendFile, Made
  <2>2. client.bytes = 0
    BY <2>1 DEF SentInv
  <2>3. PICK t \in Transfers : client' = [client EXCEPT !.bytes = client.bytes + t]
    BY <1>8 DEF SendFile
  <2>4. t \in Nat
    BY <1>0 DEF Transfers, Least
  <2>5. client'.bytes = t /\ client'.got = client.got
    BY <1>0, <2>2, <2>3, <2>4
  <2>6. ~ep'.fd.open
    BY <1>0, <1>8 DEF SendFile, EndPointType
  <2>7. CASE TellsNothing
    <3>1. t = 0
      BY <2>7 DEF TellsNothing, Transfers
    <3> QED BY <2>1, <2>5, <2>6, <2>7, <3>1 DEF ToldInv, TellsNothing, BareLines
  <2>8. CASE ~TellsNothing
    <3>1. PICK n : n = ep.header[3].value
      OBVIOUS
    <3>2. Len(ep.header) = 4 /\ Tells(n)
      BY <2>1, <2>8, <3>1 DEF ToldInv, SentInv
    <3>3. PageLines(ep', n) = PageLines(ep, n)
      BY <2>1 DEF PageLines
    <3>4. n \in Nat => t <= n
      <4>1. SUFFICES ASSUME n \in Nat
                     PROVE  t <= n
        OBVIOUS
      <4>2. ep.size \in Int /\ IF ep.size < 0 THEN SendMax <= n ELSE ep.size <= n
        BY <1>0, <2>1, <3>2, <4>1 DEF Tells
      <4>3. t = 0 \/ t = Least(Least(IF ep.size < 0 THEN SendMax ELSE ep.size, SendMax),
                               ep.fd.size)
        BY <1>0, <4>2 DEF Transfers
      <4> QED BY <1>0, <4>1, <4>2, <4>3 DEF Least
    <3>5. ASSUME peer # "reset", changes = 0, Fits(Served)
          PROVE  t = n
      <4>1. ep.fd.open /\ n = ep.size /\ n = files[Served].size /\ n = ep.fd.size
        BY <2>1, <3>2, <3>5 DEF Tells
      <4>2. n \in Nat /\ n <= SendMax
        BY <1>0, <3>5, <4>1 DEF Fits
      <4>3. ep.size # Undef /\ ~(ep.size < 0)
        BY <1>0, <4>1, <4>2
      <4>4. Transfers = {Least(Least(n, SendMax), n)}
        BY <3>5, <4>1, <4>3 DEF Transfers
      <4> QED BY <1>0, <4>2, <4>4 DEF Least
    <3>6. changes' = 0 /\ Fits(Served)' => changes = 0 /\ Fits(Served)
      BY <2>1 DEF Fits, Served
    <3>7. Tells(n)'
      BY <2>1, <2>5, <3>2, <3>3, <3>4, <3>5, <3>6 DEF Tells
    <3> QED BY <2>1, <3>1, <3>2, <3>7 DEF ToldInv
  <2> QED BY <2>7, <2>8
<1>9. CASE Destroy
  <2>1. pc' = "closed" /\ UNCHANGED <<ep, client, peer, files, changes>>
    BY <1>9 DEF Destroy, fileVars
  <2>2. CASE ep.header = <<>> \/ TellsNothing
    BY <2>1, <2>2 DEF ToldInv, TellsNothing, BareLines
  <2>3. ASSUME NEW n, Len(ep.header) = 4, n = ep.header[3].value, Tells(n)
        PROVE  ToldInv'
    <3>1. Tells(n)'
      BY <2>1, <2>3 DEF Tells, PageLines
    <3> QED BY <2>1, <2>3, <3>1 DEF ToldInv
  <2> QED BY <2>2, <2>3 DEF ToldInv
<1> QED BY <1>1, <1>2, <1>3, <1>4, <1>5, <1>6, <1>7, <1>8, <1>9
        DEF Next, HandlerStep, RecvStep, RouteStep

(***************************************************************************)
(* The theorems                                                            *)
(***************************************************************************)

LEMMA InitIInv == Init => IInv
<1> SUFFICES ASSUME Init PROVE IInv
  OBVIOUS
<1>1. PICK r \in Request : ep = NewEndPoint(r)
  BY DEF Init
<1>2. ep.header = <<>> /\ ep.fd.open = FALSE /\ ep.cgi = FALSE
  BY <1>1 DEF NewEndPoint, NoFd
<1>3. <<>> = SubSeq(<<>>, 1, Len(<<>>))
  OBVIOUS
<1>4. /\ pc = "closed" /\ wire = <<>> /\ client = [got |-> <<>>, bytes |-> 0]
      /\ fds = 0
  BY DEF Init
<1>5. OpenWhileNeeded /\ WireInv /\ RecvInv /\ SentInv /\ FoundInv /\ ToldInv
  BY <1>2, <1>4 DEF OpenWhileNeeded, WireInv, RecvInv, Answering, SentInv, HandlerPc,
                    FoundInv, ToldInv
<1>6. AnsweredIffWhole /\ DeliversPrefix
  BY <1>2, <1>3, <1>4 DEF AnsweredIffWhole, DeliversPrefix
<1> QED BY <1>5, <1>6, TypeInit DEF IInv

(* The inductive invariant holds in every reachable state. *)
THEOREM Invariance == Spec => []IInv
<1>1. IInv /\ [Next]_vars => IInv'
  BY TypeStep, OpenStep, WireStep, RecvInvStep, SentStep, AnsweredStep, FoundStep,
     ToldStep
  DEF IInv
<1> QED BY <1>1, InitIInv, PTL DEF Spec

(* Every variable has its type, however often size and total wrap. *)
THEOREM TypeCorrect == Spec => []TypeOK
<1>1. IInv => TypeOK
  BY DEF IInv
<1> QED BY <1>1, Invariance, PTL

(* Nothing stays open, and no program's output is sent for an error.       *)
THEOREM NothingStaysOpen == Spec => []OpenWhileNeeded
<1>1. IInv => OpenWhileNeeded
  BY DEF IInv
<1> QED BY <1>1, Invariance, PTL

(* A client is answered if and only if its whole request has arrived.      *)
THEOREM WholeRequests == Spec => []AnsweredIffWhole
<1>1. IInv => AnsweredIffWhole
  BY DEF IInv
<1> QED BY <1>1, Invariance, PTL

(* What reached a client is a prefix of the response.                      *)
THEOREM OnlyPrefixes == Spec => []DeliversPrefix
<1>1. IInv => DeliversPrefix
  BY DEF IInv
<1> QED BY <1>1, Invariance, PTL

(* Content-Length is true: no client gets more than it was told, and one   *)
(* that stays gets all of a program's output, or of a page that fits and   *)
(* did not change.                                                         *)
THEOREM TrueLength == Spec => []LengthIsTrue
<1>1. IInv => LengthIsTrue
  <2> SUFFICES ASSUME IInv PROVE LengthIsTrue
    OBVIOUS
  <2> DEFINE got == client.got
  <2>1. /\ ep.header \in Seq(PartType) /\ got \in Seq(PartType)
        /\ client.bytes \in Nat
    BY DEF IInv, TypeOK, EndPointType
  <2>2. \A i \in 1..Len(got) : got[i] = ep.header[i] /\ i <= Len(ep.header)
    <3>1. got = SubSeq(ep.header, 1, Len(got)) /\ Len(got) <= Len(ep.header)
      BY DEF IInv, DeliversPrefix
    <3> QED BY <2>1, <3>1
  <2>3. client.bytes > 0 => got = ep.header
    BY DEF IInv, DeliversPrefix
  <2>4. CASE ep.header = <<>>
    <3>1. got = <<>> /\ client.bytes = 0
      BY <2>4 DEF IInv, SentInv
    <3> QED BY <3>1 DEF LengthIsTrue, Announced
  <2>5. CASE TellsNothing
    <3>1. client.bytes = 0 /\ ep.header = BareLines(ep)
      BY <2>5 DEF TellsNothing
    <3>2. \A i \in 1..Len(ep.header) : ep.header[i].part # "length"
      BY <3>1 DEF BareLines, Part
    <3>3. Announced = {}
      BY <2>1, <2>2, <3>2 DEF Announced
    <3> QED BY <3>1, <3>3 DEF LengthIsTrue
  <2>6. ASSUME NEW n, Tells(n)
        PROVE  LengthIsTrue
    <3>1. /\ Len(ep.header) = 4 /\ ep.header[3].part = "length"
          /\ ep.header[3].value = n
          /\ \A i \in 1..4 : ep.header[i].part = "length" => i = 3
      BY <2>6 DEF Tells, PageLines, Part
    <3>2. \A i \in Announced : i = 3 /\ got[i].value = n /\ got # <<>>
      BY <2>1, <2>2, <3>1 DEF Announced
    <3>3. Announced = {} => client.bytes = 0
      <4>1. got = ep.header => 3 \in Announced
        BY <3>1 DEF Announced
      <4> QED BY <2>1, <2>3, <4>1
    <3> QED BY <2>6, <3>2, <3>3 DEF LengthIsTrue, Tells
  <2> QED BY <2>4, <2>5, <2>6 DEF IInv, ToldInv
<1> QED BY <1>1, Invariance, PTL
=============================================================================
