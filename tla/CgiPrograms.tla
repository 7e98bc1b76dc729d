---------------------------- MODULE CgiPrograms -----------------------------
(***************************************************************************)
(* The CGI programs on top of cgi/comm.hpp.  Both fetch the query string   *)
(* and cut it into two values; test_cgi prints what four operations make   *)
(* of them, mysql_cgi inserts them into a table.  What is printed with     *)
(* endl is in the pipe at once, the rest when the program exits.           *)
(* Characters are one-letter strings, none of which means anything in SQL  *)
(* or is white space.                                                      *)
(***************************************************************************)
EXTENDS Integers, Sequences, SequencesExt

CONSTANTS Symbol,    \* the characters queries are made of
          MaxQuery,  \* bound on the length of a query
          MaxInt,    \* the greatest int
          MaxLong    \* the greatest long

ASSUME ProgramAssumption ==
  /\ {"&", "="} \subseteq Symbol /\ MaxQuery \in Nat
  /\ MaxInt \in Nat /\ MaxLong \in Nat /\ MaxInt <= MaxLong

VARIABLES
  program,  \* "test_cgi" or "mysql_cgi"
  method,   \* METHOD
  query,    \* what the server sends: QUERY_STRING, or CONTENT_LENGTH bytes
  got,      \* query_string
  progPc,   \* "get", "cut", "print", or how the program has ended
  page,     \* test_cgi: what has reached stdout, the operands' names and
            \* values, then the results
  user      \* the database: the rows of the table user

progVars == <<program, method, query, got, progPc, page, user>>

Query == UNION {[1..n -> Symbol] : n \in 0..MaxQuery}

ProgInit ==
  /\ program \in {"test_cgi", "mysql_cgi"}
  /\ method \in {"GET", "POST"} /\ query \in Query
  /\ got = <<>> /\ progPc = "get" /\ page = <<>> /\ user = <<>>

(* No program runs. *)
ProgIdle ==
  /\ program = "test_cgi" /\ method = "GET" /\ query = <<>>
  /\ got = <<>> /\ progPc = "idle" /\ page = <<>> /\ user = <<>>

-----------------------------------------------------------------------------
(* comm.hpp *)

GetEnv ==
  /\ progPc = "get" /\ method = "GET"
  /\ got' = query
  /\ progPc' = "cut"
  /\ UNCHANGED <<program, method, query, page, user>>

(* Variant with a fault: the count reaches zero one byte early. *)
ReadAllButOne ==
  /\ progPc = "get" /\ method = "POST"
  /\ IF Len(got) + 1 >= Len(query)
     THEN progPc' = "cut" /\ UNCHANGED got
     ELSE got' = Append(got, query[Len(got) + 1]) /\ UNCHANGED progPc
  /\ UNCHANGED <<program, method, query, page, user>>

(* One byte at a time until content_length is zero; the pipe has them, see *)
(* PeerHoldsOn of CgiExchange.                                             *)
ReadBody ==
  /\ progPc = "get" /\ method = "POST"
  /\ IF Len(got) = Len(query)
     THEN progPc' = "cut" /\ UNCHANGED got
     ELSE got' = Append(got, query[Len(got) + 1]) /\ UNCHANGED progPc
  /\ UNCHANGED <<program, method, query, page, user>>

Found(s, sep) == {i \in 1..Len(s) : s[i] = sep}

(* Variant with a fault: the last separator, as rfind would find it. *)
CutStringLast(s, sep) ==
  IF Found(s, sep) = {} THEN << <<>>, <<>> >>
  ELSE LET i == CHOOSE i \in Found(s, sep) : \A j \in Found(s, sep) : j <= i
       IN  <<SubSeq(s, 1, i - 1), SubSeq(s, i + 1, Len(s))>>

(* Before and after the first separator; the outputs stay empty when there *)
(* is none.                                                                *)
CutString(s, sep) ==
  IF Found(s, sep) = {} THEN << <<>>, <<>> >>
  ELSE LET i == CHOOSE i \in Found(s, sep) : \A j \in Found(s, sep) : i <= j
       IN  <<SubSeq(s, 1, i - 1), SubSeq(s, i + 1, Len(s))>>

(* name=value&name=value, cut into its parts. *)
Operands(s) ==
  LET strs == CutString(s, "&")
      one  == CutString(strs[1], "=")
      two  == CutString(strs[2], "=")
  IN  [name1 |-> one[1], value1 |-> one[2], name2 |-> two[1], value2 |-> two[2]]

-----------------------------------------------------------------------------
(* test_cgi.cc *)

(* n as an int, and as what strtol makes of it. *)
Ints == 2 * (MaxInt + 1)
ToInt(n) == ((n + (MaxInt + 1)) % Ints) - (MaxInt + 1)
ToLong(n) == IF n > MaxLong THEN MaxLong ELSE IF n < -(MaxLong + 1) THEN -(MaxLong + 1) ELSE n

Digits == <<"0", "1", "2", "3", "4", "5", "6", "7", "8", "9">>
IsDigit(c) == \E d \in 0..9 : Digits[d + 1] = c
DigitOf(c) == CHOOSE d \in 0..9 : Digits[d + 1] = c

(* The digits of s from start on, up to the first other character. *)
Number(s, start) ==
  LET last == CHOOSE n \in (start - 1)..Len(s) : /\ \A i \in start..n : IsDigit(s[i])
                                                 /\ n < Len(s) => ~IsDigit(s[n + 1])
      value[n \in (start - 1)..last] ==
        IF n < start THEN 0 ELSE 10 * value[n - 1] + DigitOf(s[n])
  IN  value[last]

(* atoi: a sign, then digits. *)
Atoi(s) ==
  ToInt(ToLong(IF s = <<>> THEN 0
               ELSE IF s[1] = "-" THEN -Number(s, 2)
               ELSE Number(s, IF s[1] = "+" THEN 2 ELSE 1)))

(* The operands are cut out and printed, each line with endl. *)
PrintOperands ==
  /\ progPc = "cut" /\ program = "test_cgi"
  /\ page' = <<Operands(got)>>
  /\ progPc' = "print"
  /\ UNCHANGED <<program, method, query, got, user>>

x == Atoi(page[1].value1)
y == Atoi(page[1].value2)
Abs(n) == IF n < 0 THEN -n ELSE n

(* Idiv raises a signal when the quotient is no int. *)
NoQuotient == y = 0 \/ (x = -(MaxInt + 1) /\ y = -1)

Divide ==
  /\ progPc = "print" /\ NoQuotient
  /\ progPc' = "signal"
  /\ UNCHANGED <<program, method, query, got, page, user>>

Results(q) == [sum |-> ToInt(x + y), diff |-> ToInt(x - y), prod |-> ToInt(x * y), quot |-> q]

(* Division drops what is behind the point. *)
Quotient == IF (x < 0) # (y < 0) THEN -(Abs(x) \div Abs(y)) ELSE Abs(x) \div Abs(y)

(* Variant with a fault: the quotient is rounded down. *)
PrintResultsDown ==
  /\ progPc = "print" /\ ~NoQuotient
  /\ page' = Append(page, Results(IF y < 0 THEN (-x) \div (-y) ELSE x \div y))
  /\ progPc' = "exit0"
  /\ UNCHANGED <<program, method, query, got, user>>

(* The results, and at the exit all of them reach the pipe. *)
PrintResults ==
  /\ progPc = "print" /\ ~NoQuotient
  /\ page' = Append(page, Results(Quotient))
  /\ progPc' = "exit0"
  /\ UNCHANGED <<program, method, query, got, user>>

-----------------------------------------------------------------------------
(* mysql_cgi.cc: InsertSql, and the page that says it worked *)

Row(s) == [name |-> Operands(s).value1, passwd |-> Operands(s).value2]

InsertSql ==
  /\ progPc = "cut" /\ program = "mysql_cgi"
  /\ user' = Append(user, Row(got))
  /\ progPc' = "exit0"
  /\ UNCHANGED <<program, method, query, got, page>>

(* There is no connection, or the query fails: InsertSql returns what      *)
(* means true all the same, and the page is the same.                      *)
InsertSqlFails ==
  /\ progPc = "cut" /\ program = "mysql_cgi"
  /\ progPc' = "exit0"
  /\ UNCHANGED <<program, method, query, got, page, user>>

ProgNext == \/ GetEnv \/ ReadBody
            \/ PrintOperands \/ Divide \/ PrintResults
            \/ InsertSql \/ InsertSqlFails
ProgSpec == ProgInit /\ [][ProgNext]_progVars

-----------------------------------------------------------------------------
(* Properties *)

(* The query is a form: name=value&name=value, with separators at i, j, k. *)
IsForm(q, i, j, k) ==
  /\ i < j /\ j < k
  /\ q[i] = "=" /\ q[j] = "&" /\ q[k] = "="
  /\ \A n \in 1..(i - 1) : q[n] # "="
  /\ \A n \in 1..(j - 1) : q[n] # "&"
  /\ \A n \in (j + 1)..(k - 1) : q[n] # "="

(* What is printed, or inserted, are the names and values that were sent,  *)
(* by GET or POST.                                                         *)
OperandsAsSent ==
  \A i, j, k \in 1..Len(query) : IsForm(query, i, j, k) =>
    LET value1 == SubSeq(query, i + 1, j - 1)
        value2 == SubSeq(query, k + 1, Len(query))
    IN  /\ page # <<>> => page[1] = [name1 |-> SubSeq(query, 1, i - 1), value1 |-> value1,
                                     name2 |-> SubSeq(query, j + 1, k - 1), value2 |-> value2]
        /\ user # <<>> => user = <<[name |-> value1, passwd |-> value2]>>

(* A page with results gives the right ones, up to the width of int; only  *)
(* a query with a second value other than zero gets one.  Any other query, *)
(* a form that is not filled in for one, kills the program at its division,*)
(* as the least int divided by minus one does.                             *)
ResultsAreRight ==
  /\ progPc = "exit0" /\ program = "test_cgi" =>
       LET r == page[2]
           rest == x - r.quot * y
       IN  /\ \E j, k \in 1..Len(query) : j < k /\ query[j] = "&" /\ query[k] = "="
           /\ \A n \in {r.sum - (x + y), r.diff - (x - y), r.prod - x * y} : n % Ints = 0
           /\ y # 0 /\ Abs(rest) < Abs(y) /\ (rest = 0 \/ (rest < 0 <=> x < 0))
  /\ progPc = "signal" => y = 0 \/ (x # 0 /\ ToInt(-x) = x)

(* The inductive invariant of the programs: what has been read is the      *)
(* beginning of what was sent, all of it when it is cut; and what has been *)
(* written has been made of that and of nothing else.                      *)
ProgIInv ==
  /\ program \in {"test_cgi", "mysql_cgi"} /\ method \in {"GET", "POST"}
  /\ progPc \in {"get", "cut", "print", "signal", "exit0"}
  /\ query \in Seq(Symbol) /\ got \in Seq(Symbol)
  /\ Len(got) <= Len(query) /\ \A i \in 1..Len(got) : got[i] = query[i]
  /\ progPc # "get" => got = query
  /\ progPc \in {"get", "cut"} => page = <<>> /\ user = <<>>
  /\ program = "test_cgi" =>
       /\ user = <<>>
       /\ progPc \in {"print", "signal"} => page = <<Operands(query)>>
       /\ progPc = "signal" => NoQuotient
       /\ progPc = "exit0" =>
            ~NoQuotient /\ page = <<Operands(query), Results(Quotient)>>
  /\ program = "mysql_cgi" =>
       /\ page = <<>> /\ progPc \in {"get", "cut", "exit0"}
       /\ user \in {<<>>, <<Row(query)>>}
=============================================================================
