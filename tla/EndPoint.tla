------------------------------ MODULE EndPoint ------------------------------
(***************************************************************************)
(* One connection, from the EndPoint constructor to its destructor:        *)
(* receive and parse the request, route it through the file system, build  *)
(* the response, send it, close.                                           *)
(*                                                                         *)
(* The client may stop sending or reset the connection at any moment, and  *)
(* files may change between any two system calls of the handler: each      *)
(* system call is a step of its own.  Lines are items (module ReadLine     *)
(* looks at their bytes), a body or a file is a number of bytes, and       *)
(* running a program is one step (module CgiExchange looks inside).        *)
(***************************************************************************)
EXTENDS Integers, Sequences

CONSTANTS
  Path,        \* names below wwwroot
  IndexOf,     \* [Path -> Path]: the name of a directory's index.html
  ErrorPage,   \* wwwroot/404.html
  Site,        \* the file trees to start from: a set of [Path -> FileState]
  Request,     \* what clients send: see RequestType
  MaxChanges,  \* bound on changes to the tree during one connection
  MaxInt,      \* the largest int
  MaxSize,     \* the largest size_t
  SendMax,     \* the most bytes one sendfile() transfers
  CgiOutput,   \* the sizes of response_body that programs produce
  Undef        \* an indeterminate int

(* What stat() and open() tell of a name. *)
FileState == [kind : {"none", "file", "dir"}, exec : BOOLEAN, size : Nat]

(* A request on the wire: the request line, with its query or not; one     *)
(* entry of lengths per Content-Length header, as atoi reads it; and body, *)
(* the bytes the client sends after the blank line.  slash: the path ends  *)
(* with a slash.                                                           *)
RequestType == [method : {"GET", "POST", "OTHER"}, path : Path,
                slash : BOOLEAN, query : BOOLEAN, lengths : Seq(Int),
                body : Nat]

ASSUME EndPointAssumption ==
  /\ IndexOf \in [Path -> Path] /\ ErrorPage \in Path
  /\ Site \subseteq [Path -> FileState] /\ Request \subseteq RequestType
  /\ MaxChanges \in Nat
  /\ MaxInt \in Nat /\ MaxSize \in Nat
  /\ SendMax \in 0..MaxInt /\ CgiOutput \subseteq 0..MaxSize
  /\ Undef \notin Int

VARIABLES
  pc,       \* where the handler is
  ep,       \* the members of EndPoint, http_request and http_response
  wire,     \* what the client sent, or will send, and recv() has not taken
  taken,    \* how many items recv() has taken
  peer,     \* the client's end: "open", "finished" sending, or "reset"
  client,   \* what reached the client: header parts, and bytes after them
  files,    \* the file tree
  changes,  \* changes to the tree during this connection
  fds       \* open file descriptors, the socket not counted

vars == <<pc, ep, wire, taken, peer, client, files, changes, fds>>
fileVars == <<files, changes>>

(* The value an int has after it is assigned n. *)
ToInt(n) == ((n + (MaxInt + 1)) % (2 * (MaxInt + 1))) - (MaxInt + 1)

(* The items of a request, in the order they are sent. *)
Wire(r) == <<"line">> \o [i \in 1..Len(r.lengths) |-> "header"]
           \o <<"blank">> \o [i \in 1..r.body |-> "byte"]

NoFd == [open |-> FALSE, size |-> 0]
Part(name, value) == [part |-> name, value |-> value]

(* The constructors of EndPoint, HttpRequest and HttpResponse; size is not *)
(* initialised.  st is BuildHttpResponse's local, sent the number of parts *)
(* SendHttpResponse has sent, total its local.                             *)
NewEndPoint(r) ==
  [request |-> r, left |-> 0, path |-> r.path, cgi |-> FALSE, size |-> Undef,
   st |-> [kind |-> "none", exec |-> FALSE, size |-> 0],
   code |-> 200, fd |-> NoFd, body |-> 0, header |-> <<>>, sent |-> 0,
   total |-> 0]

Init ==
  /\ pc = "closed"
  /\ \E r \in Request : ep = NewEndPoint(r)
  /\ wire = <<>> /\ taken = 0 /\ peer = "finished"
  /\ client = [got |-> <<>>, bytes |-> 0]
  /\ files \in Site /\ changes = 0
  /\ fds = 0

-----------------------------------------------------------------------------
(* The client and whoever maintains the site *)

(* A connection is handed to the handler, which makes an EndPoint. *)
Connect ==
  /\ pc = "closed"
  /\ \E r \in Request : ep' = NewEndPoint(r) /\ wire' = Wire(r)
  /\ pc' = "line"
  /\ taken' = 0 /\ peer' = "open" /\ changes' = 0
  /\ client' = [got |-> <<>>, bytes |-> 0]
  /\ UNCHANGED <<files, fds>>

(* The client ends its side, after all it had to send or without the rest. *)
Finish ==
  /\ pc # "closed" /\ peer = "open"
  /\ peer' = "finished"
  /\ wire' \in {wire, <<>>}
  /\ UNCHANGED <<pc, ep, taken, client, fileVars, fds>>

(* The connection breaks: nothing more arrives in either direction. *)
Reset ==
  /\ pc # "closed" /\ peer # "reset"
  /\ peer' = "reset"
  /\ wire' = <<>>
  /\ UNCHANGED <<pc, ep, taken, client, fileVars, fds>>

(* A name is replaced or removed; descriptors already open do not notice. *)
Replace(p) ==
  /\ pc # "closed" /\ changes < MaxChanges
  /\ \E s \in Site : files[p] # s[p] /\ files' = [files EXCEPT ![p] = s[p]]
  /\ changes' = changes + 1
  /\ UNCHANGED <<pc, ep, wire, taken, peer, client, fds>>

-----------------------------------------------------------------------------
(* RecvHttpRequest *)

(* recv() delivers the next item. *)
Take(item) ==
  /\ wire # <<>> /\ Head(wire) = item
  /\ wire' = Tail(wire)
  /\ taken' = taken + 1
  /\ UNCHANGED <<peer, client, fileVars, fds>>

RecvHttpRequestLine ==
  /\ pc = "line"
  /\ Take("line")
  /\ pc' = "header"
  /\ UNCHANGED ep

RecvHttpRequestHeader ==
  /\ pc = "header"
  /\ Take("header")
  /\ UNCHANGED <<pc, ep>>

(* A POST with a Content-Length has a body; of several headers the first   *)
(* one inserted in header_kv stays.                                        *)
IsNeedRecvHttpRequestBody(r) == r.method = "POST" /\ r.lengths # <<>>
ContentLength(r) == IF IsNeedRecvHttpRequestBody(r) THEN ToInt(r.lengths[1]) ELSE 0

(* The blank line: the headers are parsed and the body is next. *)
RecvBlankLine ==
  /\ pc = "header"
  /\ Take("blank")
  /\ ep' = [ep EXCEPT !.left = ContentLength(ep.request)]
  /\ pc' = IF ep'.left = 0 THEN "route" ELSE "body"

(* Variant with a fault: the count ends at zero or below. *)
RecvBodyIfPositive ==
  /\ pc = "body"
  /\ Take("byte")
  /\ ep' = [ep EXCEPT !.left = ToInt(@ - 1)]
  /\ pc' = IF ep'.left <= 0 THEN "route" ELSE "body"

(* One byte of the body: the loop runs until the count is zero, so that a  *)
(* negative one is counted down for as long as bytes arrive.  Below the    *)
(* least int that is undefined, and the build, which does not optimise,    *)
(* goes on with the largest.                                               *)
RecvHttpRequestBody ==
  /\ pc = "body"
  /\ Take("byte")
  /\ ep' = [ep EXCEPT !.left = ToInt(@ - 1)]
  /\ pc' = IF ep'.left = 0 THEN "route" ELSE "body"

(* recv() returns 0 or -1. *)
Ended == wire = <<>> /\ peer # "open"

(* Variant with a fault: a body that ends early does not set stop. *)
RecvStopsUnlessBody ==
  /\ pc \in {"line", "header", "body"}
  /\ Ended
  /\ pc' = IF pc = "body" THEN "route" ELSE "destroy"
  /\ UNCHANGED <<ep, wire, taken, peer, client, fileVars, fds>>

(* stop is set: neither BuildHttpResponse nor SendHttpResponse runs. *)
RecvStops ==
  /\ pc \in {"line", "header", "body"}
  /\ Ended
  /\ pc' = "destroy"
  /\ UNCHANGED <<ep, wire, taken, peer, client, fileVars, fds>>

-----------------------------------------------------------------------------
(* BuildHttpResponse *)

(* What has been decided about the response changes; nothing is received,  *)
(* sent, opened or closed.                                                 *)
Decide(e, label) ==
  /\ ep' = e
  /\ pc' = label
  /\ UNCHANGED <<wire, taken, peer, client, fileVars, fds>>

BadMethod ==
  /\ pc = "route"
  /\ ep.request.method = "OTHER"
  /\ Decide([ep EXCEPT !.code = 400], "err_open")

(* GET with a query and every POST run a program; a path that ends with a  *)
(* slash means the index page.                                             *)
WantsCgi(r) == r.method = "POST" \/ r.query
Resolve(r)  == IF r.slash THEN IndexOf[r.path] ELSE r.path

(* An executable is run, and the size is kept as an int. *)
WithStat(e, s) == [e EXCEPT !.st = s, !.cgi = @ \/ s.exec, !.size = ToInt(s.size)]

(* The first stat(): no such name, a directory, or anything else. *)
Stat ==
  /\ pc = "route"
  /\ ep.request.method # "OTHER"
  /\ LET p == Resolve(ep.request)
         e == [ep EXCEPT !.path = p, !.cgi = WantsCgi(ep.request)]
     IN  \/ /\ files[p].kind = "none"
            /\ Decide([e EXCEPT !.code = 404], "err_open")
         \/ /\ files[p].kind = "dir"
            /\ Decide([e EXCEPT !.path = IndexOf[p], !.st = files[p]], "stat2")
         \/ /\ files[p].kind = "file"
            /\ Decide(WithStat(e, files[p]), "run")

(* The second stat(), of a directory's index page; its result is not       *)
(* looked at, and if it fails st still describes the directory.            *)
StatIndex ==
  /\ pc = "stat2"
  /\ LET s == files[ep.path]
     IN  Decide(WithStat(ep, IF s.kind = "none" THEN ep.st ELSE s), "run")

(* BuildHttpResponseHelper: the response's parts, with and without headers. *)
PageLines(e, length) == <<Part("status", e.code), Part("type", 0),
                          Part("length", length), Part("blank", 0)>>
BareLines(e) == <<Part("status", e.code), Part("blank", 0)>>

(* Variant with a fault: Content-Length from size, whatever the body is. *)
BuildOkFromSize(e) == [e EXCEPT !.header = PageLines(e, e.size)]

BuildOkResponse(e) ==
  [e EXCEPT !.header = PageLines(e, IF e.cgi THEN e.body ELSE e.size)]

(* ProcessCgi returns: 500 or 404 when pipe() or fork() fails, 400 when    *)
(* there is nothing to execute, and what the program makes of it otherwise.*)
Runnable(p) == files[p].kind = "file" /\ files[p].exec
CgiCodes(p) == IF Runnable(p) THEN {200, 400, 404, 500} ELSE {400, 404, 500}

ProcessCgi ==
  /\ pc = "run"
  /\ ep.cgi
  /\ \E code \in CgiCodes(ep.path) :
     \E n \in IF Runnable(ep.path) THEN CgiOutput ELSE {0} :
        LET e == [ep EXCEPT !.code = code, !.body = n]
        IN  IF code = 200 THEN Decide(BuildOkResponse(e), "send")
                          ELSE Decide(e, "err_open")

(* open() for reading: the descriptor stays with the file it found.  A     *)
(* directory can be opened as well, but nothing can be read from it.       *)
Opened(p) == [open |-> TRUE,
              size |-> IF files[p].kind = "file" THEN files[p].size ELSE 0]

ProcessNonCgi ==
  /\ pc = "run"
  /\ ~ep.cgi
  /\ IF files[ep.path].kind # "none"
     THEN /\ ep' = BuildOkResponse([ep EXCEPT !.code = 200, !.fd = Opened(ep.path)])
          /\ fds' = fds + 1
          /\ pc' = "send"
     ELSE /\ ep' = [ep EXCEPT !.code = 404, !.fd = NoFd]
          /\ pc' = "err_open"
          /\ UNCHANGED fds
  /\ UNCHANGED <<wire, taken, peer, client, fileVars>>

(* Variant with a fault: cgi stays set, and the program's output is sent.  *)
HandlerErrorKeepsCgi ==
  /\ pc = "err_open"
  /\ files[ErrorPage].kind # "none"
  /\ ep' = [ep EXCEPT !.fd = Opened(ErrorPage)]
  /\ fds' = fds + 1
  /\ pc' = "err_stat"
  /\ UNCHANGED <<wire, taken, peer, client, fileVars>>

(* HandlerError: the error page is opened; without it the response is only *)
(* the status line and the blank line.                                     *)
HandlerErrorOpen ==
  /\ pc = "err_open"
  /\ files[ErrorPage].kind # "none"
  /\ ep' = [ep EXCEPT !.cgi = FALSE, !.fd = Opened(ErrorPage)]
  /\ fds' = fds + 1
  /\ pc' = "err_stat"
  /\ UNCHANGED <<wire, taken, peer, client, fileVars>>

HandlerErrorNoPage ==
  /\ pc = "err_open"
  /\ files[ErrorPage].kind = "none"
  /\ Decide([ep EXCEPT !.cgi = FALSE, !.fd = NoFd, !.header = BareLines(ep)], "send")

(* stat() of the error page, its result unchecked: if the page is gone by  *)
(* now, st_size is indeterminate.                                          *)
HandlerErrorStat ==
  /\ pc = "err_stat"
  /\ LET s == files[ErrorPage]
         known == s.kind # "none"
     IN  Decide([ep EXCEPT
                   !.size = IF known THEN ToInt(s.size) ELSE Undef,
                   !.header = PageLines(ep, IF known THEN s.size ELSE Undef)],
                "send")

-----------------------------------------------------------------------------
(* SendHttpResponse *)

(* Variant with a fault: the last part, the blank line, is left out. *)
AllButBlankSent == ep.sent + 1 >= Len(ep.header)

AllPartsSent == ep.sent = Len(ep.header)

(* send() of the next part; its result is not looked at. *)
SendPart ==
  /\ pc = "send"
  /\ ~AllPartsSent
  /\ ep' = [ep EXCEPT !.sent = @ + 1]
  /\ client' = IF peer = "reset" THEN client
               ELSE [client EXCEPT !.got = Append(@, ep.header[ep'.sent])]
  /\ UNCHANGED <<pc, wire, taken, peer, fileVars, fds>>

(* The value a size_t has after it is assigned n. *)
ToSizeT(n) == n % (MaxSize + 1)

(* send() of program output takes some of what remains. *)
SendBody ==
  /\ pc = "send" /\ AllPartsSent /\ ep.cgi
  /\ ep.total < ep.body
  /\ peer # "reset"
  /\ \E n \in 1..(ep.body - ep.total) :
       /\ ep' = [ep EXCEPT !.total = @ + n]
       /\ client' = [client EXCEPT !.bytes = @ + n]
  /\ UNCHANGED <<pc, wire, taken, peer, fileVars, fds>>


(* send() returns -1, which in a size_t is the largest value and above 0:  *)
(* the loop goes on with total one lower, until total itself wraps.        *)
SendBodyFails ==
  /\ pc = "send" /\ AllPartsSent /\ ep.cgi
  /\ ep.total < ep.body
  /\ peer = "reset"
  /\ ep' = [ep EXCEPT !.total = ToSizeT(@ - 1)]
  /\ UNCHANGED <<pc, wire, taken, peer, client, fileVars, fds>>

SendBodyDone ==
  /\ pc = "send" /\ AllPartsSent /\ ep.cgi
  /\ ep.total >= ep.body
  /\ pc' = "destroy"
  /\ UNCHANGED <<ep, wire, taken, peer, client, fileVars, fds>>

(* What sendfile() can transfer: nothing without a descriptor or a         *)
(* connection, anything if the count is indeterminate; a negative count    *)
(* becomes a huge one.                                                     *)
Least(m, n) == IF m <= n THEN m ELSE n
Transfers ==
  IF peer = "reset" \/ ~ep.fd.open THEN {0}
  ELSE IF ep.size = Undef THEN 0..Least(ep.fd.size, SendMax)
  ELSE {Least(Least(IF ep.size < 0 THEN SendMax ELSE ep.size, SendMax), ep.fd.size)}

(* sendfile() and close(). *)
SendFile ==
  /\ pc = "send" /\ AllPartsSent /\ ~ep.cgi
  /\ \E n \in Transfers : client' = [client EXCEPT !.bytes = @ + n]
  /\ fds' = IF ep.fd.open THEN fds - 1 ELSE fds
  /\ ep' = [ep EXCEPT !.fd.open = FALSE]
  /\ pc' = "destroy"
  /\ UNCHANGED <<wire, taken, peer, fileVars>>

(* ~EndPoint closes the socket. *)
Destroy ==
  /\ pc = "destroy"
  /\ pc' = "closed"
  /\ UNCHANGED <<ep, wire, taken, peer, client, fileVars, fds>>

-----------------------------------------------------------------------------
HandlerStep ==
  \/ RecvHttpRequestLine \/ RecvHttpRequestHeader \/ RecvBlankLine
  \/ RecvHttpRequestBody \/ RecvStops
  \/ BadMethod \/ Stat \/ StatIndex \/ ProcessCgi \/ ProcessNonCgi
  \/ HandlerErrorOpen \/ HandlerErrorNoPage \/ HandlerErrorStat
  \/ SendPart \/ SendBody \/ SendBodyFails \/ SendBodyDone \/ SendFile
  \/ Destroy

Next == \/ Connect \/ Finish \/ Reset
        \/ \E p \in Path : Replace(p)
        \/ HandlerStep

Spec == Init /\ [][Next]_vars

(* The handler runs when it can, and a client does not keep its side of    *)
(* the connection open for ever: the handler has no timeout of its own.    *)
Fairness == WF_vars(HandlerStep) /\ WF_vars(Finish \/ Reset)
FairSpec == Spec /\ Fairness

-----------------------------------------------------------------------------
(* Properties *)

HandlerPc == {"closed", "line", "header", "body", "route", "stat2", "run",
              "err_open", "err_stat", "send", "destroy"}
PartType == [part : {"status", "type", "length", "blank"}, value : Int \cup {Undef}]

StatusCode == {200, 400, 404, 500}
IntType == -(MaxInt + 1) .. MaxInt
EndPointType == [request : Request, left : IntType, path : Path, cgi : BOOLEAN,
                 size : IntType \cup {Undef},
                 st : FileState, code : StatusCode,
                 fd : [open : BOOLEAN, size : Nat], body : Nat,
                 header : Seq(PartType), sent : Nat, total : Nat]

(* Every variable has its type; the count of the body is an int, and the   *)
(* member size is one or not initialised.                                  *)
TypeOK ==
  /\ pc \in HandlerPc
  /\ ep \in EndPointType
  /\ wire \in Seq({"line", "header", "blank", "byte"})
  /\ taken \in Nat /\ peer \in {"open", "finished", "reset"}
  /\ client \in [got : Seq(PartType), bytes : Nat]
  /\ files \in [Path -> FileState] /\ changes \in 0..MaxChanges
  /\ fds \in Nat

(* How many bytes it takes to count an int down to zero: a negative one    *)
(* goes the long way, over the least int and the largest.                  *)
Countdown(n) == IF n < 0 THEN n + 2 * (MaxInt + 1) ELSE n

(* The items a request needs before it may be answered. *)
Needed(r) == 2 + Len(r.lengths) + Countdown(ContentLength(r))

(* An answer is sent if and only if recv() has delivered the request line, *)
(* every header, the blank line and all the bytes that Content-Length      *)
(* stands for in an int: that many, or, of a negative length, as many as   *)
(* there are ints less its absolute value.  A connection that ends earlier *)
(* gets none.                                                              *)
AnsweredIffWhole ==
  /\ client.got # <<>> => taken = Needed(ep.request)
  /\ pc = "destroy" /\ peer # "reset" /\ taken = Needed(ep.request) =>
       client.got # <<>>

(* What reached the client is a prefix of the response: header parts in    *)
(* order, body bytes only after all of them and never more than there are. *)
DeliversPrefix ==
  /\ Len(client.got) <= Len(ep.header)
  /\ client.got = SubSeq(ep.header, 1, Len(client.got))
  /\ client.bytes > 0 => client.got = ep.header
  /\ ep.cgi => client.bytes <= ep.body

(* A file whose size an int holds and one sendfile() transfers. *)
Fits(p) == /\ files[p].kind = "file"
           /\ files[p].size = ToInt(files[p].size) /\ files[p].size <= SendMax

(* The name whose contents are the body, unless a program's output is. *)
Served == IF ep.code = 200 THEN ep.path ELSE ErrorPage

Announced == {i \in 1..Len(client.got) : client.got[i].part = "length"}

(* Content-Length is true: no body comes unannounced, none is ever longer  *)
(* than announced, whatever happens to the files, and at the end program   *)
(* output, and a page or error page that fits and did not change, is all   *)
(* there.                                                                  *)
LengthIsTrue ==
  /\ Announced = {} => client.bytes = 0
  /\ \A i \in Announced :
       LET n == client.got[i].value
       IN  /\ n \in Nat => client.bytes <= n
           /\ (/\ pc = "destroy" /\ peer # "reset"
               /\ ep.cgi \/ (changes = 0 /\ Fits(Served))) => client.bytes = n

(* Only a program that answered with status 200 has its output sent: an    *)
(* error is answered with the error page, and nothing stays open once the  *)
(* response is out.                                                        *)
OpenWhileNeeded ==
  /\ fds = IF ep.fd.open THEN 1 ELSE 0
  /\ ep.fd.open => pc \in {"send", "err_stat"} /\ ~ep.cgi
  /\ (pc = "send" /\ ep.cgi) => ep.code = 200

(* The parts of the inductive invariant.  While anything is left to come,  *)
(* it is the request from item taken + 1 on.                               *)
WireInv == wire # <<>> =>
  /\ taken + Len(wire) = Len(Wire(ep.request))
  /\ \A i \in 1..Len(wire) : wire[i] = Wire(ep.request)[taken + i]

(* How much of the request has been taken, by where the handler is.        *)
Answering == {"route", "stat2", "run", "err_open", "err_stat", "send"}
RecvInv ==
  /\ pc = "line" => taken = 0
  /\ pc = "header" => taken \in 1..(1 + Len(ep.request.lengths))
  /\ pc = "body" => ep.left # 0 /\ taken + Countdown(ep.left) = Needed(ep.request)
  /\ pc \in Answering => taken = Needed(ep.request)

(* The header is made when the response is complete.  From then on the     *)
(* client has what was sent, unless the connection broke.                  *)
SentInv ==
  /\ pc \in HandlerPc \ {"send", "destroy", "closed"} =>
       ep.header = <<>> /\ ep.sent = 0 /\ ep.total = 0
  /\ ep.header = <<>> => client.got = <<>> /\ client.bytes = 0
  /\ pc = "send" =>
       /\ ep.header # <<>>
       /\ Len(client.got) <= ep.sent /\ ep.sent <= Len(ep.header)
       /\ ~AllPartsSent \/ ~ep.cgi => client.bytes = 0
       /\ ~AllPartsSent => ep.total = 0
       /\ peer # "reset" => Len(client.got) = ep.sent
       /\ peer # "reset" /\ ep.cgi => client.bytes = ep.total
  /\ pc = "destroy" /\ peer # "reset" /\ client.got # <<>> =>
       client.got = ep.header

(* What has been found out about the name to serve is still so while the   *)
(* site does not change.                                                   *)
FoundInv ==
  /\ pc = "run" /\ changes = 0 /\ files[ep.path].kind # "none" =>
       ep.size = ToInt(files[ep.path].size)
  /\ pc \in {"err_open", "err_stat"} => ep.code # 200
  /\ pc = "err_stat" => ep.fd.open
  /\ pc = "err_stat" /\ changes = 0 =>
       files[ErrorPage].kind # "none" /\ ep.fd = Opened(ErrorPage)

(* Either the header announces nothing and nothing follows, or it          *)
(* announces n, and what follows is no more, or will be.                   *)
TellsNothing ==
  ep.header = BareLines(ep) /\ ~ep.cgi /\ ~ep.fd.open /\ client.bytes = 0
Tells(n) ==
  /\ ep.header = PageLines(ep, n)
  /\ n \in Nat => client.bytes <= n
  /\ ep.cgi => n = ep.body
  /\ pc = "send" /\ ~ep.cgi =>
       /\ ep.fd.open
       /\ n \in Nat => /\ ep.size # Undef
                       /\ IF ep.size < 0 THEN SendMax <= n ELSE ep.size <= n
       /\ changes = 0 /\ Fits(Served) => n = ep.size /\ n = files[Served].size
                                           /\ n = ep.fd.size
  /\ pc = "destroy" /\ peer # "reset" /\ client.got # <<>>
       /\ (ep.cgi \/ (changes = 0 /\ Fits(Served))) => client.bytes = n
ToldInv == ep.header = <<>> \/ TellsNothing
             \/ (Len(ep.header) = 4 /\ Tells(ep.header[3].value))

IInv == /\ TypeOK /\ OpenWhileNeeded /\ WireInv /\ RecvInv /\ SentInv
        /\ AnsweredIffWhole /\ DeliversPrefix /\ FoundInv /\ ToldInv


(* Protocol.hpp:84 calls the member size the size of the body.             *)
SizeIsBodySize == (pc = "send" /\ ep.fd.open) => ep.size = ep.fd.size
=============================================================================
