----------------------------- MODULE CgiExchange -----------------------------
(***************************************************************************)
(* EndPoint::ProcessCgi: a worker thread answers a request by running a    *)
(* program in a child process, with one pipe to its stdin and one from its *)
(* stdout.                                                                 *)
(*                                                                         *)
(* All worker threads belong to one process, so fork() in one thread       *)
(* copies every descriptor any thread has open at that moment, and no      *)
(* descriptor is closed by exec.  A child can therefore hold ends of pipes *)
(* of other exchanges.  It also copies the logger's mutex in the state it  *)
(* is in, without the thread that would unlock it.                         *)
(*                                                                         *)
(* Bytes are counted, not spelled out: a pipe carries the bytes of one     *)
(* exchange only.                                                          *)
(***************************************************************************)
EXTENDS Integers, FiniteSets

CONSTANTS Handler,   \* the worker threads; each one's child bears its name
          Server,    \* the process that all handlers are threads of
          Free,      \* nobody holds Logger::_mutex
          Cap,       \* the capacity of a pipe, in bytes
          FdLimit,   \* how many pipe ends the server can have open
          IntRange,  \* how many values an int has
          Request,   \* what a request asks for: see RequestType
          NoRequest  \* a handler that serves none

(* A request that reaches ProcessCgi: the method, content_length (which    *)
(* is the length of the body, or negative), and what the program at the    *)
(* path does.  exec: execl succeeds.  reads: it counts CONTENT_LENGTH down *)
(* to zero with a byte of stdin each first (comm.hpp), as opposed to       *)
(* ignoring stdin (shell_cgi.sh).  out: the bytes it prints.  end: how it  *)
(* ends.                                                                   *)
RequestType == [method : {"GET", "POST"}, len : Int, exec : BOOLEAN,
                reads : BOOLEAN, out : Nat, end : {"exit0", "exit1", "signal"}]

ASSUME CgiAssumption ==
  /\ IsFiniteSet(Handler) /\ Server \notin Handler /\ Free \notin Handler
  /\ Cap \in Nat \ {0} /\ FdLimit \in Nat
  /\ Request \subseteq RequestType /\ NoRequest \notin Request
  /\ IntRange \in Nat
  /\ \A r \in Request : r.len > -IntRange /\ (r.method = "GET" => r.len = 0)

(* The ends of an exchange's two pipes, named as in the code: the child    *)
(* writes inW and the parent reads inR; the parent writes outW and the     *)
(* child reads outR.                                                       *)
InputEnds  == {"inR", "inW"}
OutputEnds == {"outR", "outW"}
End == InputEnds \cup OutputEnds

Proc == {Server} \cup Handler

VARIABLES
  pc,       \* each handler: where it is
  req,      \* each handler: the request it serves
  total,    \* each handler: bytes of the body written to output[1]
  body,     \* each handler: bytes in response_body
  code,     \* each handler: the status ProcessCgi returned last
  mutex,    \* the handler that holds Logger::_mutex in the server, or Free
  child,    \* each handler: where its child is
  orphaned, \* each child: its copy of the mutex was locked at the fork
  got,      \* each child: bytes read from stdin
  put,      \* each child: bytes written to stdout
  holders,  \* each exchange, each pipe end: the processes that have it open
  fill,     \* each exchange, each pipe: the bytes in it
  leaked    \* ends the server keeps open for ever, and for which failed calls

handlerVars == <<pc, req, total, body, code>>
childVars   == <<child, orphaned, got, put>>
vars == <<handlerVars, mutex, childVars, holders, fill, leaked>>

Codes == {200, 400, 404, 500}

Goto(h, label)  == pc' = [pc EXCEPT ![h] = label]
Child(h, label) == child' = [child EXCEPT ![h] = label]

(* The code has closed end e of exchange h in process p. *)
Close(h, e, p) == holders' = [holders EXCEPT ![h][e] = @ \ {p}]

(* Pipe ends open in the server. *)
ServerEnds == {end \in Handler \X End : Server \in holders[end[1]][end[2]]}
FdsInUse == Cardinality(ServerEnds) + leaked.ends

Init ==
  /\ pc = [h \in Handler |-> "idle"]
  /\ req = [h \in Handler |-> NoRequest]
  /\ total = [h \in Handler |-> 0]
  /\ body = [h \in Handler |-> 0]
  /\ code = [h \in Handler |-> 200]
  /\ mutex = Free
  /\ child = [h \in Handler |-> "none"]
  /\ orphaned = [h \in Handler |-> FALSE]
  /\ got = [h \in Handler |-> 0]
  /\ put = [h \in Handler |-> 0]
  /\ holders = [h \in Handler |-> [e \in End |-> {}]]
  /\ fill = [h \in Handler |-> [p \in {"in", "out"} |-> 0]]
  /\ leaked = [ends |-> 0, pipes |-> 0, forks |-> 0]

-----------------------------------------------------------------------------
(* The parent: ProcessCgi up to the fork *)

(* A handler has read a request that is to be answered by a program. *)
Begin(h) ==
  /\ pc[h] = "idle"
  /\ \E r \in Request : req' = [req EXCEPT ![h] = r]
  /\ Goto(h, "log")
  /\ UNCHANGED <<total, body, code, mutex, childVars, holders, fill, leaked>>

(* SyncLogger::log: INFO takes the mutex, writes to the sinks, releases.   *)
LogLock(h) ==
  /\ pc[h] = "log"
  /\ mutex = Free
  /\ mutex' = h
  /\ Goto(h, "logged")
  /\ UNCHANGED <<req, total, body, code, childVars, holders, fill, leaked>>

LogUnlock(h) ==
  /\ pc[h] = "logged"
  /\ mutex' = Free
  /\ Goto(h, "pipe_in")
  /\ UNCHANGED <<req, total, body, code, childVars, holders, fill, leaked>>

(* ProcessCgi returns a status; its locals and, once the answer is sent,   *)
(* the EndPoint are gone.                                                  *)
Return(h, status) ==
  /\ code' = [code EXCEPT ![h] = status]
  /\ req' = [req EXCEPT ![h] = NoRequest]
  /\ total' = [total EXCEPT ![h] = 0]
  /\ body' = [body EXCEPT ![h] = 0]
  /\ Goto(h, "idle")

(* After a failed call the handler forgets the ends the server has open.   *)
Abandon(h, failed) ==
  /\ leaked' = [leaked EXCEPT
       !.ends = @ + Cardinality({e \in End : Server \in holders[h][e]}),
       ![failed] = @ + 1]
  /\ holders' = [holders EXCEPT ![h] = [e \in End |-> {}]]

(* pipe(): a new pipe, both ends open in the server and in no child yet.   *)
NewPipe(h, ends, p) ==
  /\ FdsInUse + 2 <= FdLimit
  /\ holders' = [holders EXCEPT ![h] =
                   [e \in End |-> IF e \in ends THEN {Server} ELSE @[e]]]
  /\ fill' = [fill EXCEPT ![h][p] = 0]

PipeIn(h) ==
  /\ pc[h] = "pipe_in"
  /\ NewPipe(h, InputEnds, "in")
  /\ Goto(h, "pipe_out")
  /\ UNCHANGED <<req, total, body, code, mutex, childVars, leaked>>

PipeInFails(h) ==
  /\ pc[h] = "pipe_in"
  /\ FdsInUse + 2 > FdLimit
  /\ Return(h, 500)
  /\ UNCHANGED <<mutex, childVars, holders, fill, leaked>>

PipeOut(h) ==
  /\ pc[h] = "pipe_out"
  /\ NewPipe(h, OutputEnds, "out")
  /\ Goto(h, "fork")
  /\ UNCHANGED <<req, total, body, code, mutex, childVars, leaked>>

(* The return leaves both ends of input open. *)
PipeOutFails(h) ==
  /\ pc[h] = "pipe_out"
  /\ FdsInUse + 2 > FdLimit
  /\ Abandon(h, "pipes")
  /\ Return(h, 500)
  /\ UNCHANGED <<mutex, childVars, fill>>

(* fork(): the child holds every end the server holds, whichever exchange  *)
(* it belongs to, and a copy of the logger's mutex.                        *)
Fork(h) ==
  /\ pc[h] = "fork"
  /\ holders' = [k \in Handler |-> [e \in End |->
                   IF Server \in holders[k][e] THEN holders[k][e] \cup {h}
                                               ELSE holders[k][e]]]
  /\ Child(h, "start")
  /\ orphaned' = [orphaned EXCEPT ![h] = mutex # Free]
  /\ got' = [got EXCEPT ![h] = 0]
  /\ put' = [put EXCEPT ![h] = 0]
  /\ Goto(h, "close_in")
  /\ UNCHANGED <<req, total, body, code, mutex, fill, leaked>>

(* The return leaves all four ends open. *)
ForkFails(h) ==
  /\ pc[h] = "fork"
  /\ Abandon(h, "forks")
  /\ Return(h, 404)
  /\ UNCHANGED <<mutex, childVars, fill>>

-----------------------------------------------------------------------------
(* The parent after the fork *)

(* Variant with a fault: the wrong end of input is closed. *)
CloseInWrongEnd(h) ==
  /\ pc[h] = "close_in"
  /\ Close(h, "inR", Server)
  /\ Goto(h, "close_out")
  /\ UNCHANGED <<req, total, body, code, mutex, childVars, fill, leaked>>

CloseInW(h) ==
  /\ pc[h] = "close_in"
  /\ Close(h, "inW", Server)
  /\ Goto(h, "close_out")
  /\ UNCHANGED <<req, total, body, code, mutex, childVars, fill, leaked>>

(* Variant with a fault: the wrong end of output is closed. *)
CloseOutWrongEnd(h) ==
  /\ pc[h] = "close_out"
  /\ Close(h, "outW", Server)
  /\ Goto(h, IF req[h].method = "POST" THEN "write" ELSE "read")
  /\ UNCHANGED <<req, total, body, code, mutex, childVars, fill, leaked>>

CloseOutR(h) ==
  /\ pc[h] = "close_out"
  /\ Close(h, "outR", Server)
  /\ Goto(h, IF req[h].method = "POST" THEN "write" ELSE "read")
  /\ UNCHANGED <<req, total, body, code, mutex, childVars, fill, leaked>>

(* write() of the body: blocks while the pipe is full. *)
Write(h) ==
  /\ pc[h] = "write"
  /\ total[h] < req[h].len
  /\ holders[h]["outR"] # {}
  /\ fill[h]["out"] < Cap
  /\ fill' = [fill EXCEPT ![h]["out"] = @ + 1]
  /\ total' = [total EXCEPT ![h] = @ + 1]
  /\ UNCHANGED <<pc, req, body, code, mutex, childVars, holders, leaked>>

(* Variant with a fault: a write() that fails ends ProcessCgi at once.     *)
WriteFailsReturns(h) ==
  /\ pc[h] = "write"
  /\ \/ /\ total[h] >= req[h].len
        /\ Goto(h, "read")
        /\ UNCHANGED <<req, total, body, code>>
     \/ /\ total[h] < req[h].len
        /\ holders[h]["outR"] = {}
        /\ Return(h, 500)
  /\ UNCHANGED <<mutex, childVars, holders, fill, leaked>>

(* The whole body is written, or there is none, or nobody can read it any  *)
(* more: SIGPIPE is ignored and write() fails with EPIPE.                  *)
WriteDone(h) ==
  /\ pc[h] = "write"
  /\ total[h] >= req[h].len \/ holders[h]["outR"] = {}
  /\ Goto(h, "read")
  /\ UNCHANGED <<req, total, body, code, mutex, childVars, holders, fill, leaked>>

Read(h) ==
  /\ pc[h] = "read"
  /\ fill[h]["in"] > 0
  /\ fill' = [fill EXCEPT ![h]["in"] = @ - 1]
  /\ body' = [body EXCEPT ![h] = @ + 1]
  /\ UNCHANGED <<pc, req, total, code, mutex, childVars, holders, leaked>>

(* Variant with a fault: an empty pipe is taken for the end of the output. *)
ReadUntilEmpty(h) ==
  /\ pc[h] = "read"
  /\ fill[h]["in"] = 0
  /\ Goto(h, "wait")
  /\ UNCHANGED <<req, total, body, code, mutex, childVars, holders, fill, leaked>>

(* read() returns 0 once the pipe is empty and no process has inW open,    *)
(* neither this exchange's child nor one that inherited it by accident.    *)
ReadEof(h) ==
  /\ pc[h] = "read"
  /\ fill[h]["in"] = 0
  /\ holders[h]["inW"] = {}
  /\ Goto(h, "wait")
  /\ UNCHANGED <<req, total, body, code, mutex, childVars, holders, fill, leaked>>

(* How the child of a request ends, and the status that stands for it. *)
Ending(r) == IF r.exec THEN r.end ELSE "exit1"
StatusOf(r) == CASE Ending(r) = "exit0"  -> 200
                 [] Ending(r) = "exit1"  -> 400
                 [] Ending(r) = "signal" -> 500

Wait(h) ==
  /\ pc[h] = "wait"
  /\ child[h] = "zombie"
  /\ Child(h, "none")
  /\ code' = [code EXCEPT ![h] = StatusOf(req[h])]
  /\ Goto(h, "close")
  /\ UNCHANGED <<req, total, body, mutex, orphaned, got, put, holders, fill, leaked>>

(* Variant with a fault: output[1] is not closed. *)
CloseInROnly(h) ==
  /\ pc[h] = "close"
  /\ Close(h, "inR", Server)
  /\ Return(h, code[h])
  /\ UNCHANGED <<mutex, childVars, fill, leaked>>

(* The last two closes; no process reads outW or writes inR, so what a     *)
(* fork between them would copy makes no difference.                       *)
CloseRest(h) ==
  /\ pc[h] = "close"
  /\ holders' = [holders EXCEPT ![h]["inR"] = @ \ {Server},
                                ![h]["outW"] = @ \ {Server}]
  /\ Return(h, code[h])
  /\ UNCHANGED <<mutex, childVars, fill, leaked>>

-----------------------------------------------------------------------------
(* The child.  Its putenv calls change only its own environment. *)

ChildStart(h) ==
  /\ child[h] = "start"
  /\ holders' = [holders EXCEPT ![h]["inR"] = @ \ {h}, ![h]["outW"] = @ \ {h}]
  /\ Child(h, "log")
  /\ UNCHANGED <<handlerVars, mutex, orphaned, got, put, fill, leaked>>

(* INFO in the child, lines 307 and 314: on a mutex that was locked at the *)
(* fork it waits for a thread that does not exist in this process.         *)
ChildLog(h) ==
  /\ child[h] = "log"
  /\ ~orphaned[h]
  /\ Child(h, "exec")
  /\ UNCHANGED <<handlerVars, mutex, orphaned, got, put, holders, fill, leaked>>

(* dup2 and execl: stdin and stdout are outR and inW, and every inherited  *)
(* descriptor stays open in the program.                                   *)
ChildExec(h) ==
  /\ child[h] = "exec"
  /\ req[h].exec
  /\ Child(h, "run")
  /\ UNCHANGED <<handlerVars, mutex, orphaned, got, put, holders, fill, leaked>>

(* A process that ends closes all it had open. *)
Exit(h) ==
  /\ holders' = [k \in Handler |-> [e \in End |-> holders[k][e] \ {h}]]
  /\ Child(h, "zombie")
  /\ UNCHANGED <<handlerVars, mutex, orphaned, got, put, fill, leaked>>

(* execl fails: exit(1). *)
ChildExecFails(h) ==
  /\ child[h] = "exec"
  /\ ~req[h].exec
  /\ Exit(h)

(* The bytes of stdin the program reads before it prints anything: a count *)
(* below zero comes to zero the long way round.                            *)
ToRead(r) == CASE ~r.reads               -> 0
               [] r.reads /\ r.len >= 0 -> r.len
               [] r.reads /\ r.len < 0  -> r.len + IntRange

(* GetQueryString in comm.hpp: one byte of the body. *)
ChildRead(h) ==
  /\ child[h] = "run"
  /\ got[h] < ToRead(req[h])
  /\ fill[h]["out"] > 0
  /\ fill' = [fill EXCEPT ![h]["out"] = @ - 1]
  /\ got' = [got EXCEPT ![h] = @ + 1]
  /\ UNCHANGED <<handlerVars, mutex, child, orphaned, put, holders, leaked>>

ChildWrite(h) ==
  /\ child[h] = "run"
  /\ got[h] = ToRead(req[h])
  /\ put[h] < req[h].out
  /\ fill[h]["in"] < Cap
  /\ fill' = [fill EXCEPT ![h]["in"] = @ + 1]
  /\ put' = [put EXCEPT ![h] = @ + 1]
  /\ UNCHANGED <<handlerVars, mutex, child, orphaned, got, holders, leaked>>

ChildExit(h) ==
  /\ child[h] = "run"
  /\ got[h] = ToRead(req[h])
  /\ put[h] = req[h].out
  /\ Exit(h)

-----------------------------------------------------------------------------
ParentStep(h) ==
  \/ LogLock(h) \/ LogUnlock(h)
  \/ PipeIn(h) \/ PipeInFails(h) \/ PipeOut(h) \/ PipeOutFails(h)
  \/ Fork(h) \/ ForkFails(h)
  \/ CloseInW(h) \/ CloseOutR(h)
  \/ Write(h) \/ WriteDone(h) \/ Read(h) \/ ReadEof(h)
  \/ Wait(h) \/ CloseRest(h)

ChildStep(h) ==
  \/ ChildStart(h) \/ ChildLog(h) \/ ChildExec(h) \/ ChildExecFails(h)
  \/ ChildRead(h) \/ ChildWrite(h) \/ ChildExit(h)

Next == \E h \in Handler : Begin(h) \/ ParentStep(h) \/ ChildStep(h)

Spec == Init /\ [][Next]_vars

(* Threads and processes that can run do run.  No fairness on requests,    *)
(* and none stronger than weak on the logger's mutex.                      *)
Fairness == \A h \in Handler : WF_vars(ParentStep(h)) /\ WF_vars(ChildStep(h))
FairSpec == Spec /\ Fairness

-----------------------------------------------------------------------------
(* Properties *)

ParentPc == {"idle", "log", "logged", "pipe_in", "pipe_out", "fork", "close_in",
             "close_out", "write", "read", "wait", "close"}
ChildPc  == {"none", "start", "log", "exec", "run", "zombie"}

(* Every variable has its type; a pipe never holds more than Cap bytes. *)
TypeOK ==
  /\ pc \in [Handler -> ParentPc]
  /\ req \in [Handler -> Request \cup {NoRequest}]
  /\ total \in [Handler -> Nat] /\ body \in [Handler -> Nat]
  /\ code \in [Handler -> Codes]
  /\ mutex \in Handler \cup {Free}
  /\ child \in [Handler -> ChildPc]
  /\ orphaned \in [Handler -> BOOLEAN]
  /\ got \in [Handler -> Nat] /\ put \in [Handler -> Nat]
  /\ holders \in [Handler -> [End -> SUBSET Proc]]
  /\ fill \in [Handler -> [{"in", "out"} -> 0..Cap]]
  /\ leaked \in [ends : Nat, pipes : Nat, forks : Nat]

(* When ProcessCgi returns OK, response_body is everything the program     *)
(* printed, and a program that reads its body was given all of it; any     *)
(* other end of the program gives another status.                          *)
WholeAnswer ==
  \A h \in Handler : pc[h] = "close" =>
    /\ code[h] = StatusOf(req[h])
    /\ code[h] = 200 => /\ body[h] = req[h].out
                        /\ req[h].reads => got[h] = req[h].len

(* While the program runs, the server keeps the other end of both its      *)
(* pipes open: comm.hpp, which ignores what read() returns, never meets an *)
(* early end of file, and output never fails, whichever descriptors        *)
(* other exchanges close.                                                  *)
PeerHoldsOn ==
  \A h \in Handler : child[h] = "run" =>
    Server \in holders[h]["outW"] /\ Server \in holders[h]["inR"]

(* What the server has lost for ever: two ends for each second pipe() that *)
(* failed and four for each fork(), the leak of Protocol.hpp:286 and 333,  *)
(* and nothing else.                                                       *)
LeakInv == leaked.ends = 2 * leaked.pipes + 4 * leaked.forks

(* Between exchanges a handler has no pipe end open and no child, running  *)
(* or zombie, except the ends that a failed pipe() or fork() left behind,  *)
(* exactly two or four each time.                                          *)
ExchangeCleansUp ==
  /\ LeakInv
  /\ \A h \in Handler : pc[h] = "idle" =>
       /\ \A e \in End : Server \notin holders[h][e]
       /\ child[h] = "none"

(* The parts of the inductive invariant.  A handler serves a request       *)
(* except when it is idle.                                                 *)
ServesInv == \A h \in Handler : pc[h] # "idle" <=> req[h] \in Request

(* There is a child, running or zombie, from fork() to waitpid(). *)
Forked == {"close_in", "close_out", "write", "read", "wait"}
ChildInv == \A h \in Handler : child[h] # "none" <=> pc[h] \in Forked

(* Where the parent has each of its four ends open. *)
OpenAt == [inR  |-> {"pipe_out", "fork", "close"} \cup Forked,
           inW  |-> {"pipe_out", "fork", "close_in"},
           outR |-> {"fork", "close_in", "close_out"},
           outW |-> {"fork", "close"} \cup Forked]
ServerInv == \A h \in Handler : \A e \in End :
               Server \in holders[h][e] <=> pc[h] \in OpenAt[e]

(* A child has the ends it uses open until it ends: the parent cannot take *)
(* a pause for the end of the output.                                      *)
Alive(h) == child[h] \in {"start", "log", "exec", "run"}
LiveInv == \A h \in Handler :
             /\ Alive(h) => h \in holders[h]["inW"] /\ h \in holders[h]["outR"]
             /\ pc[h] = "wait" => child[h] = "zombie"

(* What went into a pipe has come out or is in it, and no more goes in     *)
(* than the body has.                                                      *)
Flow(h) ==
  /\ total[h] = 0 \/ total[h] <= req[h].len
  /\ pc[h] \notin Forked \cup {"close"} => total[h] = 0 /\ body[h] = 0
  /\ pc[h] \in {"pipe_out", "fork"} => fill[h]["in"] = 0
  /\ pc[h] = "fork" => fill[h]["out"] = 0
  /\ pc[h] \in Forked \cup {"close"} => /\ put[h] = body[h] + fill[h]["in"]
                                        /\ total[h] = got[h] + fill[h]["out"]
  /\ pc[h] \in {"wait", "close"} => fill[h]["in"] = 0
FlowInv == \A h \in Handler : Flow(h)

(* A program that was executed ends after all it had to read and write. *)
Ended(h) ==
  /\ (child[h] = "zombie" \/ pc[h] = "close") /\ req[h].exec =>
       got[h] = ToRead(req[h]) /\ put[h] = req[h].out
  /\ pc[h] = "close" => code[h] = StatusOf(req[h])
EndInv == \A h \in Handler : Ended(h)

IInv == /\ TypeOK /\ ServesInv /\ ChildInv /\ ServerInv /\ LiveInv
        /\ FlowInv /\ EndInv /\ LeakInv

(* A child that waits for the logger's mutex it copied while locked;       *)
(* parent and child each waiting for the other to empty a full pipe; and a *)
(* child that counts a negative length down, waiting for a body of which   *)
(* its parent, which waits for its output, has written nothing.            *)
StuckInLog(h) == child[h] = "log" /\ orphaned[h]
BothWriting(h) ==
  /\ pc[h] = "write" /\ total[h] < req[h].len /\ fill[h]["out"] = Cap
  /\ child[h] = "run" /\ got[h] = ToRead(req[h])
  /\ put[h] < req[h].out /\ fill[h]["in"] = Cap
Starved(h) ==
  /\ req[h].len < 0 /\ req[h].reads
  /\ pc[h] = "read" /\ child[h] = "run"
Jammed(h) == StuckInLog(h) \/ BothWriting(h) \/ Starved(h)

(* ProcessCgi has started and not returned. *)
Busy(h) == pc[h] \notin {"idle", "log", "logged"}

(* Children that keep the exchange of h from seeing an end of file or      *)
(* EPIPE.                                                                  *)
Blockers(h) == (holders[h]["inW"] \cup holders[h]["outR"]) \ {Server}

(* The complete list of ways ProcessCgi can hang: it returns unless a      *)
(* child that is jammed, its own or another exchange's that inherited its  *)
(* pipe, holds an end it waits on.                                         *)
OnlyJamsHang ==
  \A h \in Handler :
    Busy(h) ~> (~Busy(h) \/ \E k \in Blockers(h) : Jammed(k))

(* Protocol.hpp:356 says that the parent waits for the child to end and    *)
(* gets its exit status.                                                   *)
ChildIsReaped == \A h \in Handler : child[h] # "none" ~> child[h] = "none"
=============================================================================
