-------------------------- MODULE CgiExchange_proofs -------------------------
(***************************************************************************)
(* Proofs about CgiExchange, for any finite set of handlers, any capacity  *)
(* of a pipe, any limit on descriptors and any requests.                   *)
(***************************************************************************)
EXTENDS CgiExchange, FiniteSetTheorems, TLAPS

(* The ends of a pipe that are open in a process are at most four. *)
LEMMA EndsFinite == \A S \in SUBSET End : Cardinality(S) \in Nat
<1>1. IsFiniteSet(End)
  <2>1. /\ IsFiniteSet({}) /\ \A T, x : IsFiniteSet(T) => IsFiniteSet(T \cup {x})
    BY FS_EmptySet, FS_AddElement
  <2>2. /\ IsFiniteSet({} \cup {"inR"})
        /\ IsFiniteSet(({} \cup {"inR"}) \cup {"inW"})
        /\ IsFiniteSet((({} \cup {"inR"}) \cup {"inW"}) \cup {"outR"})
        /\ IsFiniteSet(((({} \cup {"inR"}) \cup {"inW"}) \cup {"outR"}) \cup {"outW"})
    BY <2>1
  <2>3. ((({} \cup {"inR"}) \cup {"inW"}) \cup {"outR"}) \cup {"outW"} = End
    BY DEF End, InputEnds, OutputEnds
  <2> QED BY <2>2, <2>3
<1> QED BY <1>1, FS_Subset, FS_CardinalityType

LEMMA EndNames == /\ End = {"inR", "inW", "outR", "outW"}
                  /\ InputEnds = {"inR", "inW"} /\ OutputEnds = {"outR", "outW"}
BY DEF End, InputEnds, OutputEnds

(* What each operation on the ends does, end by end and process by process.*)
LEMMA Closed ==
  ASSUME TypeOK, NEW h \in Handler, NEW e \in End, NEW p \in Proc, Close(h, e, p)
  PROVE  /\ holders' \in [Handler -> [End -> SUBSET Proc]]
         /\ \A k \in Handler, f \in End, x \in Proc :
              x \in holders'[k][f] <=>
                x \in holders[k][f] /\ ~(k = h /\ f = e /\ x = p)
BY DEF TypeOK, Close

LEMMA Abandoned ==
  ASSUME TypeOK, NEW h \in Handler, NEW failed \in {"pipes", "forks"},
         Abandon(h, failed)
  PROVE  /\ holders' \in [Handler -> [End -> SUBSET Proc]]
         /\ leaked' \in [ends : Nat, pipes : Nat, forks : Nat]
         /\ \A k \in Handler, f \in End, x \in Proc :
              x \in holders'[k][f] <=> x \in holders[k][f] /\ k # h
<1> DEFINE n == Cardinality({e \in End : Server \in holders[h][e]})
<1>1. n \in Nat
  BY EndsFinite
<1>2. leaked' \in [ends : Nat, pipes : Nat, forks : Nat]
  <2>1. /\ leaked \in [ends : Nat, pipes : Nat, forks : Nat]
        /\ leaked' = [leaked EXCEPT !.ends = @ + n, ![failed] = @ + 1]
    BY DEF TypeOK, Abandon
  <2> HIDE DEF n
  <2>2. CASE failed = "pipes"
    <3>1. leaked' = [ends |-> leaked.ends + n, pipes |-> leaked.pipes + 1,
                     forks |-> leaked.forks]
      BY <2>1, <2>2
    <3>2. leaked.ends + n \in Nat /\ leaked.pipes + 1 \in Nat /\ leaked.forks \in Nat
      BY <1>1, <2>1
    <3> QED BY <3>1, <3>2
  <2>3. CASE failed = "forks"
    <3>1. leaked' = [ends |-> leaked.ends + n, pipes |-> leaked.pipes,
                     forks |-> leaked.forks + 1]
      BY <2>1, <2>3
    <3>2. leaked.ends + n \in Nat /\ leaked.forks + 1 \in Nat /\ leaked.pipes \in Nat
      BY <1>1, <2>1
    <3> QED BY <3>1, <3>2
  <2> QED BY <2>2, <2>3
<1> QED BY <1>2 DEF TypeOK, Abandon

LEMMA Piped ==
  ASSUME TypeOK, NEW h \in Handler, NEW E \in SUBSET End, NEW p \in {"in", "out"},
         NewPipe(h, E, p)
  PROVE  /\ holders' \in [Handler -> [End -> SUBSET Proc]]
         /\ \A k \in Handler, f \in End, x \in Proc :
              x \in holders'[k][f] <=> IF k = h /\ f \in E THEN x = Server
                                                        ELSE x \in holders[k][f]
         /\ fill' \in [Handler -> [{"in", "out"} -> 0..Cap]]
         /\ \A k \in Handler : \A q \in {"in", "out"} :
              fill'[k][q] = IF k = h /\ q = p THEN 0 ELSE fill[k][q]
BY CgiAssumption DEF TypeOK, NewPipe, Proc

LEMMA ForkedOff ==
  ASSUME TypeOK, NEW h \in Handler, Fork(h)
  PROVE  /\ holders' \in [Handler -> [End -> SUBSET Proc]]
         /\ \A k \in Handler, f \in End, x \in Proc :
              x \in holders'[k][f] <=> \/ x \in holders[k][f]
                                       \/ x = h /\ Server \in holders[k][f]
<1>1. /\ holders' = [k \in Handler |-> [e \in End |->
                       IF Server \in holders[k][e] THEN holders[k][e] \cup {h}
                                                   ELSE holders[k][e]]]
      /\ holders \in [Handler -> [End -> SUBSET Proc]] /\ h \in Proc
  BY DEF TypeOK, Fork, Proc
<1>2. ASSUME NEW k \in Handler, NEW f \in End
      PROVE  holders'[k][f] = IF Server \in holders[k][f] THEN holders[k][f] \cup {h}
                                                          ELSE holders[k][f]
  BY <1>1
<1>3. holders' \in [Handler -> [End -> SUBSET Proc]]
  BY <1>1
<1>4. ASSUME NEW k \in Handler, NEW f \in End, NEW x \in Proc
      PROVE  x \in holders'[k][f] <=> \/ x \in holders[k][f]
                                      \/ x = h /\ Server \in holders[k][f]
  BY <1>2
<1> QED BY <1>3, <1>4

LEMMA Exited ==
  ASSUME TypeOK, NEW h \in Handler, Exit(h)
  PROVE  /\ holders' \in [Handler -> [End -> SUBSET Proc]]
         /\ \A k \in Handler, f \in End, x \in Proc :
              x \in holders'[k][f] <=> x \in holders[k][f] /\ x # h
BY DEF TypeOK, Exit, Proc

LEMMA RestClosed ==
  ASSUME TypeOK, NEW h \in Handler, NEW p \in Proc,
         holders' = [holders EXCEPT ![h]["inR"] = @ \ {p}, ![h]["outW"] = @ \ {p}]
  PROVE  /\ holders' \in [Handler -> [End -> SUBSET Proc]]
         /\ \A k \in Handler, f \in End, x \in Proc :
              x \in holders'[k][f] <=>
                x \in holders[k][f] /\ ~(k = h /\ f \in {"inR", "outW"} /\ x = p)
<1> DEFINE g == [holders EXCEPT ![h]["inR"] = @ \ {p}]
<1>1. /\ holders \in [Handler -> [End -> SUBSET Proc]]
      /\ "inR" \in End /\ "outW" \in End
  BY EndNames DEF TypeOK
<1>2. g \in [Handler -> [End -> SUBSET Proc]]
  BY <1>1
<1>3. \A k \in Handler, f \in End, x \in Proc :
        x \in g[k][f] <=> x \in holders[k][f] /\ ~(k = h /\ f = "inR" /\ x = p)
  BY <1>1
<1>4. holders' = [g EXCEPT ![h]["outW"] = @ \ {p}]
  BY <1>1
<1> HIDE DEF g
<1>5. holders' \in [Handler -> [End -> SUBSET Proc]]
  BY <1>1, <1>2, <1>4
<1>6. \A k \in Handler, f \in End, x \in Proc :
        x \in holders'[k][f] <=> x \in g[k][f] /\ ~(k = h /\ f = "outW" /\ x = p)
  BY <1>1, <1>2, <1>4
<1> QED BY <1>3, <1>5, <1>6

-----------------------------------------------------------------------------
(* The status that stands for the end of a program is one of Codes. *)
LEMMA StatusType == \A r \in Request : StatusOf(r) \in Codes
BY CgiAssumption DEF RequestType, StatusOf, Ending, Codes

LEMMA ReturnType ==
  ASSUME TypeOK, NEW h \in Handler, NEW status \in Codes, Return(h, status)
  PROVE  /\ pc' \in [Handler -> ParentPc]
         /\ req' \in [Handler -> Request \cup {NoRequest}]
         /\ total' \in [Handler -> Nat] /\ body' \in [Handler -> Nat]
         /\ code' \in [Handler -> Codes]
BY DEF TypeOK, Return, Goto, ParentPc

(* Every step keeps the types. *)
LEMMA TypeStep == TypeOK /\ ServesInv /\ [Next]_vars => TypeOK'
<1> SUFFICES ASSUME TypeOK, ServesInv, [Next]_vars PROVE TypeOK'
  OBVIOUS
<1> USE DEF handlerVars, childVars
<1>1. ASSUME NEW h \in Handler, Begin(h) PROVE TypeOK'
  BY <1>1 DEF TypeOK, Begin, Goto, ParentPc
<1>2. ASSUME NEW h \in Handler, LogLock(h) \/ LogUnlock(h) PROVE TypeOK'
  BY <1>2 DEF TypeOK, LogLock, LogUnlock, Goto, ParentPc
<1>3. ASSUME NEW h \in Handler, PipeIn(h) PROVE TypeOK'
  BY <1>3, Piped DEF TypeOK, PipeIn, Goto, ParentPc, End
<1>4. ASSUME NEW h \in Handler, PipeOut(h) PROVE TypeOK'
  BY <1>4, Piped DEF TypeOK, PipeOut, Goto, ParentPc, End
<1>5. ASSUME NEW h \in Handler, PipeInFails(h) PROVE TypeOK'
  BY <1>5, ReturnType DEF TypeOK, PipeInFails, Codes
<1>6. ASSUME NEW h \in Handler, PipeOutFails(h) \/ ForkFails(h) PROVE TypeOK'
  BY <1>6, ReturnType, Abandoned DEF TypeOK, PipeOutFails, ForkFails, Codes
<1>7. ASSUME NEW h \in Handler, Fork(h) PROVE TypeOK'
  BY <1>7, ForkedOff DEF TypeOK, Fork, Goto, Child, ParentPc, ChildPc
<1>8. ASSUME NEW h \in Handler, CloseInW(h) PROVE TypeOK'
  BY <1>8, Closed
  DEF TypeOK, CloseInW, Goto, ParentPc, End, InputEnds, Proc
<1>9. ASSUME NEW h \in Handler, CloseOutR(h) PROVE TypeOK'
  BY <1>9, Closed
  DEF TypeOK, CloseOutR, Goto, ParentPc, End, OutputEnds, Proc
<1>10. ASSUME NEW h \in Handler, Write(h) PROVE TypeOK'
  BY <1>10, CgiAssumption DEF TypeOK, Write
<1>11. ASSUME NEW h \in Handler, WriteDone(h) \/ ReadEof(h) PROVE TypeOK'
  BY <1>11 DEF TypeOK, WriteDone, ReadEof, Goto, ParentPc
<1>12. ASSUME NEW h \in Handler, Read(h) PROVE TypeOK'
  BY <1>12, CgiAssumption DEF TypeOK, Read
<1>13. ASSUME NEW h \in Handler, Wait(h) PROVE TypeOK'
  <2>1. StatusOf(req[h]) \in Codes
    BY <1>13, StatusType DEF Wait, ServesInv
  <2> QED BY <1>13, <2>1 DEF TypeOK, Wait, Goto, Child, ParentPc, ChildPc
<1>14. ASSUME NEW h \in Handler, CloseRest(h) PROVE TypeOK'
  BY <1>14, ReturnType, RestClosed DEF TypeOK, CloseRest, Proc
<1>15. ASSUME NEW h \in Handler, ChildStart(h) PROVE TypeOK'
  BY <1>15, RestClosed DEF TypeOK, ChildStart, Child, ChildPc, Proc
<1>16. ASSUME NEW h \in Handler, ChildLog(h) \/ ChildExec(h) PROVE TypeOK'
  BY <1>16 DEF TypeOK, ChildLog, ChildExec, Child, ChildPc
<1>17. ASSUME NEW h \in Handler, Exit(h) PROVE TypeOK'
  BY <1>17, Exited DEF TypeOK, Exit, Child, ChildPc
<1>18. ASSUME NEW h \in Handler, ChildRead(h) PROVE TypeOK'
  BY <1>18, CgiAssumption DEF TypeOK, ChildRead
<1>19. ASSUME NEW h \in Handler, ChildWrite(h) PROVE TypeOK'
  BY <1>19, CgiAssumption DEF TypeOK, ChildWrite
<1>20. CASE UNCHANGED vars
  BY <1>20 DEF TypeOK, vars
<1> QED
  BY <1>1, <1>2, <1>3, <1>4, <1>5, <1>6, <1>7, <1>8, <1>9, <1>10, <1>11, <1>12,
     <1>13, <1>14, <1>15, <1>16, <1>17, <1>18, <1>19, <1>20
  DEF Next, ParentStep, ChildStep, ChildExecFails, ChildExit

(* A handler serves a request except when it is idle. *)
LEMMA ServesStep == TypeOK /\ ServesInv /\ [Next]_vars => ServesInv'
<1> SUFFICES ASSUME TypeOK, ServesInv, [Next]_vars PROVE ServesInv'
  OBVIOUS
<1>0. /\ pc \in [Handler -> ParentPc] /\ NoRequest \notin Request
      /\ req \in [Handler -> Request \cup {NoRequest}]
  BY CgiAssumption DEF TypeOK
<1> USE <1>0 DEF ServesInv, Goto, handlerVars, childVars
<1>1. ASSUME NEW h \in Handler, Begin(h) PROVE ServesInv'
  BY <1>1 DEF Begin
<1>2. ASSUME NEW h \in Handler, NEW status, Return(h, status)
      PROVE  ServesInv'
  <2>1. pc' = [pc EXCEPT ![h] = "idle"] /\ req' = [req EXCEPT ![h] = NoRequest]
    BY <1>2 DEF Return
  <2> QED BY <2>1
<1>3. ASSUME NEW h \in Handler, NEW label, Goto(h, label), label # "idle",
             pc[h] # "idle", req' = req
      PROVE  ServesInv'
  BY <1>3
<1>4. ASSUME NEW h \in Handler,
             \/ LogLock(h) \/ LogUnlock(h) \/ PipeIn(h) \/ PipeOut(h) \/ Fork(h)
             \/ CloseInW(h) \/ CloseOutR(h) \/ WriteDone(h) \/ ReadEof(h) \/ Wait(h)
      PROVE  ServesInv'
  BY <1>3, <1>4
  DEF LogLock, LogUnlock, PipeIn, PipeOut, Fork, CloseInW, CloseOutR, WriteDone,
      ReadEof, Wait
<1>5. ASSUME NEW h \in Handler,
             PipeInFails(h) \/ PipeOutFails(h) \/ ForkFails(h) \/ CloseRest(h)
      PROVE  ServesInv'
  BY <1>2, <1>5 DEF PipeInFails, PipeOutFails, ForkFails, CloseRest
<1>6. ASSUME NEW h \in Handler, ChildStep(h) \/ Write(h) \/ Read(h)
      PROVE  pc' = pc /\ req' = req
  BY <1>6 DEF ChildStep, ChildStart, ChildLog, ChildExec, ChildExecFails, ChildRead,
              ChildWrite, ChildExit, Exit, Write, Read
<1>7. CASE UNCHANGED vars
  BY <1>7 DEF vars
<1> QED
  BY <1>1, <1>4, <1>5, <1>6, <1>7 DEF Next, ParentStep

(* There is a child from fork() to waitpid(). *)
LEMMA ChildInvStep == TypeOK /\ ChildInv /\ [Next]_vars => ChildInv'
<1> SUFFICES ASSUME TypeOK, ChildInv, [Next]_vars PROVE ChildInv'
  OBVIOUS
<1>0. pc \in [Handler -> ParentPc] /\ child \in [Handler -> ChildPc]
  BY DEF TypeOK
<1> USE <1>0 DEF ChildInv, Forked, Goto, Child, handlerVars, childVars
<1>1. ASSUME NEW h \in Handler, NEW label, Goto(h, label), child' = child,
             label \in Forked <=> pc[h] \in Forked
      PROVE  ChildInv'
  BY <1>1
<1>2. ASSUME NEW h \in Handler, NEW label, Child(h, label), pc' = pc,
             label # "none", child[h] # "none"
      PROVE  ChildInv'
  BY <1>2
<1>3. ASSUME NEW h \in Handler,
             \/ Begin(h) \/ LogLock(h) \/ LogUnlock(h) \/ PipeIn(h) \/ PipeOut(h)
             \/ CloseInW(h) \/ CloseOutR(h) \/ WriteDone(h) \/ ReadEof(h)
      PROVE  ChildInv'
  BY <1>1, <1>3
  DEF Begin, LogLock, LogUnlock, PipeIn, PipeOut, CloseInW, CloseOutR, WriteDone,
      ReadEof
<1>4. ASSUME NEW h \in Handler,
             PipeInFails(h) \/ PipeOutFails(h) \/ ForkFails(h) \/ CloseRest(h)
      PROVE  ChildInv'
  BY <1>1, <1>4 DEF PipeInFails, PipeOutFails, ForkFails, CloseRest, Return
<1>5. ASSUME NEW h \in Handler, Fork(h) \/ Wait(h) PROVE ChildInv'
  BY <1>5 DEF Fork, Wait
<1>6. ASSUME NEW h \in Handler, ChildStart(h) \/ ChildLog(h) \/ ChildExec(h)
      PROVE  ChildInv'
  BY <1>2, <1>6 DEF ChildStart, ChildLog, ChildExec
<1>7. ASSUME NEW h \in Handler, ChildExecFails(h) \/ ChildExit(h) PROVE ChildInv'
  BY <1>2, <1>7 DEF ChildExecFails, ChildExit, Exit
<1>8. ASSUME NEW h \in Handler, ChildRead(h) \/ ChildWrite(h) \/ Write(h) \/ Read(h)
      PROVE  pc' = pc /\ child' = child
  BY <1>8 DEF ChildRead, ChildWrite, Write, Read
<1>9. CASE UNCHANGED vars
  BY <1>9 DEF vars
<1> QED
  BY <1>3, <1>4, <1>5, <1>6, <1>7, <1>8, <1>9 DEF Next, ParentStep, ChildStep

(* Which ends are open, line by line. *)
LEMMA OpenEnds ==
  ASSUME NEW e \in End
  PROVE  /\ \A label \in {"idle", "log", "logged", "pipe_in"} : label \notin OpenAt[e]
         /\ "pipe_out" \in OpenAt[e] <=> e \in InputEnds
         /\ "fork" \in OpenAt[e] /\ "close_in" \in OpenAt[e]
         /\ "close_out" \in OpenAt[e] <=> e # "inW"
         /\ \A label \in {"write", "read", "wait", "close"} :
              label \in OpenAt[e] <=> e \in {"inR", "outW"}
<1>1. /\ OpenAt["inR"]  = {"pipe_out", "fork", "close"} \cup Forked
      /\ OpenAt["inW"]  = {"pipe_out", "fork", "close_in"}
      /\ OpenAt["outR"] = {"fork", "close_in", "close_out"}
      /\ OpenAt["outW"] = {"fork", "close"} \cup Forked
  BY DEF OpenAt
<1>2. CASE e = "inR"
  BY <1>1, <1>2, EndNames DEF Forked
<1>3. CASE e = "inW"
  BY <1>1, <1>3, EndNames
<1>4. CASE e = "outR"
  BY <1>1, <1>4, EndNames
<1>5. CASE e = "outW"
  BY <1>1, <1>5, EndNames DEF Forked
<1> QED BY <1>2, <1>3, <1>4, <1>5, EndNames

(* The parent has an end open exactly where the code is between opening and *)
(* closing it, whatever its children and other exchanges do.               *)
LEMMA ServerStep == TypeOK /\ ServerInv /\ [Next]_vars => ServerInv'
<1> SUFFICES ASSUME TypeOK, ServerInv, [Next]_vars PROVE ServerInv'
  OBVIOUS
<1>0. /\ pc \in [Handler -> ParentPc] /\ Server \notin Handler
      /\ \A h \in Handler : \A e \in End :
           Server \in holders[h][e] <=> pc[h] \in OpenAt[e]
      /\ Server \in Proc /\ Handler \subseteq Proc
  BY CgiAssumption DEF TypeOK, ServerInv, Proc
<1>1. ASSUME NEW h \in Handler, NEW label, Goto(h, label),
             \A k \in Handler \ {h} : \A e \in End :
               Server \in holders'[k][e] <=> Server \in holders[k][e],
             \A e \in End : Server \in holders'[h][e] <=> label \in OpenAt[e]
      PROVE  ServerInv'
  BY <1>0, <1>1 DEF ServerInv, Goto
<1>2. ASSUME pc' = pc,
             \A h \in Handler : \A e \in End :
               Server \in holders'[h][e] <=> Server \in holders[h][e]
      PROVE  ServerInv'
  BY <1>0, <1>2 DEF ServerInv
<1>3. ASSUME NEW h \in Handler,
             \/ Begin(h) \/ LogLock(h) \/ LogUnlock(h) \/ PipeInFails(h)
             \/ WriteDone(h) \/ ReadEof(h) \/ Wait(h)
      PROVE  ServerInv'
  <2>1. PICK label \in ParentPc :
          /\ Goto(h, label) /\ holders' = holders
          /\ \/ pc[h] \in {"idle", "log", "logged", "pipe_in"}
                /\ label \in {"idle", "log", "logged", "pipe_in"}
             \/ /\ pc[h] \in {"write", "read", "wait", "close"}
                /\ label \in {"write", "read", "wait", "close"}
    BY <1>3
    DEF Begin, LogLock, LogUnlock, PipeInFails, WriteDone, ReadEof, Wait, Return,
        ParentPc
  <2>2. \A e \in End : pc[h] \in OpenAt[e] <=> label \in OpenAt[e]
    BY <2>1, OpenEnds
  <2> QED BY <1>0, <1>1, <2>1, <2>2
<1>4. ASSUME NEW h \in Handler, PipeIn(h) PROVE ServerInv'
  <2>1. /\ Goto(h, "pipe_out") /\ pc[h] = "pipe_in"
        /\ \A k \in Handler, e \in End :
             Server \in holders'[k][e] <=>
               (k = h /\ e \in InputEnds) \/ Server \in holders[k][e]
    <3>1. InputEnds \in SUBSET End
      BY DEF End
    <3> QED BY <1>0, <1>4, <3>1, Piped DEF PipeIn
  <2>2. \A e \in End : "pipe_in" \notin OpenAt[e]
                      /\ ("pipe_out" \in OpenAt[e] <=> e \in InputEnds)
    BY OpenEnds
  <2> QED BY <1>0, <1>1, <2>1, <2>2
<1>5. ASSUME NEW h \in Handler, PipeOut(h) PROVE ServerInv'
  <2>1. /\ Goto(h, "fork") /\ pc[h] = "pipe_out"
        /\ \A k \in Handler, e \in End :
             Server \in holders'[k][e] <=>
               (k = h /\ e \in OutputEnds) \/ Server \in holders[k][e]
    <3>1. OutputEnds \in SUBSET End
      BY DEF End
    <3> QED BY <1>0, <1>5, <3>1, Piped DEF PipeOut
  <2>2. \A e \in End : /\ "pipe_out" \in OpenAt[e] <=> e \in InputEnds
                       /\ "fork" \in OpenAt[e] /\ e \in InputEnds \cup OutputEnds
    BY OpenEnds DEF End
  <2> QED BY <1>0, <1>1, <2>1, <2>2
<1>6. ASSUME NEW h \in Handler, PipeOutFails(h) \/ ForkFails(h) PROVE ServerInv'
  <2>1. /\ Goto(h, "idle")
        /\ \A k \in Handler, e \in End :
             Server \in holders'[k][e] <=> k # h /\ Server \in holders[k][e]
    BY <1>0, <1>6, Abandoned DEF PipeOutFails, ForkFails, Return
  <2>2. \A e \in End : "idle" \notin OpenAt[e]
    BY OpenEnds
  <2> QED BY <1>0, <1>1, <2>1, <2>2
<1>7. ASSUME NEW h \in Handler, Fork(h) PROVE ServerInv'
  <2>1. Goto(h, "close_in") /\ pc[h] = "fork"
    BY <1>7 DEF Fork
  <2>2. \A k \in Handler : \A e \in End :
          Server \in holders'[k][e] <=> Server \in holders[k][e]
    BY <1>0, <1>7, ForkedOff
  <2>3. \A e \in End : "fork" \in OpenAt[e] /\ "close_in" \in OpenAt[e]
    BY OpenEnds
  <2> QED BY <1>0, <1>1, <2>1, <2>2, <2>3
<1>8. ASSUME NEW h \in Handler, CloseInW(h) PROVE ServerInv'
  <2>1. /\ Goto(h, "close_out") /\ pc[h] = "close_in"
        /\ \A k \in Handler, e \in End :
             Server \in holders'[k][e] <=>
               Server \in holders[k][e] /\ ~(k = h /\ e = "inW")
    <3>1. "inW" \in End /\ Server \in Proc
      BY EndNames DEF Proc
    <3> QED BY <1>8, <3>1, Closed DEF CloseInW
  <2>2. \A e \in End : /\ "close_in" \in OpenAt[e]
                       /\ "close_out" \in OpenAt[e] <=> e # "inW"
    BY OpenEnds
  <2>3. ASSUME NEW e \in End
        PROVE  Server \in holders'[h][e] <=> "close_out" \in OpenAt[e]
    <3>1. Server \in holders'[h][e] <=> Server \in holders[h][e] /\ e # "inW"
      BY <2>1
    <3>2. Server \in holders[h][e]
      BY <1>0, <2>1, <2>2
    <3> QED BY <2>2, <3>1, <3>2
  <2> QED BY <1>1, <2>1, <2>3
<1>9. ASSUME NEW h \in Handler, CloseOutR(h) PROVE ServerInv'
  <2>1. /\ pc[h] = "close_out"
        /\ \A k \in Handler, e \in End :
             Server \in holders'[k][e] <=>
               Server \in holders[k][e] /\ ~(k = h /\ e = "outR")
    <3>1. "outR" \in End /\ Server \in Proc
      BY EndNames DEF Proc
    <3> QED BY <1>9, <3>1, Closed DEF CloseOutR
  <2>2. PICK label \in {"write", "read"} : Goto(h, label)
    BY <1>9 DEF CloseOutR
  <2>3. \A e \in End : /\ "close_out" \in OpenAt[e] <=> e # "inW"
                       /\ label \in OpenAt[e] <=> e \in {"inR", "outW"}
    BY OpenEnds
  <2>4. ASSUME NEW e \in End
        PROVE  Server \in holders'[h][e] <=> label \in OpenAt[e]
    <3>1. Server \in holders'[h][e] <=> Server \in holders[h][e] /\ e # "outR"
      BY <2>1
    <3>2. Server \in holders[h][e] <=> e # "inW"
      BY <1>0, <2>1, <2>3
    <3>3. e # "inW" /\ e # "outR" <=> e \in {"inR", "outW"}
      BY EndNames
    <3> QED BY <2>3, <3>1, <3>2, <3>3
  <2> QED BY <1>1, <2>1, <2>2, <2>4
<1>10. ASSUME NEW h \in Handler, CloseRest(h) PROVE ServerInv'
  <2>1. /\ Goto(h, "idle") /\ pc[h] = "close"
        /\ \A k \in Handler, e \in End :
             Server \in holders'[k][e] <=>
               Server \in holders[k][e] /\ ~(k = h /\ e \in {"inR", "outW"})
    BY <1>0, <1>10, RestClosed DEF CloseRest, Return
  <2>2. \A e \in End : /\ "idle" \notin OpenAt[e]
                       /\ "close" \in OpenAt[e] <=> e \in {"inR", "outW"}
    BY OpenEnds
  <2>3. ASSUME NEW e \in End
        PROVE  Server \in holders'[h][e] <=> "idle" \in OpenAt[e]
    <3>1. /\ Server \in holders'[h][e] <=>
               Server \in holders[h][e] /\ e \notin {"inR", "outW"}
          /\ Server \in holders[h][e] <=> e \in {"inR", "outW"}
      BY <1>0, <2>1, <2>2
    <3> QED BY <2>2, <3>1
  <2> QED BY <1>1, <2>1, <2>3
<1>11. ASSUME NEW h \in Handler, ChildStart(h) PROVE ServerInv'
  <2>1. /\ pc' = pc
        /\ \A k \in Handler, e \in End :
             Server \in holders'[k][e] <=> Server \in holders[k][e]
    BY <1>0, <1>11, RestClosed DEF ChildStart, handlerVars
  <2> QED BY <1>0, <1>2, <2>1
<1>12. ASSUME NEW h \in Handler, Exit(h) PROVE ServerInv'
  <2>1. /\ pc' = pc
        /\ \A k \in Handler, e \in End :
             Server \in holders'[k][e] <=> Server \in holders[k][e]
    BY <1>0, <1>12, Exited DEF Exit, handlerVars
  <2> QED BY <1>0, <1>2, <2>1
<1>13. ASSUME NEW h \in Handler,
              \/ Write(h) \/ Read(h) \/ ChildLog(h) \/ ChildExec(h)
              \/ ChildRead(h) \/ ChildWrite(h)
       PROVE  pc' = pc /\ holders' = holders
  BY <1>13 DEF Write, Read, ChildLog, ChildExec, ChildRead, ChildWrite, handlerVars
<1>14. CASE UNCHANGED vars
  BY <1>2, <1>14 DEF vars, handlerVars
<1> QED
  BY <1>2, <1>3, <1>4, <1>5, <1>6, <1>7, <1>8, <1>9, <1>10, <1>11, <1>12, <1>13,
     <1>14
  DEF Next, ParentStep, ChildStep, ChildExecFails, ChildExit

(* A child keeps the ends it uses until it ends: other exchanges close only *)
(* the server's copies and their own.                                      *)
LEMMA LiveStep ==
  TypeOK /\ ChildInv /\ ServerInv /\ LiveInv /\ [Next]_vars => LiveInv'
<1> SUFFICES ASSUME TypeOK, ChildInv, ServerInv, LiveInv, [Next]_vars PROVE LiveInv'
  OBVIOUS
<1>0. /\ pc \in [Handler -> ParentPc] /\ child \in [Handler -> ChildPc]
      /\ Server \notin Handler /\ Handler \subseteq Proc /\ Server \in Proc
      /\ "inW" \in End /\ "outR" \in End
      /\ \A h \in Handler : child[h] # "none" <=> pc[h] \in Forked
      /\ \A h \in Handler :
           /\ Alive(h) => h \in holders[h]["inW"] /\ h \in holders[h]["outR"]
           /\ pc[h] = "wait" => child[h] = "zombie"
  BY CgiAssumption, EndNames DEF TypeOK, ChildInv, LiveInv, Proc
<1>1. ASSUME \A k \in Handler : /\ Alive(k)' => Alive(k)
                                /\ pc'[k] = "wait" => pc[k] = "wait" /\ child'[k] = child[k],
             \A k \in Handler : Alive(k)' => /\ k \in holders'[k]["inW"]
                                             /\ k \in holders'[k]["outR"]
      PROVE  LiveInv'
  BY <1>0, <1>1 DEF LiveInv
<1>2. ASSUME NEW h \in Handler, NEW label \in ParentPc \ {"wait"}, Goto(h, label),
             child' = child,
             \A k \in Handler \ {h} : \A e \in End :
               k \in holders[k][e] => k \in holders'[k][e],
             \/ pc[h] \notin Forked
             \/ \A e \in End : h \in holders[h][e] => h \in holders'[h][e]
      PROVE  LiveInv'
  <2>1. pc' = [pc EXCEPT ![h] = label]
    BY <1>2 DEF Goto
  <2>2. \A k \in Handler : Alive(k)' <=> Alive(k)
    BY <1>2 DEF Alive
  <2>3. ~Alive(h) \/ \A e \in End : h \in holders[h][e] => h \in holders'[h][e]
    BY <1>0, <1>2 DEF Alive
  <2> QED BY <1>0, <1>1, <1>2, <2>1, <2>2, <2>3
<1>3. ASSUME NEW h \in Handler,
             \/ Begin(h) \/ LogLock(h) \/ LogUnlock(h) \/ PipeInFails(h)
             \/ WriteDone(h)
      PROVE  LiveInv'
  <2>1. PICK label \in ParentPc \ {"wait"} :
          Goto(h, label) /\ holders' = holders /\ child' = child
    BY <1>3
    DEF Begin, LogLock, LogUnlock, PipeInFails, WriteDone, Return, ParentPc, childVars
  <2> QED BY <1>2, <2>1
<1>4. ASSUME NEW h \in Handler, PipeIn(h) \/ PipeOut(h) PROVE LiveInv'
  <2>1. PICK label \in ParentPc \ {"wait"}, E \in SUBSET End, p \in {"in", "out"} :
          Goto(h, label) /\ NewPipe(h, E, p) /\ child' = child /\ pc[h] \notin Forked
    BY <1>4 DEF PipeIn, PipeOut, End, ParentPc, childVars, Forked
  <2>2. \A k \in Handler \ {h} : \A e \in End :
          k \in holders[k][e] => k \in holders'[k][e]
    BY <1>0, <2>1, Piped
  <2> QED BY <1>2, <2>1, <2>2
<1>5. ASSUME NEW h \in Handler, PipeOutFails(h) \/ ForkFails(h) PROVE LiveInv'
  <2>1. /\ Goto(h, "idle")
        /\ Abandon(h, "pipes") \/ Abandon(h, "forks")
        /\ child' = child /\ pc[h] \notin Forked /\ "idle" \in ParentPc \ {"wait"}
    BY <1>5 DEF PipeOutFails, ForkFails, Return, childVars, Forked, ParentPc
  <2>2. \A k \in Handler \ {h} : \A e \in End :
          k \in holders[k][e] => k \in holders'[k][e]
    BY <1>0, <2>1, Abandoned
  <2> QED BY <1>2, <2>1, <2>2
<1>6. ASSUME NEW h \in Handler, Fork(h) PROVE LiveInv'
  <2>1. /\ pc' = [pc EXCEPT ![h] = "close_in"] /\ child' = [child EXCEPT ![h] = "start"]
        /\ pc[h] = "fork"
    BY <1>6 DEF Fork, Goto, Child
  <2>2. \A k \in Handler, e \in End :
          /\ k \in holders[k][e] => k \in holders'[k][e]
          /\ Server \in holders[h][e] => h \in holders'[h][e]
    BY <1>0, <1>6, ForkedOff
  <2>3. Server \in holders[h]["inW"] /\ Server \in holders[h]["outR"]
    BY <1>0, <2>1, OpenEnds DEF ServerInv
  <2>4. ASSUME NEW k \in Handler, k # h PROVE Alive(k)' <=> Alive(k)
    BY <1>0, <2>1, <2>4 DEF Alive
  <2>5. ASSUME NEW k \in Handler PROVE pc'[k] = "wait" => child'[k] = "zombie"
    BY <1>0, <2>1
  <2>6. ASSUME NEW k \in Handler, Alive(k)'
        PROVE  k \in holders'[k]["inW"] /\ k \in holders'[k]["outR"]
    BY <1>0, <2>2, <2>3, <2>4, <2>6
  <2> QED BY <2>5, <2>6 DEF LiveInv
<1>7. ASSUME NEW h \in Handler, CloseInW(h) PROVE LiveInv'
  <2>1. Goto(h, "close_out") /\ Close(h, "inW", Server) /\ child' = child
        /\ "close_out" \in ParentPc \ {"wait"}
    BY <1>7 DEF CloseInW, childVars, ParentPc
  <2>2. \A k \in Handler, e \in End : k \in holders[k][e] => k \in holders'[k][e]
    BY <1>0, <2>1, Closed
  <2> QED BY <1>2, <2>1, <2>2
<1>8. ASSUME NEW h \in Handler, CloseOutR(h) PROVE LiveInv'
  <2>1. PICK label \in ParentPc \ {"wait"} :
          Goto(h, label) /\ Close(h, "outR", Server) /\ child' = child
    BY <1>8 DEF CloseOutR, childVars, ParentPc
  <2>2. \A k \in Handler, e \in End : k \in holders[k][e] => k \in holders'[k][e]
    BY <1>0, <2>1, Closed
  <2> QED BY <1>2, <2>1, <2>2
<1>9. ASSUME NEW h \in Handler, ReadEof(h) PROVE LiveInv'
  <2>1. /\ pc[h] = "read" /\ holders[h]["inW"] = {} /\ pc' = [pc EXCEPT ![h] = "wait"]
        /\ UNCHANGED <<holders, child>>
    BY <1>9 DEF ReadEof, Goto, childVars
  <2>2. child[h] = "zombie"
    BY <1>0, <2>1 DEF Alive, Forked, ChildPc
  <2>3. \A k \in Handler : Alive(k)' <=> Alive(k)
    BY <2>1 DEF Alive
  <2> QED BY <1>0, <2>1, <2>2, <2>3 DEF LiveInv
<1>10. ASSUME NEW h \in Handler, Wait(h) PROVE LiveInv'
  <2>1. /\ pc' = [pc EXCEPT ![h] = "close"] /\ child' = [child EXCEPT ![h] = "none"]
        /\ holders' = holders
    BY <1>10 DEF Wait, Goto, Child
  <2>2. \A k \in Handler : Alive(k)' => Alive(k)
    BY <1>0, <2>1 DEF Alive
  <2> QED BY <1>0, <1>1, <2>1, <2>2
<1>11. ASSUME NEW h \in Handler, CloseRest(h) PROVE LiveInv'
  <2>1. /\ Goto(h, "idle") /\ pc[h] \notin Forked /\ child' = child
        /\ "idle" \in ParentPc \ {"wait"}
    BY <1>11 DEF CloseRest, Return, Forked, childVars, ParentPc
  <2>2. \A k \in Handler, e \in End : k \in holders[k][e] => k \in holders'[k][e]
    BY <1>0, <1>11, RestClosed DEF CloseRest
  <2> QED BY <1>2, <2>1, <2>2
<1>12. ASSUME NEW h \in Handler, ChildStart(h) PROVE LiveInv'
  <2>1. pc' = pc /\ child' = [child EXCEPT ![h] = "log"] /\ child[h] = "start"
    BY <1>12 DEF ChildStart, Child, handlerVars
  <2>2. \A k \in Handler :
          /\ k \in holders[k]["inW"] => k \in holders'[k]["inW"]
          /\ k \in holders[k]["outR"] => k \in holders'[k]["outR"]
    <3>1. \A k \in Handler, e \in End :
            k \in holders[k][e] /\ e \notin {"inR", "outW"} => k \in holders'[k][e]
      BY <1>0, <1>12, RestClosed DEF ChildStart
    <3> QED BY <1>0, <3>1
  <2>3. \A k \in Handler : Alive(k)' <=> Alive(k)
    BY <1>0, <2>1 DEF Alive
  <2>4. \A k \in Handler : pc[k] = "wait" => k # h
    BY <1>0, <2>1
  <2> QED BY <1>0, <1>1, <2>1, <2>2, <2>3, <2>4
<1>13. ASSUME NEW h \in Handler, ChildLog(h) \/ ChildExec(h) PROVE LiveInv'
  <2>1. /\ pc' = pc /\ holders' = holders
        /\ child' = [child EXCEPT ![h] = IF child[h] = "log" THEN "exec" ELSE "run"]
        /\ child[h] \in {"log", "exec"}
    BY <1>13 DEF ChildLog, ChildExec, Child, handlerVars
  <2>2. \A k \in Handler : Alive(k)' <=> Alive(k)
    BY <1>0, <2>1 DEF Alive
  <2>3. \A k \in Handler : pc[k] = "wait" => k # h
    BY <1>0, <2>1
  <2> QED BY <1>0, <1>1, <2>1, <2>2, <2>3
<1>14. ASSUME NEW h \in Handler, Exit(h) PROVE LiveInv'
  <2>1. pc' = pc /\ child' = [child EXCEPT ![h] = "zombie"]
    BY <1>14 DEF Exit, Child, handlerVars
  <2>2. \A k \in Handler \ {h}, e \in End : k \in holders[k][e] => k \in holders'[k][e]
    BY <1>0, <1>14, Exited
  <2>3. ~Alive(h)' /\ \A k \in Handler \ {h} : Alive(k)' <=> Alive(k)
    BY <1>0, <2>1 DEF Alive
  <2>4. ASSUME NEW k \in Handler, Alive(k)'
        PROVE  k \in holders'[k]["inW"] /\ k \in holders'[k]["outR"]
    BY <1>0, <2>2, <2>3, <2>4
  <2>5. ASSUME NEW k \in Handler PROVE pc'[k] = "wait" => child'[k] = "zombie"
    BY <1>0, <2>1
  <2> QED BY <2>4, <2>5 DEF LiveInv
<1>15. ASSUME UNCHANGED <<pc, child, holders>> PROVE LiveInv'
  <2>1. \A k \in Handler : Alive(k)' <=> Alive(k)
    BY <1>15 DEF Alive
  <2> QED BY <1>0, <1>1, <1>15, <2>1
<1>16. ASSUME NEW h \in Handler, Write(h) \/ Read(h) \/ ChildRead(h) \/ ChildWrite(h)
       PROVE  UNCHANGED <<pc, child, holders>>
  BY <1>16 DEF Write, Read, ChildRead, ChildWrite, handlerVars, childVars
<1>17. CASE UNCHANGED vars
  BY <1>15, <1>17 DEF vars, handlerVars, childVars
<1> QED
  BY <1>3, <1>4, <1>5, <1>6, <1>7, <1>8, <1>9, <1>10, <1>11, <1>12, <1>13, <1>14,
     <1>15, <1>16, <1>17
  DEF Next, ParentStep, ChildStep, ChildExecFails, ChildExit

(* Bytes neither appear in a pipe nor vanish from it, and no more go in    *)
(* than the body has; a program that has ended, and only that, is waited   *)
(* for.                                                                    *)
LEMMA FlowStep ==
  TypeOK /\ ServesInv /\ ChildInv /\ LiveInv /\ FlowInv /\ [Next]_vars => FlowInv'
<1> SUFFICES ASSUME TypeOK, ServesInv, ChildInv, LiveInv, FlowInv, [Next]_vars
             PROVE  FlowInv'
  OBVIOUS
<1>0. /\ pc \in [Handler -> ParentPc] /\ child \in [Handler -> ChildPc]
      /\ total \in [Handler -> Nat] /\ body \in [Handler -> Nat]
      /\ got \in [Handler -> Nat] /\ put \in [Handler -> Nat]
      /\ fill \in [Handler -> [{"in", "out"} -> 0..Cap]] /\ Cap \in Nat
      /\ \A h \in Handler : Flow(h)
      /\ \A h \in Handler : child[h] # "none" <=> pc[h] \in Forked
      /\ \A h \in Handler : pc[h] = "wait" => child[h] = "zombie"
      /\ \A h \in Handler : pc[h] # "idle" => req[h].len \in Int
  BY CgiAssumption DEF TypeOK, ServesInv, ChildInv, LiveInv, FlowInv, RequestType
<1>1. ASSUME NEW h \in Handler, Flow(h)',
             \A k \in Handler \ {h} :
               /\ pc'[k] = pc[k] /\ total'[k] = total[k] /\ body'[k] = body[k]
               /\ got'[k] = got[k] /\ put'[k] = put[k] /\ fill'[k] = fill[k]
               /\ req'[k] = req[k]
      PROVE  FlowInv'
  BY <1>0, <1>1 DEF FlowInv, Flow
<1>2. ASSUME NEW h \in Handler, NEW label, Goto(h, label),
             UNCHANGED <<total, body, got, put, fill>>,
             \A k \in Handler \ {h} : req'[k] = req[k],
             req'[h] = req[h] \/ pc[h] = "idle",
             \/ label \in Forked \cup {"close"} /\ pc[h] \in Forked \cup {"close"}
                  /\ (label \in {"wait", "close"} => fill[h]["in"] = 0)
             \/ label \in {"log", "logged", "pipe_in"} /\ pc[h] \notin Forked \cup {"close"}
      PROVE  FlowInv'
  <2>1. Flow(h)'
    BY <1>0, <1>2 DEF Goto, Flow, Forked
  <2> QED BY <1>0, <1>1, <1>2, <2>1 DEF Goto
<1>3. ASSUME NEW h \in Handler,
             \/ Begin(h) \/ LogLock(h) \/ LogUnlock(h) \/ CloseInW(h) \/ CloseOutR(h)
             \/ WriteDone(h) \/ ReadEof(h) \/ Wait(h)
      PROVE  FlowInv'
  <2>1. CASE Begin(h) \/ LogLock(h) \/ LogUnlock(h)
    BY <1>2, <2>1, <1>0 DEF Begin, LogLock, LogUnlock, childVars, Forked, TypeOK
  <2>2. CASE CloseInW(h) \/ CloseOutR(h) \/ WriteDone(h)
    BY <1>2, <2>2 DEF CloseInW, CloseOutR, WriteDone, childVars, Forked
  <2>3. CASE ReadEof(h)
    BY <1>2, <2>3 DEF ReadEof, childVars, Forked
  <2>4. CASE Wait(h)
    <3>1. fill[h]["in"] = 0 /\ pc[h] \in Forked
      BY <1>0, <2>4 DEF Wait, Flow, Forked
    <3> QED BY <1>2, <2>4, <3>1 DEF Wait, Forked
  <2> QED BY <1>3, <2>1, <2>2, <2>3, <2>4
<1>4. ASSUME NEW h \in Handler,
             PipeInFails(h) \/ PipeOutFails(h) \/ ForkFails(h) \/ CloseRest(h)
      PROVE  FlowInv'
  <2>1. /\ pc' = [pc EXCEPT ![h] = "idle"] /\ total' = [total EXCEPT ![h] = 0]
        /\ body' = [body EXCEPT ![h] = 0] /\ UNCHANGED <<got, put, fill>>
        /\ \A k \in Handler \ {h} : req'[k] = req[k]
    BY <1>4 DEF PipeInFails, PipeOutFails, ForkFails, CloseRest, Return, Goto, childVars,
           TypeOK
  <2>2. Flow(h)'
    BY <1>0, <2>1 DEF Flow, Forked
  <2> QED BY <1>0, <1>1, <2>1, <2>2
<1>5. ASSUME NEW h \in Handler, PipeIn(h) PROVE FlowInv'
  <2>1. /\ pc[h] = "pipe_in" /\ pc' = [pc EXCEPT ![h] = "pipe_out"]
        /\ fill' = [fill EXCEPT ![h]["in"] = 0] /\ UNCHANGED <<total, body, got, put, req>>
    BY <1>5 DEF PipeIn, NewPipe, Goto, childVars
  <2>2. Flow(h)'
    BY <1>0, <2>1 DEF Flow, Forked
  <2> QED BY <1>0, <1>1, <2>1, <2>2
<1>6. ASSUME NEW h \in Handler, PipeOut(h) PROVE FlowInv'
  <2>1. /\ pc[h] = "pipe_out" /\ pc' = [pc EXCEPT ![h] = "fork"]
        /\ fill' = [fill EXCEPT ![h]["out"] = 0] /\ UNCHANGED <<total, body, got, put, req>>
    BY <1>6 DEF PipeOut, NewPipe, Goto, childVars
  <2>2. Flow(h)'
    BY <1>0, <2>1 DEF Flow, Forked
  <2> QED BY <1>0, <1>1, <2>1, <2>2
<1>7. ASSUME NEW h \in Handler, Fork(h) PROVE FlowInv'
  <2>1. /\ pc[h] = "fork" /\ pc' = [pc EXCEPT ![h] = "close_in"]
        /\ got' = [got EXCEPT ![h] = 0] /\ put' = [put EXCEPT ![h] = 0]
        /\ UNCHANGED <<total, body, fill, req>>
    BY <1>7 DEF Fork, Goto
  <2>2. Flow(h)'
    BY <1>0, <2>1 DEF Flow, Forked
  <2> QED BY <1>0, <1>1, <2>1, <2>2
<1>8. ASSUME NEW h \in Handler, Write(h) PROVE FlowInv'
  <2>1. /\ pc[h] = "write" /\ fill' = [fill EXCEPT ![h]["out"] = @ + 1]
        /\ total' = [total EXCEPT ![h] = @ + 1] /\ UNCHANGED <<pc, body, got, put, req>>
        /\ pc[h] = "write" /\ total[h] < req[h].len
    BY <1>8 DEF Write, childVars
  <2>2. Flow(h)'
    BY <1>0, <2>1 DEF Flow, Forked
  <2> QED BY <1>0, <1>1, <2>1, <2>2
<1>9. ASSUME NEW h \in Handler, Read(h) PROVE FlowInv'
  <2>1. /\ pc[h] = "read" /\ fill' = [fill EXCEPT ![h]["in"] = @ - 1]
        /\ body' = [body EXCEPT ![h] = @ + 1] /\ UNCHANGED <<pc, total, got, put, req>>
    BY <1>9 DEF Read, childVars
  <2>2. Flow(h)'
    BY <1>0, <2>1 DEF Flow, Forked
  <2> QED BY <1>0, <1>1, <2>1, <2>2
<1>10. ASSUME NEW h \in Handler, ChildRead(h) PROVE FlowInv'
  <2>1. /\ child[h] = "run" /\ fill' = [fill EXCEPT ![h]["out"] = @ - 1]
        /\ got' = [got EXCEPT ![h] = @ + 1] /\ UNCHANGED <<pc, total, body, put, req>>
    BY <1>10 DEF ChildRead, handlerVars
  <2>2. pc[h] \in Forked \ {"wait"}
    BY <1>0, <2>1
  <2>3. Flow(h)'
    BY <1>0, <2>1, <2>2 DEF Flow, Forked
  <2> QED BY <1>0, <1>1, <2>1, <2>3
<1>11. ASSUME NEW h \in Handler, ChildWrite(h) PROVE FlowInv'
  <2>1. /\ child[h] = "run" /\ fill' = [fill EXCEPT ![h]["in"] = @ + 1]
        /\ put' = [put EXCEPT ![h] = @ + 1] /\ UNCHANGED <<pc, total, body, got, req>>
    BY <1>11 DEF ChildWrite, handlerVars
  <2>2. pc[h] \in Forked \ {"wait"}
    BY <1>0, <2>1
  <2>3. Flow(h)'
    BY <1>0, <2>1, <2>2 DEF Flow, Forked
  <2> QED BY <1>0, <1>1, <2>1, <2>3
<1>12. ASSUME UNCHANGED <<pc, req, total, body, got, put, fill>> PROVE FlowInv'
  BY <1>12 DEF FlowInv, Flow
<1>13. ASSUME NEW h \in Handler,
              ChildStart(h) \/ ChildLog(h) \/ ChildExec(h) \/ Exit(h)
       PROVE  UNCHANGED <<pc, req, total, body, got, put, fill>>
  BY <1>13 DEF ChildStart, ChildLog, ChildExec, Exit, handlerVars
<1>14. CASE UNCHANGED vars
  BY <1>12, <1>14 DEF vars, handlerVars, childVars
<1> QED
  BY <1>3, <1>4, <1>5, <1>6, <1>7, <1>8, <1>9, <1>10, <1>11, <1>12, <1>13, <1>14
  DEF Next, ParentStep, ChildStep, ChildExecFails, ChildExit

(* A program that ends has read and written all it had to, and the status  *)
(* of the answer is the one that stands for its end.                       *)
LEMMA EndStep ==
  TypeOK /\ ServesInv /\ ChildInv /\ EndInv /\ [Next]_vars => EndInv'
<1> SUFFICES ASSUME TypeOK, ServesInv, ChildInv, EndInv, [Next]_vars PROVE EndInv'
  OBVIOUS
<1>0. /\ pc \in [Handler -> ParentPc] /\ child \in [Handler -> ChildPc]
      /\ req \in [Handler -> Request \cup {NoRequest}] /\ code \in [Handler -> Codes]
      /\ got \in [Handler -> Nat] /\ put \in [Handler -> Nat]
      /\ \A h \in Handler : Ended(h)
      /\ \A h \in Handler : child[h] # "none" <=> pc[h] \in Forked
  BY DEF TypeOK, ChildInv, EndInv
<1>1. ASSUME NEW h \in Handler, Ended(h)',
             \A k \in Handler \ {h} :
               /\ pc'[k] = pc[k] /\ child'[k] = child[k] /\ req'[k] = req[k]
               /\ code'[k] = code[k] /\ got'[k] = got[k] /\ put'[k] = put[k]
      PROVE  EndInv'
  BY <1>0, <1>1 DEF EndInv, Ended
<1>2. ASSUME NEW h \in Handler, NEW label, Goto(h, label), label # "close",
             UNCHANGED <<child, req, code, got, put>>
      PROVE  EndInv'
  <2>1. Ended(h)'
    BY <1>0, <1>2 DEF Goto, Ended
  <2> QED BY <1>0, <1>1, <1>2, <2>1 DEF Goto
<1>3. ASSUME NEW h \in Handler,
             \/ LogLock(h) \/ LogUnlock(h) \/ PipeIn(h) \/ PipeOut(h) \/ CloseInW(h)
             \/ CloseOutR(h) \/ WriteDone(h) \/ ReadEof(h)
      PROVE  EndInv'
  BY <1>2, <1>3
  DEF LogLock, LogUnlock, PipeIn, PipeOut, CloseInW, CloseOutR, WriteDone, ReadEof,
      childVars
<1>4. ASSUME NEW h \in Handler, NEW label \in {"idle", "log"}, Goto(h, label),
             pc[h] \notin Forked, UNCHANGED <<child, got, put>>,
             \A k \in Handler \ {h} : req'[k] = req[k] /\ code'[k] = code[k]
      PROVE  EndInv'
  <2>1. child'[h] = "none" /\ pc'[h] = label /\ label # "close"
    BY <1>0, <1>4 DEF Goto
  <2>2. Ended(h)'
    BY <2>1 DEF Ended
  <2> QED BY <1>0, <1>1, <1>4, <2>2 DEF Goto
<1>5. ASSUME NEW h \in Handler, Begin(h) PROVE EndInv'
  <2>1. /\ Goto(h, "log") /\ pc[h] \notin Forked /\ UNCHANGED <<child, got, put, code>>
        /\ \A k \in Handler \ {h} : req'[k] = req[k]
    BY <1>0, <1>5 DEF Begin, childVars, Forked
  <2> QED BY <1>4, <2>1
<1>6. ASSUME NEW h \in Handler,
             PipeInFails(h) \/ PipeOutFails(h) \/ ForkFails(h) \/ CloseRest(h)
      PROVE  EndInv'
  <2>1. /\ Goto(h, "idle") /\ pc[h] \notin Forked /\ UNCHANGED <<child, got, put>>
        /\ \A k \in Handler \ {h} : req'[k] = req[k] /\ code'[k] = code[k]
    BY <1>0, <1>6
    DEF PipeInFails, PipeOutFails, ForkFails, CloseRest, Return, childVars, Forked
  <2> QED BY <1>4, <2>1
<1>7. ASSUME NEW h \in Handler, Fork(h) PROVE EndInv'
  <2>1. /\ pc' = [pc EXCEPT ![h] = "close_in"] /\ child' = [child EXCEPT ![h] = "start"]
        /\ got' = [got EXCEPT ![h] = 0] /\ put' = [put EXCEPT ![h] = 0]
        /\ UNCHANGED <<req, code>>
    BY <1>7 DEF Fork, Goto, Child
  <2>2. Ended(h)'
    BY <1>0, <2>1 DEF Ended
  <2> QED BY <1>0, <1>1, <2>1, <2>2
<1>8. ASSUME NEW h \in Handler, Wait(h) PROVE EndInv'
  <2>1. /\ pc' = [pc EXCEPT ![h] = "close"] /\ child' = [child EXCEPT ![h] = "none"]
        /\ code' = [code EXCEPT ![h] = StatusOf(req[h])] /\ child[h] = "zombie"
        /\ UNCHANGED <<req, got, put>>
    BY <1>8 DEF Wait, Goto, Child
  <2>2. Ended(h)'
    BY <1>0, <2>1 DEF Ended
  <2> QED BY <1>0, <1>1, <2>1, <2>2
<1>9. ASSUME NEW h \in Handler,
             ChildStart(h) \/ ChildLog(h) \/ ChildExec(h) \/ ChildExecFails(h) \/ ChildExit(h)
      PROVE  EndInv'
  <2>1. PICK label \in ChildPc :
          /\ child' = [child EXCEPT ![h] = label] /\ child[h] # "none"
          /\ UNCHANGED <<pc, req, code, got, put>>
          /\ label = "zombie" => \/ ~req[h].exec
                                 \/ got[h] = ToRead(req[h]) /\ put[h] = req[h].out
    BY <1>9
    DEF ChildStart, ChildLog, ChildExec, ChildExecFails, ChildExit, Exit, Child,
        handlerVars, ChildPc
  <2>2. pc[h] # "close"
    BY <1>0, <2>1 DEF Forked
  <2>3. Ended(h)'
    BY <1>0, <2>1, <2>2 DEF Ended
  <2> QED BY <1>0, <1>1, <2>1, <2>3
<1>10. ASSUME NEW h \in Handler, ChildRead(h) \/ ChildWrite(h) PROVE EndInv'
  <2>1. /\ child[h] = "run" /\ UNCHANGED <<pc, child, req, code>>
        /\ \A k \in Handler \ {h} : got'[k] = got[k] /\ put'[k] = put[k]
    BY <1>0, <1>10 DEF ChildRead, ChildWrite, handlerVars
  <2>2. pc[h] # "close"
    BY <1>0, <2>1 DEF Forked
  <2>3. Ended(h)'
    BY <1>0, <2>1, <2>2 DEF Ended
  <2> QED BY <1>0, <1>1, <2>1, <2>3
<1>11. ASSUME UNCHANGED <<pc, child, req, code, got, put>> PROVE EndInv'
  BY <1>11 DEF EndInv, Ended
<1>12. ASSUME NEW h \in Handler, Write(h) \/ Read(h)
       PROVE  UNCHANGED <<pc, child, req, code, got, put>>
  BY <1>12 DEF Write, Read, childVars
<1>13. CASE UNCHANGED vars
  BY <1>11, <1>13 DEF vars, handlerVars, childVars
<1> QED
  BY <1>3, <1>5, <1>6, <1>7, <1>8, <1>9, <1>10, <1>11, <1>12, <1>13
  DEF Next, ParentStep, ChildStep

-----------------------------------------------------------------------------
(* A pipe has two ends and two pipes have four. *)
LEMMA EndsCount == Cardinality(InputEnds) = 2 /\ Cardinality(End) = 4
<1>1. /\ IsFiniteSet({}) /\ Cardinality({}) = 0
      /\ \A T, x : IsFiniteSet(T) /\ x \notin T =>
           IsFiniteSet(T \cup {x}) /\ Cardinality(T \cup {x}) = Cardinality(T) + 1
  BY FS_EmptySet, FS_AddElement
<1>2. IsFiniteSet({"inR"}) /\ Cardinality({"inR"}) = 1
  <2>1. {"inR"} = {} \cup {"inR"}
    OBVIOUS
  <2> QED BY <1>1, <2>1
<1>3. IsFiniteSet({"inR", "inW"}) /\ Cardinality({"inR", "inW"}) = 2
  <2>1. {"inR", "inW"} = {"inR"} \cup {"inW"} /\ "inW" \notin {"inR"}
    OBVIOUS
  <2> QED BY <1>1, <1>2, <2>1
<1>4. /\ IsFiniteSet({"inR", "inW", "outR"})
      /\ Cardinality({"inR", "inW", "outR"}) = 3
  <2>1. /\ {"inR", "inW", "outR"} = {"inR", "inW"} \cup {"outR"}
        /\ "outR" \notin {"inR", "inW"}
    OBVIOUS
  <2> QED BY <1>1, <1>3, <2>1
<1>5. Cardinality({"inR", "inW", "outR", "outW"}) = 4
  <2>1. /\ {"inR", "inW", "outR", "outW"} = {"inR", "inW", "outR"} \cup {"outW"}
        /\ "outW" \notin {"inR", "inW", "outR"}
    OBVIOUS
  <2> QED BY <1>1, <1>4, <2>1
<1> QED BY <1>3, <1>5, EndNames

(* Ends are lost only where the second pipe() or fork() fails, and then    *)
(* all that are open there: two, or four.                                  *)
LEMMA LeakStep == TypeOK /\ ServerInv /\ LeakInv /\ [Next]_vars => LeakInv'
<1> SUFFICES ASSUME TypeOK, ServerInv, LeakInv, [Next]_vars PROVE LeakInv'
  OBVIOUS
<1>0. /\ leaked \in [ends : Nat, pipes : Nat, forks : Nat]
      /\ leaked.ends = 2 * leaked.pipes + 4 * leaked.forks
      /\ \A h \in Handler : \A e \in End :
           Server \in holders[h][e] <=> pc[h] \in OpenAt[e]
  BY DEF TypeOK, ServerInv, LeakInv
<1>1. ASSUME NEW h \in Handler, PipeOutFails(h) PROVE LeakInv'
  <2>1. pc[h] = "pipe_out" /\ Abandon(h, "pipes")
    BY <1>1 DEF PipeOutFails
  <2>2. {e \in End : Server \in holders[h][e]} = InputEnds
    BY <1>0, <2>1, OpenEnds DEF End
  <2>3. leaked' = [leaked EXCEPT !.ends = @ + 2, !.pipes = @ + 1]
    BY <2>1, <2>2, EndsCount DEF Abandon
  <2> QED BY <1>0, <2>3 DEF LeakInv
<1>2. ASSUME NEW h \in Handler, ForkFails(h) PROVE LeakInv'
  <2>1. pc[h] = "fork" /\ Abandon(h, "forks")
    BY <1>2 DEF ForkFails
  <2>2. {e \in End : Server \in holders[h][e]} = End
    BY <1>0, <2>1, OpenEnds
  <2>3. leaked' = [leaked EXCEPT !.ends = @ + 4, !.forks = @ + 1]
    BY <2>1, <2>2, EndsCount DEF Abandon
  <2> QED BY <1>0, <2>3 DEF LeakInv
<1>3. ASSUME leaked' = leaked PROVE LeakInv'
  BY <1>3 DEF LeakInv
<1>4. ASSUME NEW h \in Handler,
             \/ Begin(h) \/ LogLock(h) \/ LogUnlock(h) \/ PipeIn(h) \/ PipeInFails(h)
             \/ PipeOut(h) \/ Fork(h) \/ CloseInW(h) \/ CloseOutR(h) \/ Write(h)
             \/ WriteDone(h) \/ Read(h) \/ ReadEof(h) \/ Wait(h) \/ CloseRest(h)
      PROVE  leaked' = leaked
  BY <1>4
  DEF Begin, LogLock, LogUnlock, PipeIn, PipeInFails, PipeOut, Fork, CloseInW,
      CloseOutR, Write, WriteDone, Read, ReadEof, Wait, CloseRest
<1>5. ASSUME NEW h \in Handler, ChildStep(h) PROVE leaked' = leaked
  BY <1>5
  DEF ChildStep, ChildStart, ChildLog, ChildExec, ChildExecFails, ChildRead,
      ChildWrite, ChildExit, Exit
<1>6. CASE UNCHANGED vars
  BY <1>3, <1>6 DEF vars
<1> QED BY <1>1, <1>2, <1>3, <1>4, <1>5, <1>6 DEF Next, ParentStep

-----------------------------------------------------------------------------
LEMMA InitIInv == Init => IInv
<1> SUFFICES ASSUME Init PROVE IInv
  OBVIOUS
<1>1. TypeOK
  BY CgiAssumption DEF Init, TypeOK, ParentPc, ChildPc, Codes
<1>2. ServesInv /\ ChildInv /\ EndInv
  BY CgiAssumption DEF Init, ServesInv, ChildInv, EndInv, Ended, Forked
<1>3. ServerInv
  <2>1. \A e \in End : "idle" \notin OpenAt[e]
    BY OpenEnds
  <2> QED BY <2>1 DEF Init, ServerInv
<1>4. LiveInv /\ FlowInv
  BY CgiAssumption DEF Init, LiveInv, Alive, FlowInv, Flow, Forked
<1>5. LeakInv
  BY DEF Init, LeakInv
<1> QED BY <1>1, <1>2, <1>3, <1>4, <1>5 DEF IInv

(* The inductive invariant holds in every reachable state. *)
THEOREM Invariance == Spec => []IInv
<1>1. IInv /\ [Next]_vars => IInv'
  BY TypeStep, ServesStep, ChildInvStep, ServerStep, LiveStep, FlowStep, EndStep,
     LeakStep
  DEF IInv
<1> QED BY <1>1, InitIInv, PTL DEF Spec

(* Every variable has its type; in particular no pipe holds more than Cap. *)
THEOREM TypeCorrect == Spec => []TypeOK
<1>1. IInv => TypeOK
  BY DEF IInv
<1> QED BY <1>1, Invariance, PTL

(* While the program runs, the server holds the other end of its pipes. *)
THEOREM PeerStays == Spec => []PeerHoldsOn
<1>1. IInv => PeerHoldsOn
  <2> SUFFICES ASSUME IInv, NEW h \in Handler, child[h] = "run"
               PROVE  Server \in holders[h]["outW"] /\ Server \in holders[h]["inR"]
    BY DEF PeerHoldsOn
  <2>1. pc[h] \in Forked
    BY DEF IInv, ChildInv
  <2>2. /\ OpenAt["inR"] = {"pipe_out", "fork", "close"} \cup Forked
        /\ OpenAt["outW"] = {"fork", "close"} \cup Forked
        /\ "inR" \in End /\ "outW" \in End
    BY EndNames DEF OpenAt
  <2> QED BY <2>1, <2>2 DEF IInv, ServerInv
<1> QED BY <1>1, Invariance, PTL

(* Between exchanges a handler has no end open and no child; what the      *)
(* server has lost is two ends for each second pipe() that failed and four *)
(* for each fork() that failed.                                            *)
THEOREM CleansUp == Spec => []ExchangeCleansUp
<1>1. IInv => ExchangeCleansUp
  <2> SUFFICES ASSUME IInv, NEW h \in Handler, pc[h] = "idle"
               PROVE  /\ \A e \in End : Server \notin holders[h][e]
                      /\ child[h] = "none"
    BY DEF ExchangeCleansUp, IInv
  <2>1. \A e \in End : "idle" \notin OpenAt[e]
    BY OpenEnds
  <2>2. \A e \in End : Server \notin holders[h][e]
    BY <2>1 DEF IInv, ServerInv
  <2>3. child[h] = "none"
    BY DEF IInv, ChildInv, Forked
  <2> QED BY <2>2, <2>3
<1> QED BY <1>1, Invariance, PTL

(* ProcessCgi returns OK only with everything the program printed, after   *)
(* the program has had all of the body, and otherwise with the status that *)
(* stands for the program's end.                                           *)
THEOREM AnswerIsWhole == Spec => []WholeAnswer
<1>1. IInv => WholeAnswer
  <2> SUFFICES ASSUME IInv, NEW h \in Handler, pc[h] = "close"
               PROVE  /\ code[h] = StatusOf(req[h])
                      /\ code[h] = 200 => /\ body[h] = req[h].out
                                          /\ req[h].reads => got[h] = req[h].len
    BY DEF WholeAnswer
  <2>1. Flow(h) /\ Ended(h) /\ req[h] \in Request
    BY DEF IInv, FlowInv, EndInv, ServesInv
  <2>2. code[h] = StatusOf(req[h])
    BY <2>1 DEF Ended
  <2>3. put[h] = body[h]
    BY <2>1 DEF Flow, IInv, TypeOK
  <2>4. code[h] = 200 => req[h].exec
    BY <2>2 DEF StatusOf, Ending
  <2>5. code[h] = 200 => got[h] = ToRead(req[h]) /\ put[h] = req[h].out
    BY <2>1, <2>4 DEF Ended
  <2>6. ASSUME code[h] = 200, req[h].reads PROVE got[h] = req[h].len
    <3>1. /\ req[h].len \in Int /\ req[h].len + IntRange > 0
          /\ got[h] \in Nat /\ total[h] \in Nat /\ fill[h]["out"] \in Nat
      BY <2>1, CgiAssumption DEF RequestType, IInv, TypeOK
    <3>2. /\ got[h] = ToRead(req[h]) /\ total[h] = got[h] + fill[h]["out"]
          /\ total[h] = 0 \/ total[h] <= req[h].len
      BY <2>1, <2>5, <2>6 DEF Flow
    <3>3. ToRead(req[h]) = IF req[h].len >= 0 THEN req[h].len
                                              ELSE req[h].len + IntRange
      BY <2>6, <3>1 DEF ToRead
    <3> QED BY <3>1, <3>2, <3>3
  <2> QED BY <2>2, <2>3, <2>5, <2>6
<1> QED BY <1>1, Invariance, PTL

=============================================================================
