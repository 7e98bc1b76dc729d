-------------------------- MODULE AsyncLooper_proofs -------------------------
(***************************************************************************)
(* Proofs about AsyncLooper, for any producers and messages, both modes    *)
(* and all sizes of buffers.  IInv is inductive, and every step is a step  *)
(* of LogStream or a stutter.                                              *)
(***************************************************************************)
EXTENDS AsyncLooper, TLAPS, SequenceTheorems

(* The new size of a buffer that is too small for len more bytes is enough *)
(* for them.                                                               *)
LEMMA GrowsEnough ==
  ASSUME NEW size \in Nat, NEW w \in Nat, w <= size, NEW len \in Nat
  PROVE  LET n == (IF size < THRESHOLD_BUFFER_SIZE THEN size * 2
                   ELSE size + INCREMENT_BUFFER_SIZE) + len
         IN  n \in Nat /\ w + len <= n
  BY BufferAssumption

(* The buffer: pushing a message keeps its indices in bounds, and grows it *)
(* only when the message does not fit.                                     *)
LEMMA PushKeepsBounds ==
  ASSUME NEW M, NEW b \in BufferOf(M), NEW m \in M,
         m.len \in Nat \ {0}, InBounds(b)
  PROVE  LET r == PushMessage(b, m)
         IN  /\ r \in BufferOf(M) /\ InBounds(r) /\ ~Empty(r)
             /\ r.data = Append(b.data, m)
             /\ WriteAbleSize(b) >= m.len =>
                  r.size = b.size /\ WriteAbleSize(r) <= WriteAbleSize(b)
<1> DEFINE e == EnsureEnoughSize(b, m.len)
           r == PushMessage(b, m)
<1>1. /\ b.size \in Nat /\ b.writer_idx \in Nat /\ b.reader_idx = 0
      /\ b.data \in Seq(M) /\ b.writer_idx <= b.size
  BY DEF BufferOf, InBounds
<1> DEFINE n == (IF b.size < THRESHOLD_BUFFER_SIZE THEN b.size * 2
                   ELSE b.size + INCREMENT_BUFFER_SIZE) + m.len
<1>2. /\ e \in BufferOf(M)
      /\ e.reader_idx = 0 /\ e.writer_idx = b.writer_idx /\ e.data = b.data
      /\ b.writer_idx + m.len <= e.size
      /\ WriteAbleSize(b) >= m.len => e.size = b.size
  <2>1. WriteAbleSize(b) = b.size - b.writer_idx /\ WriteAbleSize(b) \in Int
    BY <1>1 DEF WriteAbleSize
  <2>2. CASE m.len <= WriteAbleSize(b)
    <3>1. e = b
      BY <2>2 DEF EnsureEnoughSize
    <3> QED BY <1>1, <2>1, <2>2, <3>1
  <2>3. CASE ~(m.len <= WriteAbleSize(b))
    <3>1. n \in Nat /\ b.writer_idx + m.len <= n
      BY <1>1, GrowsEnough
    <3>2. e = [b EXCEPT !.size = n]
      BY <2>3 DEF EnsureEnoughSize
    <3> HIDE DEF e, n
    <3>3. b \in [size : Nat, reader_idx : Nat, writer_idx : Nat, data : Seq(M)]
      BY DEF BufferOf
    <3>4. /\ e \in [size : Nat, reader_idx : Nat, writer_idx : Nat, data : Seq(M)]
          /\ e.size = n /\ e.reader_idx = b.reader_idx
          /\ e.writer_idx = b.writer_idx /\ e.data = b.data
      BY <3>1, <3>2, <3>3
    <3> QED BY <1>1, <2>1, <2>3, <3>1, <3>4 DEF BufferOf
  <2> QED BY <2>2, <2>3
<1>3. r = [e EXCEPT !.writer_idx = @ + m.len, !.data = Append(@, m)]
  BY DEF PushMessage
<1> HIDE DEF e, r
<1>4. /\ r \in BufferOf(M)
      /\ r.size = e.size /\ r.reader_idx = 0
      /\ r.writer_idx = b.writer_idx + m.len /\ r.data = Append(b.data, m)
  <2>1. b.writer_idx + m.len \in Nat /\ Append(b.data, m) \in Seq(M)
    BY <1>1
  <2>2. e \in [size : Nat, reader_idx : Nat, writer_idx : Nat, data : Seq(M)]
    BY <1>2 DEF BufferOf
  <2>3. r = [e EXCEPT !.writer_idx = b.writer_idx + m.len, !.data = Append(b.data, m)]
    BY <1>2, <1>3, <2>2
  <2>4. r \in [size : Nat, reader_idx : Nat, writer_idx : Nat, data : Seq(M)]
    BY <2>1, <2>2, <2>3
  <2> QED BY <1>2, <2>2, <2>3, <2>4 DEF BufferOf
<1>5. r.data # <<>> /\ r.writer_idx # 0
  <2>1. Append(b.data, m) # <<>>
    BY <1>1
  <2>2. b.writer_idx + m.len # 0
    BY <1>1
  <2> QED BY <1>4, <2>1, <2>2
<1>6. InBounds(r) /\ ~Empty(r)
  BY <1>1, <1>2, <1>4, <1>5 DEF InBounds, Empty
<1>7. WriteAbleSize(b) >= m.len =>
        r.size = b.size /\ WriteAbleSize(r) <= WriteAbleSize(b)
  BY <1>1, <1>2, <1>4 DEF WriteAbleSize
<1> QED BY <1>4, <1>6, <1>7 DEF r

(* Resetting a buffer empties it and keeps its size. *)
LEMMA ResetEmpties ==
  ASSUME NEW M, NEW b \in BufferOf(M)
  PROVE  /\ Reset(b) \in BufferOf(M) /\ InBounds(Reset(b)) /\ Empty(Reset(b))
         /\ Reset(b).size = b.size /\ Reset(b).data = <<>>
<1> DEFINE r == Reset(b)
<1>1. r = [b EXCEPT !.reader_idx = 0, !.writer_idx = 0, !.data = <<>>]
  BY DEF Reset
<1>2. b.size \in Nat /\ <<>> \in Seq(M)
  BY DEF BufferOf
<1> HIDE DEF r
<1>3. /\ r \in BufferOf(M) /\ r.size = b.size
      /\ r.reader_idx = 0 /\ r.writer_idx = 0 /\ r.data = <<>>
  BY <1>1, <1>2 DEF BufferOf
<1>4. InBounds(r) /\ Empty(r)
  BY <1>2, <1>3 DEF InBounds, Empty
<1> QED BY <1>3, <1>4 DEF r

(* An empty buffer is one without messages. *)
LEMMA EmptyHasNoData ==
  ASSUME NEW b, InBounds(b) PROVE Empty(b) <=> b.data = <<>>
BY DEF InBounds, Empty

(* The message a producer is about to push is a message. *)
LEMMA CurrentIsMessage ==
  ASSUME TypeOK, StopInv, NEW p \in Producer, pc[p] # "idle"
  PROVE  Current(p) \in Message /\ Current(p).len \in Nat \ {0} /\ Current(p).by = p
<1>1. work \in [Producer -> Seq(Nat \ {0})]
  BY LooperAssumption DEF TypeOK
<1>2. next[p] \in 1..Len(work[p])
  BY DEF StopInv
<1>3. work[p][next[p]] \in Nat \ {0} /\ next[p] \in Nat \ {0}
  BY <1>1, <1>2
<1> QED BY <1>3 DEF Current, MessageOf, Message

-----------------------------------------------------------------------------
(* The initial state satisfies the inductive invariant. *)
LEMMA InitIInv == Init => IInv
<1> SUFFICES ASSUME Init PROVE IInv
  OBVIOUS
<1> USE LooperAssumption, BufferAssumption DEF Init, Thread
<1>1. NewBuffer \in BufferOf(Message) /\ InBounds(NewBuffer) /\ Empty(NewBuffer)
      /\ NewBuffer.size = DEFAULT_BUFFER_SIZE /\ NewBuffer.data = <<>>
  <2> DEFINE b == NewBuffer
  <2>1. <<>> \in Seq(Message)
    OBVIOUS
  <2>2. /\ b \in BufferOf(Message) /\ b.size = DEFAULT_BUFFER_SIZE
        /\ b.reader_idx = 0 /\ b.writer_idx = 0 /\ b.data = <<>>
    BY <2>1 DEF NewBuffer, BufferOf
  <2> QED BY <2>2 DEF InBounds, Empty
<1>2. /\ pc[Worker] = "lock" /\ pc[Owner] = "own"
      /\ \A p \in Producer : pc[p] = "idle"
  OBVIOUS
<1>3. TypeOK
  <2>1. pc \in [Thread -> ProducerPc \cup WorkerPc \cup OwnerPc]
    BY DEF ProducerPc, WorkerPc, OwnerPc
  <2>2. \A p \in Producer : pc[p] \in ProducerPc
    BY <1>2 DEF ProducerPc
  <2>3. pc[Worker] \in WorkerPc /\ pc[Owner] \in OwnerPc
    BY <1>2 DEF WorkerPc, OwnerPc
  <2>4. next \in [Producer -> Nat \ {0}] /\ output \in Seq(Message)
    OBVIOUS
  <2> QED BY <1>1, <2>1, <2>2, <2>3, <2>4 DEF TypeOK
<1>4. MutexInv
  BY <1>2 DEF MutexInv, Critical
<1>5. BuffersInBounds
  BY <1>1 DEF BuffersInBounds
<1>6. SleepHasCause /\ StopInv
  BY <1>2 DEF SleepHasCause, StopInv
<1>7. ConsumedIsReset
  BY <1>1, <1>2 DEF ConsumedIsReset
<1> QED BY <1>3, <1>4, <1>5, <1>6, <1>7 DEF IInv

(* Every step keeps the types. *)
LEMMA TypeStep == IInv /\ [Next]_vars => TypeOK'
<1> SUFFICES ASSUME IInv, [Next]_vars PROVE TypeOK'
  OBVIOUS
<1>0. TypeOK /\ StopInv /\ BuffersInBounds
  BY DEF IInv
<1> USE <1>0, LooperAssumption
    DEF TypeOK, ProducerPc, WorkerPc, OwnerPc, Goto, Thread, environment
<1>1. ASSUME NEW t \in Thread, Lock(t) PROVE TypeOK'
  <2>1. CASE t \in Producer
    BY <1>1, <2>1 DEF Lock
  <2>2. CASE t = Worker
    BY <1>1, <2>2 DEF Lock
  <2>3. CASE t = Owner
    BY <1>1, <2>3 DEF Lock
  <2> QED BY <2>1, <2>2, <2>3
<1>2. ASSUME NEW t \in Thread, SpuriousWakeup(t) PROVE TypeOK'
  <2>1. CASE t \in Producer
    BY <1>2, <2>1 DEF SpuriousWakeup
  <2>2. CASE t = Worker
    BY <1>2, <2>2 DEF SpuriousWakeup
  <2>3. CASE t = Owner
    BY <1>2, <2>3 DEF SpuriousWakeup
  <2> QED BY <2>1, <2>2, <2>3
<1>3. ASSUME NEW p \in Producer, Call(p) \/ WaitForRoom(p) PROVE TypeOK'
  <2>1. CASE Call(p)
    BY <1>3, <2>1 DEF Call
  <2>2. CASE WaitForRoom(p)
    BY <1>3, <2>2 DEF WaitForRoom
  <2> QED BY <1>3, <2>1, <2>2
<1>4. ASSUME NEW p \in Producer, Push(p) PROVE TypeOK'
  <2>1. pro' \in BufferOf(Message)
    BY <1>4, CurrentIsMessage, PushKeepsBounds DEF Push, BuffersInBounds
  <2> QED BY <1>4, <2>1 DEF Push, GotoAndWake
<1>5. CASE Break \/ Predicate \/ Block
  <2>1. CASE Break
    <3>1. /\ \/ pc' = [pc EXCEPT ![Worker] = "exit"] /\ mutex' = Free
             \/ pc' = [pc EXCEPT ![Worker] = "pred"] /\ mutex' = mutex
          /\ UNCHANGED <<environment, next, stop, pro, con, output>>
      BY <2>1, Zenon DEF Break
    <3>2. pc' \in [Thread -> ProducerPc \cup WorkerPc \cup OwnerPc]
          /\ \A t \in Thread : t # Worker => pc'[t] = pc[t]
          /\ pc'[Worker] \in WorkerPc /\ mutex' \in Thread \cup {Free}
      BY <3>1
    <3> QED BY <3>1, <3>2
  <2>2. CASE Predicate
    BY <2>2 DEF Predicate
  <2>3. CASE Block
    BY <2>3 DEF Block
  <2> QED BY <1>5, <2>1, <2>2, <2>3
<1>6. CASE Swap
  BY <1>6 DEF Swap, GotoAndWake
<1>7. CASE CallBack
  <2>1. con.data \in Seq(Message)
    BY DEF BufferOf
  <2> QED BY <1>7, <2>1 DEF CallBack
<1>8. CASE ResetCon
  BY <1>8, ResetEmpties DEF ResetCon
<1>9. CASE SetStop \/ Join
  BY <1>9 DEF SetStop, Join
<1>10. CASE NotifyAll
  BY <1>10 DEF NotifyAll, GotoAndWake
<1>11. CASE UNCHANGED vars
  BY <1>11 DEF vars
<1> QED
  BY <1>1, <1>2, <1>3, <1>4, <1>5, <1>6, <1>7, <1>8, <1>9, <1>10, <1>11
  DEF Next, ProducerStep, WorkerStep, OwnerStep

(* Every step keeps the mutex exclusive. *)
LEMMA MutexStep == IInv /\ [Next]_vars => MutexInv'
<1> SUFFICES ASSUME TypeOK, MutexInv, [Next]_vars PROVE MutexInv'
  BY DEF IInv
<1> USE LooperAssumption DEF TypeOK, MutexInv, Critical, Goto, Thread, environment
<1>1. ASSUME NEW t \in Thread, Lock(t) PROVE MutexInv'
  BY <1>1 DEF Lock
<1>2. ASSUME NEW t \in Thread, SpuriousWakeup(t) PROVE MutexInv'
  BY <1>2 DEF SpuriousWakeup
<1>3. ASSUME NEW p \in Producer, Call(p) \/ WaitForRoom(p) PROVE MutexInv'
  BY <1>3 DEF Call, WaitForRoom
<1>4. ASSUME NEW p \in Producer, Push(p) PROVE MutexInv'
  BY <1>4 DEF Push, GotoAndWake
<1>5. CASE Break \/ Predicate \/ Block
  BY <1>5 DEF Break, Predicate, Block
<1>6. CASE Swap
  BY <1>6 DEF Swap, GotoAndWake
<1>7. CASE CallBack
  BY <1>7 DEF CallBack
<1>8. CASE ResetCon
  BY <1>8 DEF ResetCon
<1>9. CASE SetStop \/ Join
  BY <1>9 DEF SetStop, Join
<1>10. CASE NotifyAll
  BY <1>10 DEF NotifyAll, GotoAndWake
<1>11. CASE UNCHANGED vars
  BY <1>11 DEF vars
<1> QED
  BY <1>1, <1>2, <1>3, <1>4, <1>5, <1>6, <1>7, <1>8, <1>9, <1>10, <1>11
  DEF Next, ProducerStep, WorkerStep, OwnerStep

(* Only three actions touch a buffer. *)
LEMMA BufferSteps ==
  [Next]_vars => \/ \E p \in Producer : Push(p)
                 \/ Swap \/ ResetCon
                 \/ UNCHANGED <<type, pro, con>>
<1> DEFINE Same == UNCHANGED <<type, pro, con>>
<1> USE DEF environment
<1>1. \A t : Lock(t) \/ SpuriousWakeup(t) => Same
  BY DEF Lock, SpuriousWakeup
<1>2. \A p \in Producer : Call(p) \/ WaitForRoom(p) => Same
  BY DEF Call, WaitForRoom
<1>3. Break \/ Predicate \/ Block \/ CallBack => Same
  BY DEF Break, Predicate, Block, CallBack
<1>4. SetStop \/ NotifyAll \/ Join => Same
  BY DEF SetStop, NotifyAll, Join
<1>5. UNCHANGED vars => Same
  BY DEF vars
<1> HIDE DEF Same
<1>6. [Next]_vars => \/ \E p \in Producer : Push(p)
                     \/ Swap \/ ResetCon \/ Same
  BY <1>1, <1>2, <1>3, <1>4, <1>5 DEF Next, ProducerStep, WorkerStep, OwnerStep
<1> QED BY <1>6 DEF Same

(* Every step keeps the buffers in bounds. *)
LEMMA BoundsStep == IInv /\ [Next]_vars => BuffersInBounds'
<1> SUFFICES ASSUME IInv, [Next]_vars PROVE BuffersInBounds'
  OBVIOUS
<1>0. TypeOK /\ StopInv /\ BuffersInBounds
  BY DEF IInv
<1>1. ASSUME NEW p \in Producer, Push(p) PROVE BuffersInBounds'
  <2>1. /\ pro \in BufferOf(Message) /\ InBounds(pro) /\ Current(p) \in Message
        /\ Current(p).len \in Nat \ {0}
    BY <1>0, <1>1, CurrentIsMessage DEF Push, TypeOK, BuffersInBounds
  <2>2. /\ pro' = PushMessage(pro, Current(p)) /\ con' = con /\ type' = type
        /\ type = "ASYNC_SAFE" => WriteAbleSize(pro) >= Current(p).len
    BY <1>1 DEF Push, HasRoom, environment
  <2>3. InBounds(pro') /\ (type = "ASYNC_SAFE" => pro'.size = pro.size)
    BY <2>1, <2>2, PushKeepsBounds
  <2> QED BY <1>0, <2>2, <2>3 DEF BuffersInBounds
<1>2. CASE Swap
  BY <1>0, <1>2 DEF Swap, BuffersInBounds, environment
<1>3. CASE ResetCon
  BY <1>0, <1>3, ResetEmpties DEF ResetCon, BuffersInBounds, TypeOK, environment
<1>4. CASE UNCHANGED <<type, pro, con>>
  BY <1>0, <1>4 DEF BuffersInBounds
<1> QED BY <1>1, <1>2, <1>3, <1>4, BufferSteps

(* Every step keeps a cause for every sleep. *)
LEMMA SleepStep == IInv /\ [Next]_vars => SleepHasCause'
<1> SUFFICES ASSUME IInv, [Next]_vars PROVE SleepHasCause'
  OBVIOUS
<1>0. TypeOK /\ MutexInv /\ StopInv /\ BuffersInBounds /\ SleepHasCause /\ ConsumedIsReset
  BY DEF IInv
<1>a. \A p \in Producer : pc[p] # "idle" => Current(p).len \in Nat \ {0}
  BY <1>0, CurrentIsMessage
<1> USE LooperAssumption DEF Goto, Thread, environment
<1>1. ASSUME NEW t \in Thread, Lock(t) PROVE SleepHasCause'
  BY <1>0, <1>1 DEF Lock, SleepHasCause, TypeOK, HasRoom, Current, MessageOf
<1>2. ASSUME NEW t \in Thread, SpuriousWakeup(t) PROVE SleepHasCause'
  BY <1>0, <1>2 DEF SpuriousWakeup, SleepHasCause, TypeOK, HasRoom, Current, MessageOf
<1>3. ASSUME NEW p \in Producer, Call(p) \/ WaitForRoom(p) PROVE SleepHasCause'
  BY <1>0, <1>3 DEF Call, WaitForRoom, SleepHasCause, TypeOK, HasRoom, Current, MessageOf
<1>4. ASSUME NEW p \in Producer, Push(p) PROVE SleepHasCause'
  <2>1. pc'[Worker] \notin {"wait", "block"}
    BY <1>0, <1>4 DEF Push, GotoAndWake, TypeOK, MutexInv, Critical
  <2>2. ASSUME NEW q \in Producer, pc'[q] = "wait" PROVE ~HasRoom(q)'
    <3>1. pc[q] = "wait" /\ q # p /\ Current(q)' = Current(q) /\ type' = type
      BY <1>0, <1>4, <2>2 DEF Push, GotoAndWake, TypeOK, Current, MessageOf
    <3>2. type = "ASYNC_SAFE" /\ ~(WriteAbleSize(pro) >= Current(q).len)
      BY <1>0, <3>1 DEF SleepHasCause, HasRoom
    <3>3. /\ Current(p) \in Message /\ Current(p).len \in Nat \ {0}
          /\ WriteAbleSize(pro) >= Current(p).len
          /\ pro' = PushMessage(pro, Current(p))
      BY <1>0, <1>4, <3>2, CurrentIsMessage DEF Push, HasRoom
    <3>4. pro \in BufferOf(Message) /\ pro' \in BufferOf(Message)
          /\ WriteAbleSize(pro') <= WriteAbleSize(pro)
      BY <1>0, <3>3, PushKeepsBounds DEF TypeOK, BuffersInBounds
    <3>5. /\ WriteAbleSize(pro) \in Int /\ WriteAbleSize(pro') \in Int
          /\ Current(q).len \in Nat
      BY <1>a, <3>1, <3>4 DEF WriteAbleSize, BufferOf
    <3> QED BY <3>1, <3>2, <3>4, <3>5 DEF HasRoom, WriteAbleSize
  <2> QED BY <2>1, <2>2 DEF SleepHasCause
<1>5. CASE Break \/ Predicate \/ Block
  BY <1>0, <1>5
  DEF Break, Predicate, Block, SleepHasCause, TypeOK, HasRoom, Current, MessageOf
<1>6. CASE Swap
  <2>1. pc'[Worker] = "call"
    BY <1>0, <1>6 DEF Swap, GotoAndWake, TypeOK
  <2>2. \A p \in Producer : pc'[p] # "wait"
    BY <1>0, <1>6 DEF Swap, GotoAndWake, TypeOK, SleepHasCause, HasRoom
  <2> QED BY <2>1, <2>2 DEF SleepHasCause
<1>7. CASE CallBack
  BY <1>0, <1>7 DEF CallBack, SleepHasCause, TypeOK, HasRoom, Current, MessageOf
<1>8. CASE ResetCon
  BY <1>0, <1>8 DEF ResetCon, SleepHasCause, TypeOK, HasRoom, Current, MessageOf
<1>9. CASE SetStop \/ Join
  BY <1>0, <1>9 DEF SetStop, Join, SleepHasCause, TypeOK, HasRoom, Current, MessageOf
<1>10. CASE NotifyAll
  BY <1>0, <1>10
  DEF NotifyAll, GotoAndWake, SleepHasCause, TypeOK, HasRoom, Current, MessageOf
<1>11. CASE UNCHANGED vars
  BY <1>0, <1>11 DEF vars, SleepHasCause, HasRoom, Current, MessageOf
<1> QED
  BY <1>1, <1>2, <1>3, <1>4, <1>5, <1>6, <1>7, <1>8, <1>9, <1>10, <1>11
  DEF Next, ProducerStep, WorkerStep, OwnerStep

(* Every step keeps the consumed buffer empty but from swap to reset. *)
LEMMA ConsumedStep == IInv /\ [Next]_vars => ConsumedIsReset'
<1> SUFFICES ASSUME IInv, [Next]_vars PROVE ConsumedIsReset'
  OBVIOUS
<1>0. TypeOK /\ StopInv /\ BuffersInBounds /\ ConsumedIsReset
  BY DEF IInv
<1> USE <1>0, LooperAssumption
    DEF Goto, Thread, environment, ConsumedIsReset, TypeOK, Pending, Unwritten
<1>1. ASSUME NEW t \in Thread, Lock(t) PROVE ConsumedIsReset'
  BY <1>1 DEF Lock
<1>2. ASSUME NEW t \in Thread, SpuriousWakeup(t) PROVE ConsumedIsReset'
  BY <1>2 DEF SpuriousWakeup
<1>3. ASSUME NEW p \in Producer, Call(p) \/ WaitForRoom(p) PROVE ConsumedIsReset'
  BY <1>3 DEF Call, WaitForRoom
<1>4. ASSUME NEW p \in Producer, Push(p) PROVE ConsumedIsReset'
  BY <1>4 DEF Push, GotoAndWake, StopInv
<1>5. CASE Break
  <2>1. Empty(pro) => pro.data = <<>>
    BY EmptyHasNoData DEF BuffersInBounds
  <2> QED BY <1>5, <2>1 DEF Break
<1>6. CASE Swap
  BY <1>6 DEF Swap, GotoAndWake
<1>7. CASE CallBack \/ Predicate \/ Block
  BY <1>7 DEF CallBack, Predicate, Block
<1>8. CASE ResetCon
  BY <1>8, ResetEmpties DEF ResetCon
<1>9. CASE SetStop \/ Join
  BY <1>9 DEF SetStop, Join
<1>10. CASE NotifyAll
  BY <1>10 DEF NotifyAll, GotoAndWake
<1>11. CASE UNCHANGED vars
  BY <1>11 DEF vars
<1> QED
  BY <1>1, <1>2, <1>3, <1>4, <1>5, <1>6, <1>7, <1>8, <1>9, <1>10, <1>11
  DEF Next, ProducerStep, WorkerStep, OwnerStep

(* Every step keeps what stop() relies on. *)
LEMMA StopStep == IInv /\ [Next]_vars => StopInv'
<1> SUFFICES ASSUME TypeOK, StopInv, [Next]_vars PROVE StopInv'
  BY DEF IInv
<1> USE LooperAssumption DEF TypeOK, Goto, Thread, environment, StopInv
<1>1. ASSUME NEW t \in Thread, Lock(t) PROVE StopInv'
  <2>1. t # Owner
    BY <1>1 DEF Lock, OwnerPc
  <2> QED BY <1>1, <2>1 DEF Lock
<1>2. ASSUME NEW t \in Thread, SpuriousWakeup(t) PROVE StopInv'
  <2>1. t # Owner
    BY <1>2 DEF SpuriousWakeup, OwnerPc
  <2> QED BY <1>2, <2>1 DEF SpuriousWakeup
<1>3. ASSUME NEW p \in Producer, Call(p) \/ WaitForRoom(p) PROVE StopInv'
  <2>1. work \in [Producer -> Seq(Nat \ {0})]
    OBVIOUS
  <2> QED BY <1>3, <2>1 DEF Call, WaitForRoom
<1>4. ASSUME NEW p \in Producer, Push(p) PROVE StopInv'
  BY <1>4 DEF Push, GotoAndWake
<1>5. CASE Break \/ Predicate \/ Block
  BY <1>5 DEF Break, Predicate, Block
<1>6. CASE Swap
  BY <1>6 DEF Swap, GotoAndWake
<1>7. CASE CallBack
  BY <1>7 DEF CallBack
<1>8. CASE ResetCon
  BY <1>8 DEF ResetCon
<1>9. CASE SetStop \/ Join
  BY <1>9 DEF SetStop, Join
<1>10. CASE NotifyAll
  BY <1>10 DEF NotifyAll, GotoAndWake
<1>11. CASE UNCHANGED vars
  BY <1>11 DEF vars
<1> QED
  BY <1>1, <1>2, <1>3, <1>4, <1>5, <1>6, <1>7, <1>8, <1>9, <1>10, <1>11
  DEF Next, ProducerStep, WorkerStep, OwnerStep

-----------------------------------------------------------------------------
(* The inductive invariant holds in every reachable state. *)
THEOREM Invariance == Spec => []IInv
<1>1. Init => IInv
  BY InitIInv
<1>2. IInv /\ [Next]_vars => IInv'
  BY TypeStep, MutexStep, BoundsStep, SleepStep, ConsumedStep, StopStep DEF IInv
<1> QED BY <1>1, <1>2, PTL DEF Spec

(* Buffers stay in bounds, and in the blocking mode they never grow. *)
THEOREM Bounded == Spec => []BuffersInBounds
<1>1. IInv => BuffersInBounds
  BY DEF IInv
<1> QED BY <1>1, Invariance, PTL

(* Neither the worker nor a producer sleeps without a cause. *)
THEOREM NobodySleepsInVain == Spec => []SleepHasCause
<1>1. IInv => SleepHasCause
  BY DEF IInv
<1> QED BY <1>1, Invariance, PTL

-----------------------------------------------------------------------------
(* Refinement: the looper implements LogStream. *)

(* What is pending is a sequence of messages. *)
LEMMA PendingType ==
  TypeOK => /\ con.data \in Seq(Message) /\ pro.data \in Seq(Message)
            /\ Unwritten \in Seq(Message) /\ Pending \in Seq(Message)
<1> SUFFICES ASSUME TypeOK
    PROVE  /\ con.data \in Seq(Message) /\ pro.data \in Seq(Message)
           /\ Unwritten \in Seq(Message) /\ Pending \in Seq(Message)
  OBVIOUS
<1>1. con.data \in Seq(Message) /\ pro.data \in Seq(Message)
  BY DEF TypeOK, BufferOf
<1>2. Unwritten \in Seq(Message)
  BY <1>1 DEF Unwritten
<1> QED BY <1>1, <1>2 DEF Pending

(* Two sequences, one after the other. *)
LEMMA Concat ==
  ASSUME NEW M, NEW s \in Seq(M), NEW t \in Seq(M)
  PROVE  /\ s \o t \in Seq(M) /\ Len(s \o t) = Len(s) + Len(t)
         /\ \A i \in 1..Len(s) : (s \o t)[i] = s[i]
         /\ \A i \in 1..Len(t) : (s \o t)[Len(s) + i] = t[i]
OBVIOUS

(* To add to the second is to add to the whole. *)
LEMMA ConcatAppend ==
  ASSUME NEW M, NEW s \in Seq(M), NEW t \in Seq(M), NEW e \in M
  PROVE  s \o Append(t, e) = Append(s \o t, e)
<1> DEFINE te == Append(t, e)
           st == s \o t
           l  == s \o te
           r  == Append(st, e)
<1>1. Len(s) \in Nat /\ Len(t) \in Nat
  OBVIOUS
<1>2. /\ te \in Seq(M) /\ Len(te) = Len(t) + 1 /\ te[Len(t) + 1] = e
      /\ \A i \in 1..Len(t) : te[i] = t[i]
  BY AppendProperties
<1>3. /\ st \in Seq(M) /\ Len(st) = Len(s) + Len(t)
      /\ \A i \in 1..Len(s) : st[i] = s[i]
      /\ \A i \in 1..Len(t) : st[Len(s) + i] = t[i]
  BY Concat
<1> HIDE DEF te, st
<1>4. /\ l \in Seq(M) /\ Len(l) = Len(s) + Len(te)
      /\ \A i \in 1..Len(s) : l[i] = s[i]
      /\ \A i \in 1..Len(te) : l[Len(s) + i] = te[i]
  <2>1. te \in Seq(M)
    BY <1>2
  <2> QED BY <2>1, Concat
<1>5. /\ r \in Seq(M) /\ Len(r) = Len(st) + 1 /\ r[Len(st) + 1] = e
      /\ \A i \in 1..Len(st) : r[i] = st[i]
  <2>1. st \in Seq(M)
    BY <1>3
  <2> QED BY <2>1, AppendProperties
<1> HIDE DEF l, r
<1>6. ASSUME NEW i \in 1..(Len(s) + Len(t) + 1)
      PROVE  l[i] = r[i]
  <2>1. CASE i <= Len(s)
    <3>1. i \in 1..Len(s) /\ i \in 1..Len(st)
      BY <1>1, <1>3, <2>1
    <3> QED BY <1>3, <1>4, <1>5, <3>1
  <2>2. CASE Len(s) < i
    <3>1. PICK k \in 1..(Len(t) + 1) : i = Len(s) + k
      <4>1. i - Len(s) \in 1..(Len(t) + 1) /\ i = Len(s) + (i - Len(s))
        BY <1>1, <2>2
      <4> QED BY <4>1
    <3>2. l[i] = te[k]
      BY <1>2, <1>4, <3>1
    <3>3. CASE k = Len(t) + 1
      <4>1. i = Len(st) + 1
        BY <1>1, <1>3, <3>1, <3>3
      <4> QED BY <1>2, <1>5, <3>2, <3>3, <4>1
    <3>4. CASE k \in 1..Len(t)
      <4>1. i \in 1..Len(st)
        BY <1>1, <1>3, <3>1, <3>4
      <4> QED BY <1>2, <1>3, <1>5, <3>1, <3>2, <3>4, <4>1
    <3> QED BY <1>1, <3>1, <3>3, <3>4
  <2> QED BY <1>1, <2>1, <2>2
<1>7. l = r
  <2>1. Len(l) = Len(s) + Len(t) + 1 /\ Len(r) = Len(l)
    BY <1>1, <1>2, <1>3, <1>4, <1>5
  <2> QED BY <1>4, <1>5, <1>6, <2>1, SeqEqual
<1> QED BY <1>7 DEF l, r, te, st

(* A front part of a sequence, and what is left of it. *)
LEMMA SplitConcat ==
  ASSUME NEW M, NEW s \in Seq(M), NEW t \in Seq(M)
  PROVE  /\ SubSeq(s \o t, 1, Len(s)) = s
         /\ SubSeq(s \o t, Len(s) + 1, Len(s \o t)) = t
         /\ s # <<>> => Len(s) \in 1..Len(s \o t)
<1>1. /\ Len(s) \in Nat /\ Len(t) \in Nat
      /\ s \o t \in Seq(M) /\ Len(s \o t) = Len(s) + Len(t)
      /\ \A i \in 1..Len(s) : (s \o t)[i] = s[i]
      /\ \A i \in 1..Len(t) : (s \o t)[Len(s) + i] = t[i]
  OBVIOUS
<1>2. SubSeq(s \o t, 1, Len(s)) = s
  <2> DEFINE u == SubSeq(s \o t, 1, Len(s))
  <2>1. u \in Seq(M) /\ Len(u) = Len(s) /\ \A i \in 1..Len(s) : u[i] = (s \o t)[i]
    BY <1>1, SubSeqProperties
  <2> HIDE DEF u
  <2>2. u = s
    BY <1>1, <2>1, SeqEqual
  <2> QED BY <2>2 DEF u
<1>3. SubSeq(s \o t, Len(s) + 1, Len(s \o t)) = t
  <2> DEFINE u == SubSeq(s \o t, Len(s) + 1, Len(s \o t))
  <2>1. u \in Seq(M) /\ Len(u) = Len(t)
        /\ \A i \in 1..Len(t) : u[i] = (s \o t)[Len(s) + i]
    BY <1>1, SubSeqProperties
  <2> HIDE DEF u
  <2>2. u = t
    BY <1>1, <2>1, SeqEqual
  <2> QED BY <2>2 DEF u
<1>4. s # <<>> => Len(s) \in 1..Len(s \o t)
  BY <1>1, EmptySeq
<1> QED BY <1>2, <1>3, <1>4

LEMMA FrontOfConcat ==
  ASSUME NEW M, NEW s \in Seq(M), NEW t \in Seq(M), s # <<>>, NEW u, u = s \o t
  PROVE  \E n \in 1..Len(u) : SubSeq(u, 1, n) = s /\ SubSeq(u, n + 1, Len(u)) = t
<1>1. /\ Len(s) \in 1..Len(s \o t) /\ SubSeq(s \o t, 1, Len(s)) = s
      /\ SubSeq(s \o t, Len(s) + 1, Len(s \o t)) = t
  BY SplitConcat
<1> QED BY <1>1, Zenon

(* What a step does to the stream: a push adds a message, CallBack writes  *)
(* some, Break may close it, and any other step leaves it alone.           *)
Accepts(p) == /\ Push(p) /\ S!Accept
              /\ output' = output /\ Pending' = Append(Pending, Current(p))
Writes == \E n \in 1..Len(Pending) : S!Write(n)
Stutters == S!streamVars' = S!streamVars
StreamStep == \/ \E p \in Producer : Accepts(p)
              \/ Writes \/ S!Close \/ Stutters

(* What Push adds is the current message of its producer, and the stream   *)
(* is not closed.                                                          *)
LEMMA PushAccepts ==
  ASSUME IInv, [Next]_vars, NEW p \in Producer, Push(p)
  PROVE  Accepts(p)
<1>1. /\ TypeOK /\ StopInv /\ BuffersInBounds /\ ConsumedIsReset
      /\ Worker \in Thread /\ p \in Thread /\ p # Worker
  BY LooperAssumption DEF IInv, Thread
<1>2. pro.data \in Seq(Message) /\ Unwritten \in Seq(Message) /\ Pending \in Seq(Message)
  BY <1>1, PendingType
<1>3. /\ Current(p) \in Message
      /\ pro'.data = Append(pro.data, Current(p)) /\ con' = con /\ output' = output
  BY <1>1, CurrentIsMessage, PushKeepsBounds DEF Push, TypeOK, BuffersInBounds
<1>4. Unwritten' = Unwritten /\ pc[Worker] # "exit" /\ pc'[Worker] # "exit"
  BY <1>1, <1>3
  DEF Push, GotoAndWake, Unwritten, TypeOK, ConsumedIsReset, StopInv
<1>5. Pending' = Append(Pending, Current(p))
  <2>1. Unwritten \o Append(pro.data, Current(p))
          = Append(Unwritten \o pro.data, Current(p))
    <3> DEFINE s == Unwritten
               t == pro.data
               e == Current(p)
    <3>1. s \in Seq(Message) /\ t \in Seq(Message) /\ e \in Message
      BY <1>2, <1>3
    <3> HIDE DEF s, t, e
    <3>2. s \o Append(t, e) = Append(s \o t, e)
      BY <3>1, ConcatAppend
    <3> QED BY <3>2 DEF s, t, e
  <2> QED BY <1>3, <1>4, <2>1 DEF Pending
<1>6. /\ Len(Pending') = Len(Pending) + 1
      /\ Pending'[Len(Pending) + 1] = Current(p)
  BY <1>2, <1>3, <1>5, AppendProperties
<1>7. S!Accept
  BY <1>3, <1>4, <1>5, <1>6 DEF S!Accept
<1> QED BY <1>3, <1>5, <1>7 DEF Accepts

(* There is no other step. *)
LEMMA StreamSteps == IInv /\ IInv' /\ [Next]_vars => StreamStep
<1> DEFINE Done == pc[Worker] = "exit"
<1> SUFFICES ASSUME IInv, IInv', [Next]_vars PROVE StreamStep
  OBVIOUS
<1>0. /\ TypeOK /\ TypeOK' /\ StopInv /\ MutexInv /\ BuffersInBounds /\ ConsumedIsReset
      /\ Worker \in Thread /\ Owner \in Thread /\ Worker # Owner
      /\ \A p \in Producer : p \in Thread /\ p # Worker
  BY LooperAssumption DEF IInv, Thread
<1>1. /\ con.data \in Seq(Message) /\ pro.data \in Seq(Message)
      /\ Unwritten \in Seq(Message) /\ Pending \in Seq(Message)
  BY <1>0, PendingType
<1> USE DEF Goto, environment
<1>2. \A p \in Producer : Push(p) => Accepts(p)
  BY PushAccepts
<1>3. CASE Swap
  <2>1. /\ pc[Worker] = "swap" /\ pc'[Worker] = "call" /\ output' = output
        /\ con' = pro /\ pro' = con
    BY <1>0, <1>3 DEF Swap, GotoAndWake, TypeOK
  <2>2. con.data = <<>>
    BY <1>0, <2>1, EmptyHasNoData DEF ConsumedIsReset, BuffersInBounds
  <2>3. Pending' = Pending
    <3>1. pro.data \o <<>> = pro.data /\ <<>> \o pro.data = pro.data
      BY <1>1, ConcatEmptySeq
    <3> QED BY <2>1, <2>2, <3>1 DEF Pending, Unwritten
  <2>4. Stutters
    BY <2>1, <2>3 DEF Stutters, S!streamVars
  <2> QED BY <2>4 DEF StreamStep
<1>4. CASE CallBack
  <2>1. /\ pc[Worker] = "call" /\ pc'[Worker] = "reset" /\ output' = output \o con.data
        /\ con' = con /\ pro' = pro
    BY <1>0, <1>4 DEF CallBack, TypeOK
  <2>2. /\ Pending = con.data \o pro.data /\ Pending' = <<>> \o pro.data
        /\ <<>> \o pro.data = pro.data
    BY <1>1, <2>1, ConcatEmptySeq DEF Pending, Unwritten
  <2>3. CASE con.data = <<>>
    <3>1. output \o <<>> = output
      BY <1>0, ConcatEmptySeq DEF TypeOK
    <3>2. Stutters
      BY <2>1, <2>2, <2>3, <3>1 DEF Stutters, S!streamVars
    <3> QED BY <3>2 DEF StreamStep
  <2>4. CASE con.data # <<>>
    <3>1. PICK n \in 1..Len(Pending) :
            /\ SubSeq(Pending, 1, n) = con.data
            /\ SubSeq(Pending, n + 1, Len(Pending)) = pro.data
      <4>1. /\ con.data \in Seq(Message) /\ pro.data \in Seq(Message)
            /\ Pending = con.data \o pro.data /\ con.data # <<>>
        BY <1>1, <2>2, <2>4
      <4> DEFINE c == con.data
                 d == pro.data
                 u == Pending
      <4> HIDE DEF c, d, u
      <4>2. \E n \in 1..Len(u) : SubSeq(u, 1, n) = c /\ SubSeq(u, n + 1, Len(u)) = d
        <5>1. c \in Seq(Message) /\ d \in Seq(Message) /\ c # <<>> /\ u = c \o d
          BY <4>1 DEF c, d, u
        <5> QED BY <5>1, FrontOfConcat
      <4> QED BY <4>2 DEF c, d, u
    <3>2. S!Write(n)
      BY <2>1, <2>2, <3>1 DEF S!Write
    <3> QED BY <3>2 DEF Writes, StreamStep
  <2> QED BY <2>3, <2>4
<1>5. CASE Break
  <2>1. pc[Worker] = "break" /\ UNCHANGED <<pro, con, output>>
    BY <1>5 DEF Break
  <2>2. CASE Done'
    <3>1. stop /\ Empty(pro)
      BY <1>0, <1>5, <2>2 DEF Break, TypeOK
    <3>2. pro.data = <<>> /\ Pending = <<>> /\ Pending' = <<>>
      <4>1. pro.data = <<>>
        BY <1>0, <3>1, EmptyHasNoData DEF BuffersInBounds
      <4> QED BY <2>1, <2>2, <4>1 DEF Pending, Unwritten
    <3>3. S!Close
      BY <2>1, <2>2, <3>2 DEF S!Close
    <3> QED BY <3>3 DEF StreamStep
  <2>3. CASE ~Done'
    <3>1. pc'[Worker] = "pred"
      BY <1>0, <1>5, <2>3 DEF Break, TypeOK
    <3>2. Stutters
      BY <2>1, <3>1 DEF Stutters, S!streamVars, Pending, Unwritten
    <3> QED BY <3>2 DEF StreamStep
  <2> QED BY <2>2, <2>3
<1>6. CASE ResetCon
  <2>1. Stutters
    BY <1>0, <1>6 DEF ResetCon, Stutters, S!streamVars, Pending, Unwritten, TypeOK
  <2> QED BY <2>1 DEF StreamStep
<1>7. CASE /\ UNCHANGED <<pro, con, output>> /\ (Done' <=> Done)
           /\ (pc'[Worker] = "call" <=> pc[Worker] = "call")
  <2>1. Stutters
    BY <1>7 DEF Stutters, S!streamVars, Pending, Unwritten
  <2> QED BY <2>1 DEF StreamStep
<1>8. ASSUME NEW t \in Thread, Lock(t) \/ SpuriousWakeup(t)
      PROVE  /\ UNCHANGED <<pro, con, output>> /\ (Done' <=> Done)
             /\ (pc'[Worker] = "call" <=> pc[Worker] = "call")
  BY <1>0, <1>8 DEF Lock, SpuriousWakeup, TypeOK
<1>9. ASSUME NEW p \in Producer, Call(p) \/ WaitForRoom(p)
      PROVE  /\ UNCHANGED <<pro, con, output>> /\ (Done' <=> Done)
             /\ (pc'[Worker] = "call" <=> pc[Worker] = "call")
  BY <1>0, <1>9 DEF Call, WaitForRoom, TypeOK
<1>10. CASE Predicate \/ Block \/ SetStop \/ NotifyAll \/ Join
  <2>1. /\ UNCHANGED <<pro, con, output>> /\ (Done' <=> Done)
        /\ (pc'[Worker] = "call" <=> pc[Worker] = "call")
    BY <1>0, <1>10 DEF Predicate, Block, SetStop, NotifyAll, Join, GotoAndWake, TypeOK
  <2> QED BY <1>7, <2>1
<1>11. CASE UNCHANGED vars
  BY <1>7, <1>11 DEF vars
<1>12. CASE \E p \in Producer : Push(p)
  BY <1>2, <1>12 DEF StreamStep
<1>13. CASE \E t \in Thread : Lock(t) \/ SpuriousWakeup(t)
  BY <1>7, <1>8, <1>13
<1>14. CASE \E p \in Producer : Call(p) \/ WaitForRoom(p)
  BY <1>7, <1>9, <1>14
<1> QED
  BY <1>0, <1>3, <1>4, <1>5, <1>6, <1>10, <1>11, <1>12, <1>13, <1>14
  DEF Next, ProducerStep, WorkerStep, OwnerStep

(* Every step of the looper is a step of LogStream or a stutter. *)
LEMMA RefinementStep ==
  IInv /\ IInv' /\ [Next]_vars => [S!StreamNext]_(S!streamVars)
<1>1. StreamStep => [S!StreamNext]_(S!streamVars)
  BY DEF StreamStep, Accepts, Writes, Stutters, S!StreamNext
<1> QED BY <1>1, StreamSteps

(* Each message is written once, in the order of acceptance, and all of    *)
(* them before the worker ends: the looper implements LogStream.           *)
THEOREM Refinement == Spec => ImplementsLogStream
<1>1. Init => S!StreamInit
  BY LooperAssumption
  DEF Init, Thread, S!StreamInit, Pending, Unwritten, NewBuffer
<1>2. IInv /\ IInv' /\ [Next]_vars => [S!StreamNext]_(S!streamVars)
  BY RefinementStep
<1> QED BY <1>1, <1>2, Invariance, PTL DEF Spec, ImplementsLogStream, S!StreamSpec

-----------------------------------------------------------------------------
(* The order in which each producer has pushed. *)

(* Only Push goes on to the next message. *)
LEMMA NextKept ==
  ASSUME IInv, [Next]_vars, ~ \E p \in Producer : Push(p)
  PROVE  next' = next
BY DEF Next, ProducerStep, WorkerStep, OwnerStep, Call, Lock, WaitForRoom, Break,
       Predicate, Block, Swap, CallBack, ResetCon, SetStop, NotifyAll, Join,
       SpuriousWakeup, vars

(* Nobody changes what there is to log. *)
LEMMA WorkKept == ASSUME [Next]_vars PROVE work' = work
BY DEF Next, ProducerStep, WorkerStep, OwnerStep, Call, Lock, WaitForRoom, Push, Break,
       Predicate, Block, Swap, CallBack, ResetCon, SetStop, NotifyAll, Join,
       SpuriousWakeup, vars, environment

(* To write what is pending moves it, and changes nothing in the whole. *)
LEMMA MoveConcat ==
  ASSUME NEW M, NEW o \in Seq(M), NEW u \in Seq(M), NEW n \in 1..Len(u)
  PROVE  (o \o SubSeq(u, 1, n)) \o SubSeq(u, n + 1, Len(u)) = o \o u
<1> DEFINE a  == SubSeq(u, 1, n)
           b  == SubSeq(u, n + 1, Len(u))
           oa == o \o a
           s  == oa \o b
           t  == o \o u
<1>1. Len(o) \in Nat /\ Len(u) \in Nat
  OBVIOUS
<1>2. a \in Seq(M) /\ Len(a) = n /\ \A i \in 1..n : a[i] = u[i]
  BY SubSeqProperties
<1>3. /\ b \in Seq(M) /\ Len(b) = Len(u) - n
      /\ \A i \in 1..(Len(u) - n) : b[i] = u[n + i]
  BY SubSeqProperties
<1> HIDE DEF a, b
<1>4. /\ oa \in Seq(M) /\ Len(oa) = Len(o) + Len(a)
      /\ \A i \in 1..Len(o) : oa[i] = o[i]
      /\ \A i \in 1..Len(a) : oa[Len(o) + i] = a[i]
  <2>1. a \in Seq(M)
    BY <1>2
  <2> QED BY <2>1, Concat
<1> HIDE DEF oa
<1>5. /\ s \in Seq(M) /\ Len(s) = Len(oa) + Len(b)
      /\ \A i \in 1..Len(oa) : s[i] = oa[i]
      /\ \A i \in 1..Len(b) : s[Len(oa) + i] = b[i]
  <2>1. oa \in Seq(M) /\ b \in Seq(M)
    BY <1>3, <1>4
  <2> QED BY <2>1, Concat
<1>6. /\ t \in Seq(M) /\ Len(t) = Len(o) + Len(u)
      /\ \A i \in 1..Len(o) : t[i] = o[i]
      /\ \A i \in 1..Len(u) : t[Len(o) + i] = u[i]
  BY Concat
<1> HIDE DEF s, t
<1>7. ASSUME NEW i \in 1..(Len(o) + Len(u))
      PROVE  s[i] = t[i]
  <2>1. CASE i <= Len(o)
    <3>1. i \in 1..Len(o) /\ i \in 1..Len(oa)
      BY <1>1, <1>2, <1>4, <2>1
    <3> QED BY <1>4, <1>5, <1>6, <3>1
  <2>2. CASE Len(o) < i /\ i <= Len(o) + n
    <3>1. PICK k \in 1..n : i = Len(o) + k
      <4>1. i - Len(o) \in 1..n /\ i = Len(o) + (i - Len(o))
        BY <1>1, <2>2
      <4> QED BY <4>1
    <3>2. i \in 1..Len(oa) /\ k \in 1..Len(a) /\ k \in 1..Len(u)
      BY <1>1, <1>2, <1>4, <3>1
    <3>3. s[i] = oa[i] /\ oa[i] = a[k] /\ a[k] = u[k] /\ t[i] = u[k]
      BY <1>2, <1>4, <1>5, <1>6, <3>1, <3>2
    <3> QED BY <3>3
  <2>3. CASE Len(o) + n < i
    <3>1. PICK k \in 1..(Len(u) - n) : i = Len(o) + n + k
      <4>1. /\ i - Len(o) - n \in 1..(Len(u) - n)
            /\ i = Len(o) + n + (i - Len(o) - n)
        BY <1>1, <2>3
      <4> QED BY <4>1
    <3>2. i = Len(oa) + k /\ i = Len(o) + (n + k) /\ n + k \in 1..Len(u)
      BY <1>1, <1>2, <1>4, <3>1
    <3>3. s[i] = b[k] /\ b[k] = u[n + k] /\ t[i] = u[n + k]
      BY <1>3, <1>5, <1>6, <3>1, <3>2
    <3> QED BY <3>3
  <2> QED BY <1>1, <2>1, <2>2, <2>3
<1>8. s = t
  <2>1. Len(s) = Len(o) + Len(u)
    BY <1>1, <1>2, <1>3, <1>4, <1>5
  <2> QED BY <1>5, <1>6, <1>7, <2>1, SeqEqual
<1> QED BY <1>8 DEF s, t, oa, a, b

(* A push adds its message to all that was accepted; no other step makes a *)
(* difference to that.                                                     *)
LEMMA AcceptedStep ==
  ASSUME IInv, IInv', [Next]_vars
  PROVE  \/ Accepted' = Accepted /\ next' = next
         \/ \E p \in Producer : /\ Current(p) \in Message
                                /\ Accepted' = Append(Accepted, Current(p))
                                /\ next' = [next EXCEPT ![p] = @ + 1]
<1>1. TypeOK /\ output \in Seq(Message) /\ Pending \in Seq(Message)
  BY PendingType DEF IInv, TypeOK
<1>2. ASSUME NEW p \in Producer, Push(p)
      PROVE  /\ Current(p) \in Message /\ Accepted' = Append(Accepted, Current(p))
             /\ next' = [next EXCEPT ![p] = @ + 1]
  <2>1. Accepts(p)
    BY <1>2, PushAccepts
  <2>2. Current(p) \in Message
    BY <1>1, <1>2, CurrentIsMessage DEF Push, IInv
  <2>3. output \o Append(Pending, Current(p)) = Append(output \o Pending, Current(p))
    <3> DEFINE t == Pending
               e == Current(p)
    <3>1. output \in Seq(Message) /\ t \in Seq(Message) /\ e \in Message
      BY <1>1, <2>2
    <3> HIDE DEF t, e
    <3>2. output \o Append(t, e) = Append(output \o t, e)
      BY <3>1, ConcatAppend
    <3> QED BY <3>2 DEF t, e
  <2> QED BY <1>2, <2>1, <2>2, <2>3 DEF Accepts, Push, Accepted
<1>3. ASSUME ~ \E p \in Producer : Push(p)
      PROVE  Accepted' = Accepted /\ next' = next
  <2>1. next' = next
    BY <1>3, NextKept
  <2>2. Writes \/ S!Close \/ Stutters
    BY <1>3, StreamSteps DEF StreamStep, Accepts
  <2>3. CASE Writes
    <3>1. PICK n \in 1..Len(Pending) : S!Write(n)
      BY <2>3 DEF Writes
    <3>2. /\ output' = output \o SubSeq(Pending, 1, n)
          /\ Pending' = SubSeq(Pending, n + 1, Len(Pending))
      BY <3>1 DEF S!Write
    <3>3. (output \o SubSeq(Pending, 1, n)) \o SubSeq(Pending, n + 1, Len(Pending))
            = output \o Pending
      BY <1>1, MoveConcat
    <3> QED BY <2>1, <3>2, <3>3 DEF Accepted
  <2>4. CASE S!Close \/ Stutters
    BY <2>1, <2>4 DEF S!Close, Stutters, S!streamVars, Accepted
  <2> QED BY <2>2, <2>3, <2>4
<1> QED BY <1>2, <1>3

(* A message of p is added behind those before it. *)
LEMMA OrderGrows ==
  ASSUME NEW s \in Seq(Message), NEW m \in Message, NEW p \in Producer
  PROVE  LET t      == Append(s, m)
             Own(u) == {i \in DOMAIN u : u[i].by = p}
         IN  /\ m.by # p => /\ Own(t) = Own(s)
                            /\ \A i \in Own(s) : t[i] = s[i]
             /\ m.by = p => /\ Own(t) = Own(s) \cup {Len(s) + 1}
                            /\ \A i \in Own(s) : t[i] = s[i] /\ i < Len(s) + 1
                            /\ t[Len(s) + 1] = m
<1> DEFINE t == Append(s, m)
<1>1. /\ Len(s) \in Nat /\ DOMAIN s = 1..Len(s) /\ DOMAIN t = 1..(Len(s) + 1)
      /\ t[Len(s) + 1] = m /\ \A i \in 1..Len(s) : t[i] = s[i]
  OBVIOUS
<1> HIDE DEF t
<1>2. DOMAIN t = DOMAIN s \cup {Len(s) + 1}
  BY <1>1
<1>3. /\ t[Len(s) + 1] = m
      /\ \A i \in DOMAIN s : t[i] = s[i] /\ i < Len(s) + 1
  BY <1>1
<1>4. /\ m.by # p => {i \in DOMAIN t : t[i].by = p} = {i \in DOMAIN s : s[i].by = p}
      /\ m.by = p => {i \in DOMAIN t : t[i].by = p}
                       = {i \in DOMAIN s : s[i].by = p} \cup {Len(s) + 1}
  BY <1>2, <1>3, Zenon
<1> QED BY <1>3, <1>4 DEF t

(* What a producer pushes has the next number and goes behind the rest.    *)
LEMMA OwnOrderStep ==
  ASSUME IInv, IInv', [Next]_vars, OwnOrder
  PROVE  OwnOrder'
<1>1. /\ TypeOK /\ work' = work /\ Accepted \in Seq(Message)
      /\ next \in [Producer -> Nat \ {0}]
  BY PendingType, WorkKept DEF IInv, TypeOK, Accepted
<1>2. ASSUME Accepted' = Accepted, next' = next
      PROVE  OwnOrder'
  BY <1>1, <1>2 DEF OwnOrder, From, MessageOf
<1>3. ASSUME NEW p \in Producer, Current(p) \in Message,
             Accepted' = Append(Accepted, Current(p)),
             next' = [next EXCEPT ![p] = @ + 1]
      PROVE  OwnOrder'
  <2> SUFFICES ASSUME NEW q \in Producer
               PROVE  (/\ {Accepted[i] : i \in From(q)}
                            = {MessageOf(q, n) : n \in 1..(next[q] - 1)}
                       /\ \A i, j \in From(q) : i < j => Accepted[i].no < Accepted[j].no)'
    BY DEF OwnOrder
  <2>1. Current(p).by = p /\ Current(p).no = next[p] /\ Current(p) = MessageOf(p, next[p])
    BY DEF Current, MessageOf
  <2>2. /\ \A n : MessageOf(q, n)' = MessageOf(q, n)
        /\ \A n : MessageOf(q, n).no = n
    BY <1>1 DEF MessageOf
  <2>3. CASE q # p
    <3>1. next'[q] = next[q] /\ From(q)' = From(q)
          /\ \A i \in From(q) : Accepted'[i] = Accepted[i]
      BY <1>1, <1>3, <2>1, <2>3, OrderGrows DEF From
    <3> QED BY <2>2, <3>1 DEF OwnOrder
  <2>4. CASE q = p
    <3> DEFINE k == Len(Accepted) + 1
    <3>1. /\ next'[p] = next[p] + 1 /\ From(p)' = From(p) \cup {k}
          /\ Accepted'[k] = Current(p)
          /\ \A i \in From(p) : Accepted'[i] = Accepted[i] /\ i < k
      BY <1>1, <1>3, <2>1, OrderGrows DEF From
    <3>2. next[p] \in Nat \ {0} /\ From(p) \subseteq Nat /\ k \in Nat
      BY <1>1 DEF From
    <3> HIDE DEF k
    <3>3. {Accepted'[i] : i \in From(p)'}
            = {Accepted[i] : i \in From(p)} \cup {Current(p)}
      BY <3>1, Zenon
    <3>4. 1..(next'[p] - 1) = 1..(next[p] - 1) \cup {next[p]}
      BY <3>1, <3>2
    <3>5. {MessageOf(p, n) : n \in 1..(next'[p] - 1)}
            = {MessageOf(p, n) : n \in 1..(next[p] - 1)} \cup {Current(p)}
      BY <2>1, <3>4, Zenon
    <3>6. {Accepted[i] : i \in From(p)} = {MessageOf(p, n) : n \in 1..(next[p] - 1)}
      BY DEF OwnOrder
    <3>7. \A i \in From(p) : Accepted[i].no < next[p]
      <4> SUFFICES ASSUME NEW i \in From(p)
                   PROVE  Accepted[i].no < next[p]
        OBVIOUS
      <4>1. PICK n \in 1..(next[p] - 1) : Accepted[i] = MessageOf(p, n)
        BY <3>6, Zenon
      <4> QED BY <2>2, <2>4, <3>2, <4>1
    <3>8. \A i, j \in From(p)' : i < j => Accepted'[i].no < Accepted'[j].no
      <4> SUFFICES ASSUME NEW i \in From(p)', NEW j \in From(p)', i < j
                   PROVE  Accepted'[i].no < Accepted'[j].no
        OBVIOUS
      <4>1. i \in From(p)
        BY <3>1, <3>2
      <4>2. CASE j = k
        BY <2>1, <3>1, <3>7, <4>1, <4>2
      <4>3. CASE j \in From(p)
        BY <3>1, <4>1, <4>3 DEF OwnOrder
      <4> QED BY <3>1, <4>2, <4>3
    <3>9. {MessageOf(p, n)' : n \in 1..(next'[p] - 1)}
            = {MessageOf(p, n) : n \in 1..(next'[p] - 1)}
      BY <2>2, <2>4
    <3> QED BY <2>4, <3>3, <3>5, <3>6, <3>8, <3>9
  <2> QED BY <2>3, <2>4
<1> QED BY <1>1, <1>2, <1>3, AcceptedStep

(* Messages of one producer are written in the order in which it pushed    *)
(* them, and each of them once.                                            *)
THEOREM OrderOfEach == Spec => []OwnOrder
<1>1. Init => OwnOrder
  BY LooperAssumption
  DEF Init, Thread, OwnOrder, From, Accepted, Pending, Unwritten, NewBuffer
<1>2. IInv /\ IInv' /\ [Next]_vars /\ OwnOrder => OwnOrder'
  BY OwnOrderStep
<1> QED BY <1>1, <1>2, Invariance, PTL DEF Spec
=============================================================================
