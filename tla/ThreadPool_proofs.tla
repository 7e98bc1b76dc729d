-------------------------- MODULE ThreadPool_proofs --------------------------
(***************************************************************************)
(* Proofs about ThreadPool, for any finite set of workers and any set of   *)
(* descriptors.  IInv is inductive; TypeOK, OwnedOnce and NoLostWakeup     *)
(* follow from it.                                                         *)
(***************************************************************************)
EXTENDS ThreadPool, TLAPS, FiniteSetTheorems, SequenceTheorems

(* The sequence lemmas: what Append and Tail do to the set of queued       *)
(* descriptors, when the queue has no duplicates.                          *)
Occurs(q, x) == \E i \in 1..Len(q) : q[i] = x
Distinct(q)  == \A i, j \in 1..Len(q) : q[i] = q[j] => i = j

(* Push adds exactly one descriptor to those queued. *)
LEMMA AppendOccurs ==
  ASSUME NEW S, NEW q \in Seq(S), NEW s \in S
  PROVE  /\ Append(q, s) \in Seq(S)
         /\ Len(Append(q, s)) = Len(q) + 1
         /\ \A x : Occurs(Append(q, s), x) <=> Occurs(q, x) \/ x = s
         /\ Distinct(q) /\ ~Occurs(q, s) => Distinct(Append(q, s))
<1> DEFINE r == Append(q, s)
<1>1. /\ r \in Seq(S)
      /\ Len(q) \in Nat
      /\ Len(r) = Len(q) + 1
      /\ r[Len(r)] = s
      /\ \A i \in 1..Len(q) : r[i] = q[i]
  OBVIOUS
<1> HIDE DEF r
<1>2. \A x : Occurs(r, x) <=> Occurs(q, x) \/ x = s
  BY <1>1 DEF Occurs
<1>3. Distinct(q) /\ ~Occurs(q, s) => Distinct(r)
  BY <1>1 DEF Occurs, Distinct
<1> QED BY <1>1, <1>2, <1>3 DEF r

(* PopTask removes exactly the front descriptor from those queued. *)
LEMMA TailOccurs ==
  ASSUME NEW S, NEW q \in Seq(S), q # <<>>, Distinct(q)
  PROVE  /\ Tail(q) \in Seq(S)
         /\ Head(q) \in S
         /\ Len(Tail(q)) = Len(q) - 1
         /\ Occurs(q, Head(q))
         /\ \A x : Occurs(Tail(q), x) <=> Occurs(q, x) /\ x # Head(q)
         /\ Distinct(Tail(q))
<1> DEFINE r == Tail(q)
<1>1. /\ r \in Seq(S)
      /\ Len(q) \in Nat \ {0}
      /\ Head(q) = q[1] /\ q[1] \in S
      /\ Len(r) = Len(q) - 1
      /\ \A i \in 1..Len(r) : r[i] = q[i + 1]
  OBVIOUS
<1> HIDE DEF r
<1>2. ASSUME NEW x PROVE Occurs(r, x) => Occurs(q, x) /\ x # q[1]
  BY <1>1 DEF Occurs, Distinct
<1>3. ASSUME NEW x, Occurs(q, x), x # q[1] PROVE Occurs(r, x)
  <2>1. PICK i \in 1..Len(q) : q[i] = x
    BY <1>3 DEF Occurs
  <2>2. i - 1 \in 1..Len(r) /\ r[i - 1] = x
    BY <1>1, <1>3, <2>1
  <2> QED BY <2>2 DEF Occurs
<1>4. Distinct(r)
  BY <1>1 DEF Distinct
<1>5. Occurs(q, q[1])
  BY <1>1 DEF Occurs
<1> QED BY <1>1, <1>2, <1>3, <1>4, <1>5 DEF r

(* A finite set of workers, one more or one fewer of them. *)
LEMMA OneMore ==
  ASSUME NEW A \in SUBSET Worker, NEW B \in SUBSET Worker,
         NEW w, w \notin A, B = A \cup {w}
  PROVE  /\ Cardinality(A) \in Nat
         /\ Cardinality(B) = Cardinality(A) + 1
BY PoolAssumption, FS_Subset, FS_AddElement, FS_CardinalityType

-----------------------------------------------------------------------------
(* The initial state satisfies the inductive invariant. *)
LEMMA InitIInv == Init => IInv
<1> SUFFICES ASSUME Init PROVE IInv
  OBVIOUS
<1> USE PoolAssumption DEF Init, Thread
<1>1. TypeOK
  <2>1. /\ pc \in [Thread -> MainPc \cup WorkerPc]
        /\ pc[Main] \in MainPc
        /\ \A w \in Worker : pc[w] \in WorkerPc
    BY DEF MainPc, WorkerPc
  <2>2. task_queue \in Seq(Sock)
    OBVIOUS
  <2> QED BY <2>1, <2>2 DEF TypeOK
<1>2. MutexInv
  BY DEF MutexInv, Critical
<1>3. HoldsInv
  BY DEF HoldsInv
<1>4. OwnedOnce
  BY DEF OwnedOnce, InQueue, InService
<1>5. NoLostWakeup
  BY DEF NoLostWakeup, Waiting
<1> QED BY <1>1, <1>2, <1>3, <1>4, <1>5 DEF IInv

(* Every step keeps the types. *)
LEMMA TypeStep == IInv /\ [Next]_vars => TypeOK'
<1> SUFFICES ASSUME TypeOK, HoldsInv, [Next]_vars PROVE TypeOK'
  BY DEF IInv
<1> USE PoolAssumption DEF TypeOK, MainPc, WorkerPc, Goto, Thread
<1>1. ASSUME NEW s \in Sock, Accept(s) PROVE TypeOK'
  BY <1>1 DEF Accept
<1>2. CASE AcceptFails \/ Exited
  BY <1>2 DEF AcceptFails, Exited, vars
<1>3. CASE GetInstance
  BY <1>3 DEF GetInstance
<1>4. CASE NewInstance
  BY <1>4 DEF NewInstance
<1>5. ASSUME NEW w \in Worker, CreateThread(w) PROVE TypeOK'
  BY <1>5 DEF CreateThread
<1>6. CASE CreateThreadFails
  BY <1>6 DEF CreateThreadFails
<1>7. CASE InitThreadPoolDone
  BY <1>7 DEF InitThreadPoolDone
<1>8. ASSUME NEW t \in Thread, Lock(t) PROVE TypeOK'
  <2>1. CASE t = Main
    BY <1>8, <2>1 DEF Lock
  <2>2. CASE t \in Worker
    BY <1>8, <2>2 DEF Lock
  <2> QED BY <2>1, <2>2
<1>9. CASE Push
  <2>1. sock \in Sock
    BY <1>9 DEF Push, HoldsInv
  <2> QED BY <1>9, <2>1 DEF Push
<1>10. ASSUME NEW t \in Thread, Unlock(t) PROVE TypeOK'
  <2>1. CASE t = Main
    BY <1>10, <2>1 DEF Unlock
  <2>2. CASE t \in Worker
    BY <1>10, <2>2 DEF Unlock
  <2> QED BY <2>1, <2>2
<1>11. CASE Signal
  BY <1>11 DEF Signal, SignalOne, SignalNone, Waiting
<1>12. ASSUME NEW w \in Worker, ThreadWait(w) PROVE TypeOK'
  BY <1>12 DEF ThreadWait
<1>13. ASSUME NEW w \in Worker, PopTask(w) PROVE TypeOK'
  BY <1>13 DEF PopTask
<1>14. ASSUME NEW w \in Worker, ProcessOn(w) PROVE TypeOK'
  BY <1>14 DEF ProcessOn
<1>15. ASSUME NEW w \in Worker, SpuriousWakeup(w) PROVE TypeOK'
  BY <1>15 DEF SpuriousWakeup
<1>16. ASSUME NEW w \in Worker, HandlerHangs(w) PROVE TypeOK'
  BY <1>16 DEF HandlerHangs
<1>17. CASE InitServer
  BY <1>17 DEF InitServer, Socket, Bind, Listen
<1>18. CASE UNCHANGED vars
  BY <1>18 DEF vars
<1> QED
  BY <1>1, <1>2, <1>3, <1>4, <1>5, <1>6, <1>7, <1>8, <1>9, <1>10, <1>11,
     <1>12, <1>13, <1>14, <1>15, <1>16, <1>17, <1>18
  DEF Next, MainStep, WorkerStep

(* Every step keeps the mutex exclusive. *)
LEMMA MutexStep == IInv /\ [Next]_vars => MutexInv'
<1> SUFFICES ASSUME TypeOK, MutexInv, [Next]_vars PROVE MutexInv'
  BY DEF IInv
<1> USE PoolAssumption DEF TypeOK, MutexInv, Critical, Goto, Thread
<1>1. CASE \E s \in Sock : Accept(s)
  BY <1>1 DEF Accept
<1>2. CASE AcceptFails \/ Exited \/ UNCHANGED vars
  BY <1>2 DEF AcceptFails, Exited, vars
<1>3. CASE GetInstance \/ NewInstance \/ CreateThreadFails \/ InitThreadPoolDone
  BY <1>3 DEF GetInstance, NewInstance, CreateThreadFails, InitThreadPoolDone
<1>4. CASE \E w \in Worker : CreateThread(w)
  BY <1>4 DEF CreateThread
<1>5. ASSUME NEW t \in Thread, Lock(t) PROVE MutexInv'
  BY <1>5 DEF Lock, MainPc, WorkerPc
<1>6. CASE Push
  BY <1>6 DEF Push
<1>7. ASSUME NEW t \in Thread, Unlock(t) PROVE MutexInv'
  BY <1>7 DEF Unlock
<1>8. CASE Signal
  BY <1>8 DEF Signal, SignalOne, SignalNone, Waiting
<1>9. ASSUME NEW w \in Worker, ThreadWait(w) PROVE MutexInv'
  BY <1>9 DEF ThreadWait
<1>10. ASSUME NEW w \in Worker, PopTask(w) PROVE MutexInv'
  BY <1>10 DEF PopTask
<1>11. ASSUME NEW w \in Worker, ProcessOn(w) PROVE MutexInv'
  BY <1>11 DEF ProcessOn
<1>12. ASSUME NEW w \in Worker, SpuriousWakeup(w) PROVE MutexInv'
  BY <1>12 DEF SpuriousWakeup
<1>13. ASSUME NEW w \in Worker, HandlerHangs(w) PROVE MutexInv'
  BY <1>13 DEF HandlerHangs
<1>14. CASE InitServer
  BY <1>14 DEF InitServer, Socket, Bind, Listen
<1> QED
  BY <1>1, <1>2, <1>3, <1>4, <1>5, <1>6, <1>7, <1>8, <1>9, <1>10, <1>11, <1>12,
     <1>13, <1>14
  DEF Next, MainStep, WorkerStep

(* Every step keeps the relation between a thread's place and what it owns. *)
LEMMA HoldsStep == IInv /\ [Next]_vars => HoldsInv'
<1> SUFFICES ASSUME TypeOK, HoldsInv, [Next]_vars PROVE HoldsInv'
  BY DEF IInv
<1> USE PoolAssumption DEF TypeOK, HoldsInv, Goto, Thread
<1>1. ASSUME NEW s \in Sock, Accept(s) PROVE HoldsInv'
  BY <1>1 DEF Accept
<1>2. CASE AcceptFails \/ Exited \/ UNCHANGED vars
  BY <1>2 DEF AcceptFails, Exited, vars
<1>3. CASE GetInstance \/ NewInstance \/ CreateThreadFails \/ InitThreadPoolDone
  BY <1>3 DEF GetInstance, NewInstance, CreateThreadFails, InitThreadPoolDone
<1>4. CASE \E w \in Worker : CreateThread(w)
  BY <1>4 DEF CreateThread
<1>5. ASSUME NEW t \in Thread, Lock(t) PROVE HoldsInv'
  BY <1>5 DEF Lock, MainPc, WorkerPc
<1>6. CASE Push
  BY <1>6 DEF Push
<1>7. ASSUME NEW t \in Thread, Unlock(t) PROVE HoldsInv'
  BY <1>7 DEF Unlock, MainPc, WorkerPc
<1>8. CASE Signal
  BY <1>8 DEF Signal, SignalOne, SignalNone, Waiting
<1>9. ASSUME NEW w \in Worker, ThreadWait(w) PROVE HoldsInv'
  BY <1>9 DEF ThreadWait
<1>10. ASSUME NEW w \in Worker, PopTask(w) PROVE HoldsInv'
  <2>1. Head(task_queue) \in Sock
    BY <1>10 DEF PopTask
  <2> QED BY <1>10, <2>1 DEF PopTask
<1>11. ASSUME NEW w \in Worker, ProcessOn(w) PROVE HoldsInv'
  BY <1>11 DEF ProcessOn
<1>12. ASSUME NEW w \in Worker, SpuriousWakeup(w) PROVE HoldsInv'
  BY <1>12 DEF SpuriousWakeup
<1>13. ASSUME NEW w \in Worker, HandlerHangs(w) PROVE HoldsInv'
  BY <1>13 DEF HandlerHangs
<1>14. CASE InitServer
  BY <1>14 DEF InitServer, Socket, Bind, Listen
<1> QED
  BY <1>1, <1>2, <1>3, <1>4, <1>5, <1>6, <1>7, <1>8, <1>9, <1>10, <1>11, <1>12,
     <1>13, <1>14
  DEF Next, MainStep, WorkerStep

(* OwnedOnce reads only the queue and who holds what: a step that changes  *)
(* none of them keeps it.                                                  *)
LEMMA OwnedUnchanged ==
  OwnedOnce /\ UNCHANGED <<task_queue, sock, task, open>> => OwnedOnce'
BY DEF OwnedOnce, InQueue, InService

(* Only four steps change the queue or who owns a descriptor. *)
LEMMA OwnerSteps ==
  [Next]_vars => \/ \E s \in Sock : Accept(s)
                 \/ Push
                 \/ \E w \in Worker : PopTask(w) \/ ProcessOn(w)
                 \/ UNCHANGED <<task_queue, sock, task, open>>
<1> DEFINE Same == UNCHANGED <<task_queue, sock, task, open>>
<1>1. InitServer => Same
  BY DEF InitServer, Socket, Bind, Listen
<1>2. GetInstance \/ NewInstance \/ CreateThreadFails \/ InitThreadPoolDone => Same
  BY DEF GetInstance, NewInstance, CreateThreadFails, InitThreadPoolDone
<1>3. \A w \in Worker : CreateThread(w) => Same
  BY DEF CreateThread
<1>4. \A t : Lock(t) \/ Unlock(t) => Same
  BY DEF Lock, Unlock
<1>5. Signal => Same
  BY DEF Signal, SignalOne, SignalNone
<1>6. \A w \in Worker : ThreadWait(w) \/ SpuriousWakeup(w) \/ HandlerHangs(w) => Same
  BY DEF ThreadWait, SpuriousWakeup, HandlerHangs
<1>7. AcceptFails \/ Exited \/ UNCHANGED vars => Same
  BY DEF AcceptFails, Exited, vars
<1> HIDE DEF Same
<1>8. [Next]_vars => \/ \E s \in Sock : Accept(s)
                     \/ Push
                     \/ \E w \in Worker : PopTask(w) \/ ProcessOn(w)
                     \/ Same
  BY <1>1, <1>2, <1>3, <1>4, <1>5, <1>6, <1>7 DEF Next, MainStep, WorkerStep
<1> QED BY <1>8 DEF Same

(* Every step keeps one owner for each open descriptor. *)
LEMMA OwnedStep == IInv /\ [Next]_vars => OwnedOnce'
<1> SUFFICES ASSUME TypeOK, HoldsInv, OwnedOnce, [Next]_vars PROVE OwnedOnce'
  BY DEF IInv
<1>a. /\ \A s : InQueue(s) <=> Occurs(task_queue, s)
      /\ \A s : InQueue(s)' <=> Occurs(task_queue', s)
      /\ Distinct(task_queue)
  BY DEF InQueue, Occurs, OwnedOnce, Distinct
<1> USE PoolAssumption DEF Thread
<1>1. ASSUME NEW s \in Sock, Accept(s) PROVE OwnedOnce'
  BY <1>1 DEF Accept, OwnedOnce, InQueue, InService, TypeOK, HoldsInv, Goto
<1>2. CASE Push
  <2>1. sock \in Sock
    BY <1>2 DEF Push, HoldsInv, TypeOK
  <2> QED
    BY <1>2, <1>a, <2>1, AppendOccurs
    DEF Push, OwnedOnce, InService, TypeOK, Distinct
<1>3. ASSUME NEW w \in Worker, PopTask(w) PROVE OwnedOnce'
  BY <1>3, <1>a, TailOccurs
  DEF PopTask, OwnedOnce, InService, TypeOK, HoldsInv, Distinct
<1>4. ASSUME NEW w \in Worker, ProcessOn(w) PROVE OwnedOnce'
  BY <1>4 DEF ProcessOn, OwnedOnce, InQueue, InService, TypeOK, HoldsInv
<1>5. CASE UNCHANGED <<task_queue, sock, task, open>>
  BY <1>5, OwnedUnchanged
<1> QED BY <1>1, <1>2, <1>3, <1>4, <1>5, OwnerSteps

(* A step that leaves the queue alone, lets no worker fall asleep or off   *)
(* its way to the queue, and owes as many signals as before, loses no      *)
(* wake-up.                                                                *)
LEMMA WakeKept ==
  ASSUME TypeOK, NoLostWakeup, task_queue' = task_queue,
         Waiting' = Waiting, Awake' = Awake, Owed' = Owed
  PROVE  NoLostWakeup'
BY DEF NoLostWakeup

(* One more worker on its way to the queue. *)
LEMMA WakeGained ==
  ASSUME TypeOK, NoLostWakeup, task_queue' = task_queue,
         NEW w \in Worker, w \notin Awake, Awake' = Awake \cup {w},
         Owed' \in {0, 1}, Owed' >= Owed - 1, Waiting' \subseteq Waiting
  PROVE  NoLostWakeup'
<1>1. /\ Cardinality(Awake) \in Nat
      /\ Cardinality(Awake') = Cardinality(Awake) + 1
  <2>1. Awake \in SUBSET Worker /\ Awake' \in SUBSET Worker
    BY DEF Awake
  <2> QED BY <2>1, OneMore
<1>2. Len(task_queue) \in Nat /\ Owed \in {0, 1}
  BY DEF TypeOK, Owed
<1>3. CASE Waiting' = {}
  BY <1>3 DEF NoLostWakeup
<1>4. CASE Waiting' # {}
  <2>1. Len(task_queue) <= Cardinality(Awake) + Owed
    BY <1>4 DEF NoLostWakeup
  <2>2. Len(task_queue') <= Cardinality(Awake') + Owed'
    BY <1>1, <1>2, <2>1
  <2> QED BY <2>2 DEF NoLostWakeup
<1> QED BY <1>3, <1>4

(* Every step keeps NoLostWakeup. *)
LEMMA WakeStep == IInv /\ [Next]_vars => NoLostWakeup'
<1> SUFFICES ASSUME IInv, [Next]_vars PROVE NoLostWakeup'
  OBVIOUS
<1> USE PoolAssumption DEF Thread
<1>0. /\ TypeOK /\ NoLostWakeup /\ MutexInv
      /\ Len(task_queue) \in Nat
      /\ Waiting \in SUBSET Worker /\ Awake \in SUBSET Worker
      /\ Cardinality(Awake) \in Nat
      /\ Owed \in {0, 1} /\ Owed' \in {0, 1}
  <2>1. TypeOK /\ NoLostWakeup /\ MutexInv
    BY DEF IInv
  <2>2. Waiting \in SUBSET Worker /\ Awake \in SUBSET Worker
    BY DEF Waiting, Awake
  <2>3. Cardinality(Awake) \in Nat
    BY <2>2, FS_Subset, FS_CardinalityType
  <2> QED BY <2>1, <2>2, <2>3 DEF Owed, TypeOK
<1>1. ASSUME NEW s \in Sock, Accept(s) PROVE NoLostWakeup'
  BY <1>0, <1>1, WakeKept DEF Accept, Goto, TypeOK, Waiting, Awake, Owed
<1>2. CASE AcceptFails \/ Exited \/ UNCHANGED vars
  BY <1>0, <1>2, WakeKept DEF AcceptFails, Exited, vars, Waiting, Awake, Owed
<1>3. CASE GetInstance \/ NewInstance \/ CreateThreadFails \/ InitThreadPoolDone
  BY <1>0, <1>3, WakeKept
  DEF GetInstance, NewInstance, CreateThreadFails, InitThreadPoolDone, Goto,
      TypeOK, Waiting, Awake, Owed
<1>4. ASSUME NEW w \in Worker, CreateThread(w) PROVE NoLostWakeup'
  <2>1. w \notin Awake /\ Awake' = Awake \cup {w}
    BY <1>0, <1>4 DEF CreateThread, Goto, TypeOK, Awake
  <2>2. Waiting' = Waiting /\ Owed' = Owed /\ task_queue' = task_queue
    BY <1>0, <1>4 DEF CreateThread, Goto, TypeOK, Waiting, Owed
  <2> QED BY <1>0, <2>1, <2>2, WakeGained
<1>5. ASSUME NEW t \in Thread, Lock(t) PROVE NoLostWakeup'
  <2>1. Waiting' = Waiting /\ Awake' = Awake
    BY <1>0, <1>5 DEF Lock, Goto, TypeOK, Waiting, Awake
  <2>2. Owed' = Owed /\ task_queue' = task_queue
    BY <1>0, <1>5 DEF Lock, Goto, TypeOK, Owed
  <2> QED BY <1>0, <2>1, <2>2, WakeKept
<1>6. CASE Push
  <2>1. Len(task_queue') = Len(task_queue) + 1
    <3>1. sock \in Sock
      BY <1>6 DEF IInv, Push, HoldsInv, TypeOK
    <3> QED BY <1>0, <1>6, <3>1, AppendProperties DEF Push, TypeOK
  <2>2. Waiting' = Waiting /\ Awake' = Awake /\ Owed = 0 /\ Owed' = 1
    BY <1>0, <1>6 DEF Push, Goto, TypeOK, Waiting, Awake, Owed
  <2> QED BY <1>0, <2>1, <2>2 DEF NoLostWakeup
<1>7. ASSUME NEW t \in Thread, Unlock(t) PROVE NoLostWakeup'
  <2>1. Waiting' = Waiting /\ Awake' = Awake
    BY <1>0, <1>7 DEF Unlock, Goto, TypeOK, Waiting, Awake
  <2>2. Owed' = Owed /\ task_queue' = task_queue
    BY <1>0, <1>7 DEF Unlock, Goto, TypeOK, Owed
  <2> QED BY <1>0, <2>1, <2>2, WakeKept
<1>8. CASE SignalOne
  <2>1. PICK w \in Waiting : pc' = [pc EXCEPT ![Main] = "accept", ![w] = "wake"]
    BY <1>8 DEF SignalOne
  <2>2. w \in Worker /\ w \notin Awake /\ Awake' = Awake \cup {w}
    BY <1>0, <2>1 DEF TypeOK, Waiting, Awake
  <2>3. Waiting' \subseteq Waiting /\ Owed = 1 /\ Owed' = 0
    BY <1>0, <1>8, <2>1 DEF SignalOne, TypeOK, Waiting, Owed
  <2> QED BY <1>0, <1>8, <2>2, <2>3, WakeGained DEF SignalOne
<1>9. CASE SignalNone
  BY <1>0, <1>9 DEF SignalNone, Goto, TypeOK, Waiting, NoLostWakeup
<1>10. ASSUME NEW w \in Worker, ThreadWait(w) PROVE NoLostWakeup'
  <2>1. Len(task_queue') = 0
    BY <1>10 DEF ThreadWait
  <2>2. Cardinality(Awake') \in Nat
    <3>1. Awake' \in SUBSET Worker
      BY DEF Awake
    <3> QED BY <3>1, FS_Subset, FS_CardinalityType
  <2> QED BY <1>0, <2>1, <2>2 DEF NoLostWakeup
<1>11. ASSUME NEW w \in Worker, PopTask(w) PROVE NoLostWakeup'
  <2>1. Len(task_queue') = Len(task_queue) - 1
    BY <1>0, <1>11, HeadTailProperties DEF PopTask, TypeOK
  <2>2. w \notin Awake' /\ Awake = Awake' \cup {w}
    BY <1>0, <1>11 DEF PopTask, Goto, TypeOK, Awake
  <2>3. Waiting' = Waiting /\ Owed' = Owed
    BY <1>0, <1>11 DEF PopTask, Goto, TypeOK, Waiting, Owed
  <2>4. /\ Cardinality(Awake') \in Nat
        /\ Cardinality(Awake) = Cardinality(Awake') + 1
    BY <1>0, <2>2, OneMore
  <2> QED BY <1>0, <2>1, <2>3, <2>4 DEF NoLostWakeup
<1>12. ASSUME NEW w \in Worker, ProcessOn(w) \/ SpuriousWakeup(w)
       PROVE  NoLostWakeup'
  <2>1. w \notin Awake /\ Awake' = Awake \cup {w}
    BY <1>0, <1>12 DEF ProcessOn, SpuriousWakeup, Goto, TypeOK, Awake
  <2>2. Waiting' \subseteq Waiting /\ Owed' = Owed /\ task_queue' = task_queue
    BY <1>0, <1>12 DEF ProcessOn, SpuriousWakeup, Goto, TypeOK, Waiting, Owed
  <2> QED BY <1>0, <2>1, <2>2, WakeGained
<1>13. ASSUME NEW w \in Worker, HandlerHangs(w) PROVE NoLostWakeup'
  BY <1>0, <1>13, WakeKept DEF HandlerHangs, Goto, TypeOK, Waiting, Awake, Owed
<1>14. CASE InitServer
  <2>1. Waiting' = Waiting /\ Awake' = Awake
    BY <1>0, <1>14
    DEF InitServer, Socket, Bind, Listen, Goto, TypeOK, Waiting, Awake
  <2>2. Owed' = Owed /\ task_queue' = task_queue
    BY <1>0, <1>14 DEF InitServer, Socket, Bind, Listen, Goto, TypeOK, Owed
  <2> QED BY <1>0, <2>1, <2>2, WakeKept
<1> QED
  BY <1>1, <1>2, <1>3, <1>4, <1>5, <1>6, <1>7, <1>8, <1>9, <1>10, <1>11, <1>12,
     <1>13, <1>14
  DEF Next, MainStep, WorkerStep, Signal

-----------------------------------------------------------------------------
(* The inductive invariant holds in every reachable state. *)
THEOREM Invariance == Spec => []IInv
<1>1. Init => IInv
  BY InitIInv
<1>2. IInv /\ [Next]_vars => IInv'
  BY TypeStep, MutexStep, HoldsStep, OwnedStep, WakeStep DEF IInv
<1> QED BY <1>1, <1>2, PTL DEF Spec

(* Type correctness of the accept loop and the pool. *)
THEOREM TypeCorrect == Spec => []TypeOK
<1>1. IInv => TypeOK
  BY DEF IInv
<1> QED BY <1>1, Invariance, PTL

(* However many workers there are, a queued task never waits for a signal  *)
(* that was lost.                                                          *)
THEOREM NoWakeupIsLost == Spec => []NoLostWakeup
<1>1. IInv => NoLostWakeup
  BY DEF IInv
<1> QED BY <1>1, Invariance, PTL

(* Every accepted descriptor has one owner until it is closed. *)
THEOREM OneOwner == Spec => []OwnedOnce
<1>1. IInv => OwnedOnce
  BY DEF IInv
<1> QED BY <1>1, Invariance, PTL

-----------------------------------------------------------------------------
(* Refinement: the accept loop and the pool implement Dispatch. *)

(* Undispatched is a sequence of descriptors. *)
LEMMA UndispatchedType ==
  TypeOK => /\ Undispatched \in Seq(Sock)
            /\ \A s \in Sock : D!InBacklog(s) => sock = s \/ InQueue(s)
<1> SUFFICES ASSUME TypeOK
    PROVE /\ Undispatched \in Seq(Sock)
          /\ \A s \in Sock : D!InBacklog(s) => sock = s \/ InQueue(s)
  OBVIOUS
<1>1. CASE sock = NoSock
  <2>1. Undispatched = task_queue
    BY <1>1 DEF TypeOK, Undispatched
  <2> QED BY <2>1 DEF TypeOK, D!InBacklog, InQueue
<1>2. CASE sock # NoSock
  <2>1. sock \in Sock /\ Undispatched = Append(task_queue, sock)
    BY <1>2 DEF TypeOK, Undispatched
  <2>2. Undispatched \in Seq(Sock)
    BY <2>1 DEF TypeOK
  <2>3. \A s : Occurs(Undispatched, s) <=> Occurs(task_queue, s) \/ s = sock
    BY <2>1, AppendOccurs DEF TypeOK
  <2> QED BY <2>2, <2>3 DEF D!InBacklog, InQueue, Occurs
<1> QED BY <1>1, <1>2

(* Every step of the pool is a step of Dispatch or a stutter. *)
LEMMA RefinementStep ==
  IInv /\ IInv' /\ [Next]_vars => [D!DispatchNext]_(D!dvars)
<1> SUFFICES ASSUME IInv, IInv', [Next]_vars PROVE [D!DispatchNext]_(D!dvars)
  OBVIOUS
<1> USE PoolAssumption DEF Thread
<1>0. TypeOK /\ HoldsInv /\ OwnedOnce /\ TypeOK' /\ HoldsInv'
  BY DEF IInv
<1>1. ASSUME NEW s \in Sock, Accept(s) PROVE D!Connect(s)
  <2>1. sock = NoSock /\ sock' = s /\ task_queue' = task_queue
    BY <1>0, <1>1 DEF Accept, HoldsInv
  <2>2. Undispatched = task_queue /\ Undispatched' = Append(task_queue, s)
    BY <1>0, <2>1 DEF Undispatched, TypeOK
  <2>3. ~InService(s) /\ ~InQueue(s) /\ sock # s
    BY <1>0, <1>1 DEF Accept, OwnedOnce
  <2> QED
    BY <1>0, <1>1, <2>2, <2>3, UndispatchedType
    DEF Accept, D!Connect, D!InService, InService
<1>2. CASE Push
  <2>1. /\ sock \in Sock /\ sock' = NoSock /\ UNCHANGED task
        /\ task_queue' = Append(task_queue, sock)
    BY <1>0, <1>2 DEF Push, HoldsInv, TypeOK
  <2>2. Undispatched' = Undispatched
    <3>1. Undispatched = Append(task_queue, sock)
      BY <2>1, PoolAssumption DEF Undispatched
    <3>2. Undispatched' = task_queue'
      BY <2>1 DEF Undispatched
    <3> QED BY <2>1, <3>1, <3>2
  <2> QED BY <2>1, <2>2 DEF D!dvars
<1>3. ASSUME NEW w \in Worker, PopTask(w) PROVE D!Assign(w)
  <2>1. /\ task[w] = NoSock /\ task_queue # <<>> /\ sock' = sock
        /\ task' = [task EXCEPT ![w] = Head(task_queue)]
        /\ task_queue' = Tail(task_queue)
    BY <1>0, <1>3 DEF PopTask, HoldsInv
  <2>2. /\ Undispatched # <<>>
        /\ Head(Undispatched) = Head(task_queue)
        /\ Undispatched' = Tail(Undispatched)
    <3>1. CASE sock = NoSock
      BY <1>0, <2>1, <3>1 DEF Undispatched, TypeOK
    <3>2. CASE sock # NoSock
      <4>1. /\ Undispatched = Append(task_queue, sock)
            /\ Undispatched' = Append(Tail(task_queue), sock)
        BY <1>0, <2>1, <3>2 DEF Undispatched, TypeOK
      <4> QED
        BY <1>0, <2>1, <3>2, <4>1, HeadTailAppend, AppendProperties DEF TypeOK
    <3> QED BY <3>1, <3>2
  <2> QED BY <2>1, <2>2 DEF D!Assign
<1>4. ASSUME NEW w \in Worker, ProcessOn(w) PROVE D!Complete(w)
  <2>1. task[w] # NoSock
    BY <1>0, <1>4 DEF ProcessOn, HoldsInv
  <2> QED BY <1>4, <2>1 DEF ProcessOn, D!Complete, Undispatched
<1>5. CASE UNCHANGED <<task_queue, sock, task>>
  BY <1>5 DEF D!dvars, Undispatched
<1>6. CASE \E s \in Sock : Accept(s)
  BY <1>1, <1>6 DEF D!DispatchNext
<1>7. CASE \E w \in Worker : PopTask(w) \/ ProcessOn(w)
  BY <1>3, <1>4, <1>7 DEF D!DispatchNext
<1> QED BY <1>2, <1>5, <1>6, <1>7, OwnerSteps

(* Connections are served in the order of arrival, each by one worker, and *)
(* none is lost: accept loop and pool implement Dispatch.                  *)
THEOREM Refinement == Spec => ImplementsDispatch
<1>1. Init => D!DispatchInit
  BY PoolAssumption DEF Init, D!DispatchInit, Undispatched
<1>2. IInv /\ IInv' /\ [Next]_vars => [D!DispatchNext]_(D!dvars)
  BY RefinementStep
<1> QED BY <1>1, <1>2, Invariance, PTL DEF Spec, ImplementsDispatch, D!DispatchSpec
=============================================================================
