----------------------------- MODULE ThreadPool -----------------------------
(***************************************************************************)
(* The accept loop of HttpServer and the ThreadPool it feeds.              *)
(*                                                                         *)
(* One thread, Main, runs HttpServer::Loop: it sets up the listening       *)
(* socket, or ends the process if it cannot, then accepts a connection,    *)
(* fetches the pool (creating it, and its workers, on the first call) and  *)
(* pushes the connection as a Task.  Each worker runs                      *)
(* ThreadPool::ThreadRoutine: it pops a Task under the mutex, waiting on   *)
(* the condition variable while the queue is empty, and processes it       *)
(* outside the mutex.  One action is one step between two points where     *)
(* another thread may run: acquiring or releasing the mutex, blocking,     *)
(* signalling, or an access to the queue.                                  *)
(*                                                                         *)
(* ProcessOn is one step here, or never returns; what happens inside it is *)
(* the subject of EndPoint and CgiExchange.                                *)
(***************************************************************************)
EXTENDS Naturals, Sequences, FiniteSets

CONSTANTS Worker,    \* the threads InitThreadPool tries to create (NUM of them)
          Main,      \* the thread that runs HttpServer::Loop
          Sock,      \* descriptors accept() can return
          NoSock,    \* no descriptor
          Free       \* the mutex is not held

Thread == Worker \cup {Main}

ASSUME PoolAssumption == /\ IsFiniteSet(Worker)
                         /\ Main \notin Worker
                         /\ NoSock \notin Sock
                         /\ Free \notin Thread

VARIABLES
  pc,          \* where each thread is
  instance,    \* single_instance # nullptr
  lock,        \* the thread that holds ThreadPool::lock, or Free
  task_queue,  \* the queued tasks: the descriptor each of them carries
  sock,        \* Main: the accepted descriptor it has not pushed yet
  task,        \* each worker: the descriptor of the task it popped
  open         \* kernel: the accepted descriptors that are not closed

vars == <<pc, instance, lock, task_queue, sock, task, open>>

(***************************************************************************)
(* Main:    socket -> bind -> listen -> accept, or any of the three        *)
(*          -> exited; accept -> getinstance [-> init] -> lock -> push     *)
(*          -> unlock -> signal -> accept                                  *)
(* Worker:  none (not created) -> lock -> check -> unlock -> process       *)
(*          -> lock, or check -> wait -> wake -> check, or process -> hung *)
(***************************************************************************)
MainPc   == {"socket", "bind", "listen", "exited",
             "accept", "getinstance", "init", "lock", "push", "unlock", "signal"}
WorkerPc == {"none", "lock", "check", "wait", "wake", "unlock", "process", "hung"}

Goto(t, label) == pc' = [pc EXCEPT ![t] = label]

(* Threads blocked in pthread_cond_wait. *)
Waiting == {w \in Worker : pc[w] = "wait"}

(* Workers that will look at the queue again before they do anything else. *)
Awake == {w \in Worker : pc[w] \in {"lock", "check", "wake"}}

(* Loop has been called; there is neither a listening socket nor a pool.   *)
Init ==
  /\ pc = [t \in Thread |-> IF t = Main THEN "socket" ELSE "none"]
  /\ instance = FALSE
  /\ lock = Free
  /\ task_queue = <<>>
  /\ sock = NoSock
  /\ task = [w \in Worker |-> NoSock]
  /\ open = {}

-----------------------------------------------------------------------------
(* TcpServer::InitServer *)

(* socket(), bind() and listen() in turn; if one of them fails the process *)
(* exits with its number.                                                  *)
Socket ==
  /\ pc[Main] = "socket"
  /\ Goto(Main, "bind") \/ Goto(Main, "exited")
  /\ UNCHANGED <<instance, lock, task_queue, sock, task, open>>

Bind ==
  /\ pc[Main] = "bind"
  /\ Goto(Main, "listen") \/ Goto(Main, "exited")
  /\ UNCHANGED <<instance, lock, task_queue, sock, task, open>>

Listen ==
  /\ pc[Main] = "listen"
  /\ Goto(Main, "accept") \/ Goto(Main, "exited")
  /\ UNCHANGED <<instance, lock, task_queue, sock, task, open>>

InitServer == Socket \/ Bind \/ Listen

(* The process is gone. *)
Exited ==
  /\ pc[Main] = "exited"
  /\ UNCHANGED vars

-----------------------------------------------------------------------------
(* HttpServer::Loop *)

(* accept() returns a descriptor that is not open. *)
Accept(s) ==
  /\ pc[Main] = "accept"
  /\ s \notin open
  /\ open' = open \cup {s}
  /\ sock' = s
  /\ Goto(Main, "getinstance")
  /\ UNCHANGED <<instance, lock, task_queue, task>>

(* accept() fails and the loop continues; with every descriptor in use     *)
(* this is all it can do.                                                  *)
AcceptFails ==
  /\ pc[Main] = "accept"
  /\ UNCHANGED vars

(* ThreadPool::getinstance, the pool exists. *)
GetInstance ==
  /\ pc[Main] = "getinstance"
  /\ instance
  /\ Goto(Main, "lock")
  /\ UNCHANGED <<instance, lock, task_queue, sock, task, open>>

(* ThreadPool::getinstance, first call: construct, then InitThreadPool.    *)
(* The singleton's own mutex is never contended: only Main comes here.     *)
NewInstance ==
  /\ pc[Main] = "getinstance"
  /\ ~instance
  /\ instance' = TRUE
  /\ Goto(Main, "init")
  /\ UNCHANGED <<lock, task_queue, sock, task, open>>

(* One round of InitThreadPool's loop: pthread_create succeeds. *)
CreateThread(w) ==
  /\ pc[Main] = "init"
  /\ pc[w] = "none"
  /\ Goto(w, "lock")
  /\ UNCHANGED <<instance, lock, task_queue, sock, task, open>>

(* pthread_create fails: InitThreadPool returns false at once, and         *)
(* getinstance ignores the result.                                         *)
CreateThreadFails ==
  /\ pc[Main] = "init"
  /\ \E w \in Worker : pc[w] = "none"
  /\ Goto(Main, "lock")
  /\ UNCHANGED <<instance, lock, task_queue, sock, task, open>>

(* Every thread was created: InitThreadPool returns true. *)
InitThreadPoolDone ==
  /\ pc[Main] = "init"
  /\ \A w \in Worker : pc[w] # "none"
  /\ Goto(Main, "lock")
  /\ UNCHANGED <<instance, lock, task_queue, sock, task, open>>

-----------------------------------------------------------------------------
(* ThreadPool: the mutex, shared by PushTask, ThreadRoutine and the return *)
(* from pthread_cond_wait.                                                 *)

Lock(t) ==
  /\ pc[t] \in {"lock", "wake"}
  /\ lock = Free
  /\ lock' = t
  /\ Goto(t, IF t = Main THEN "push" ELSE "check")
  /\ UNCHANGED <<instance, task_queue, sock, task, open>>

(* Variant with a fault: a worker processes its task without unlocking. *)
UnlockOnlyMain(t) ==
  /\ pc[t] = "unlock"
  /\ lock' = IF t = Main THEN Free ELSE lock
  /\ Goto(t, IF t = Main THEN "signal" ELSE "process")
  /\ UNCHANGED <<instance, task_queue, sock, task, open>>

Unlock(t) ==
  /\ pc[t] = "unlock"
  /\ lock' = Free
  /\ Goto(t, IF t = Main THEN "signal" ELSE "process")
  /\ UNCHANGED <<instance, task_queue, sock, task, open>>

(* Variant with a fault: sock is cleared before it is copied into the Task. *)
PushAfterReset ==
  /\ pc[Main] = "push"
  /\ task_queue' = Append(task_queue, NoSock)
  /\ sock' = NoSock
  /\ Goto(Main, "unlock")
  /\ UNCHANGED <<instance, lock, task, open>>

(* PushTask, under the mutex.  The queue holds the descriptor from now on. *)
Push ==
  /\ pc[Main] = "push"
  /\ task_queue' = Append(task_queue, sock)
  /\ sock' = NoSock
  /\ Goto(Main, "unlock")
  /\ UNCHANGED <<instance, lock, task, open>>

(* ThreadWakeup, after PushTask released the mutex: pthread_cond_signal    *)
(* wakes a waiting thread if there is one.                                 *)
SignalOne ==
  /\ pc[Main] = "signal"
  /\ \E w \in Waiting : pc' = [pc EXCEPT ![Main] = "accept", ![w] = "wake"]
  /\ UNCHANGED <<instance, lock, task_queue, sock, task, open>>

SignalNone ==
  /\ pc[Main] = "signal"
  /\ Waiting = {}
  /\ Goto(Main, "accept")
  /\ UNCHANGED <<instance, lock, task_queue, sock, task, open>>

(* Variants with a fault: wake a worker only when the queue was empty; and *)
(* never wake one.                                                         *)
SignalIfFirst ==
  \/ Len(task_queue) = 1 /\ (SignalOne \/ SignalNone)
  \/ /\ pc[Main] = "signal"
     /\ Len(task_queue) # 1
     /\ Goto(Main, "accept")
     /\ UNCHANGED <<instance, lock, task_queue, sock, task, open>>

SignalNever ==
  /\ pc[Main] = "signal"
  /\ Goto(Main, "accept")
  /\ UNCHANGED <<instance, lock, task_queue, sock, task, open>>

Signal == SignalOne \/ SignalNone

-----------------------------------------------------------------------------
(* ThreadPool::ThreadRoutine *)

(* The queue is empty: pthread_cond_wait releases the mutex and blocks in  *)
(* one step.                                                               *)
ThreadWait(w) ==
  /\ pc[w] = "check"
  /\ task_queue = <<>>
  /\ lock' = Free
  /\ Goto(w, "wait")
  /\ UNCHANGED <<instance, task_queue, sock, task, open>>

(* pthread_cond_wait may return without a signal. *)
SpuriousWakeup(w) ==
  /\ pc[w] = "wait"
  /\ Goto(w, "wake")
  /\ UNCHANGED <<instance, lock, task_queue, sock, task, open>>

(* Variants with a fault: front() without pop(); and the newest task first. *)
PopTaskKeepsFront(w) ==
  /\ pc[w] = "check"
  /\ task_queue # <<>>
  /\ task' = [task EXCEPT ![w] = Head(task_queue)]
  /\ Goto(w, "unlock")
  /\ UNCHANGED <<instance, lock, task_queue, sock, open>>

PopTaskNewest(w) ==
  /\ pc[w] = "check"
  /\ task_queue # <<>>
  /\ LET last == Len(task_queue)
     IN  /\ task' = [task EXCEPT ![w] = task_queue[last]]
         /\ task_queue' = SubSeq(task_queue, 1, last - 1)
  /\ Goto(w, "unlock")
  /\ UNCHANGED <<instance, lock, sock, open>>

(* PopTask: copy the front of the queue and remove it. *)
PopTask(w) ==
  /\ pc[w] = "check"
  /\ task_queue # <<>>
  /\ task' = [task EXCEPT ![w] = Head(task_queue)]
  /\ task_queue' = Tail(task_queue)
  /\ Goto(w, "unlock")
  /\ UNCHANGED <<instance, lock, sock, open>>

(* Task::ProcessOn: the handler answers and closes the connection. *)
ProcessOn(w) ==
  /\ pc[w] = "process"
  /\ open' = open \ {task[w]}
  /\ task' = [task EXCEPT ![w] = NoSock]
  /\ Goto(w, "lock")
  /\ UNCHANGED <<instance, lock, task_queue, sock>>

(* The handler never returns: a client that keeps silent, or a program     *)
(* that hangs (see CgiExchange).  The worker is lost.                      *)
HandlerHangs(w) ==
  /\ pc[w] = "process"
  /\ Goto(w, "hung")
  /\ UNCHANGED <<instance, lock, task_queue, sock, task, open>>

-----------------------------------------------------------------------------
(* Main's steps other than accept, which waits for a client. *)
MainStep == \/ InitServer
            \/ GetInstance \/ NewInstance
            \/ \E w \in Worker : CreateThread(w)
            \/ CreateThreadFails \/ InitThreadPoolDone
            \/ Lock(Main) \/ Push \/ Unlock(Main) \/ Signal

WorkerStep(w) == \/ Lock(w) \/ ThreadWait(w) \/ PopTask(w) \/ Unlock(w)
                 \/ ProcessOn(w)

Next == \/ \E s \in Sock : Accept(s)
        \/ AcceptFails \/ Exited
        \/ MainStep
        \/ \E w \in Worker : WorkerStep(w) \/ SpuriousWakeup(w) \/ HandlerHangs(w)

Spec == Init /\ [][Next]_vars

(***************************************************************************)
(* Fairness.  A thread that can run does run; nothing stronger is assumed  *)
(* of the mutex, so a thread may lose it to others each time it is free.   *)
(* No fairness is assumed of clients, and spurious wake-ups are finite in  *)
(* number.  A handler returns or hangs for good.                           *)
(***************************************************************************)
Fairness == /\ WF_vars(MainStep)
            /\ \A w \in Worker : WF_vars(WorkerStep(w))
            /\ <>[][~ \E w \in Worker : SpuriousWakeup(w)]_vars

FairSpec == Spec /\ Fairness

-----------------------------------------------------------------------------
(* Properties *)

(* Every variable has its type: queued tasks carry real descriptors, never *)
(* the indeterminate one of a default-constructed Task.                    *)
TypeOK ==
  /\ pc \in [Thread -> MainPc \cup WorkerPc]
  /\ pc[Main] \in MainPc
  /\ \A w \in Worker : pc[w] \in WorkerPc
  /\ instance \in BOOLEAN
  /\ lock \in Thread \cup {Free}
  /\ task_queue \in Seq(Sock)
  /\ sock \in Sock \cup {NoSock}
  /\ task \in [Worker -> Sock \cup {NoSock}]
  /\ open \in SUBSET Sock

(* A signal that Main has yet to send for a task already in the queue. *)
Owed == IF pc[Main] \in {"unlock", "signal"} THEN 1 ELSE 0

(* While a worker sleeps, every queued task has a worker of its own that   *)
(* is on its way to the queue, or a signal still to be sent: PushTask may  *)
(* signal after it unlocked, another worker may steal the task, and still  *)
(* no task waits while a worker could run it.                              *)
NoLostWakeup == Waiting # {} => Len(task_queue) <= Cardinality(Awake) + Owed

InQueue(s)   == \E i \in 1..Len(task_queue) : task_queue[i] = s
InService(s) == \E w \in Worker : task[w] = s

(* A descriptor from accept() has exactly one owner (Main, one place in    *)
(* the queue, or one worker) until it is closed, and none afterwards: no   *)
(* connection is dropped, leaked, served twice or closed while queued.     *)
OwnedOnce ==
  /\ \A s \in Sock : s \in open <=> sock = s \/ InQueue(s) \/ InService(s)
  /\ \A s \in Sock : sock = s => ~InQueue(s) /\ ~InService(s)
  /\ \A s \in Sock : InQueue(s) => ~InService(s)
  /\ \A i, j \in 1..Len(task_queue) : task_queue[i] = task_queue[j] => i = j
  /\ \A v, w \in Worker : task[v] = task[w] /\ task[v] # NoSock => v = w

(* The mutex is held by exactly the thread that is between Lock and        *)
(* Unlock, so queue accesses never overlap.                                *)
Critical(t) == pc[t] \in {"check", "push", "unlock"}
MutexInv == \A t \in Thread : lock = t <=> Critical(t)

(* Where a thread is tells whether it owns a descriptor. *)
HoldsInv ==
  /\ sock # NoSock <=> pc[Main] \in {"getinstance", "init", "lock", "push"}
  /\ \A w \in Worker : task[w] # NoSock <=> pc[w] \in {"unlock", "process", "hung"}

(* The inductive invariant that the proofs of NoLostWakeup and OwnedOnce   *)
(* go through: exclusion on the queue is what keeps an unlucky worker from *)
(* going to sleep between a push and its signal.                           *)
IInv == TypeOK /\ MutexInv /\ HoldsInv /\ OwnedOnce /\ NoLostWakeup

(* Accept loop and pool implement Dispatch: service in order of arrival,   *)
(* nothing lost or served twice, whatever the interleaving.                *)
Undispatched == task_queue \o (IF sock = NoSock THEN <<>> ELSE <<sock>>)
D == INSTANCE Dispatch WITH backlog <- Undispatched, serving <- task
ImplementsDispatch == D!DispatchSpec

InBacklog(s) == sock = s \/ InQueue(s)
Staffed == \E w \in Worker : pc[w] \notin {"none", "hung"}

(* An accepted connection is eventually in a worker's hands, as long as    *)
(* one worker is left: pthread_create worked, and not every handler hangs. *)
ServedIfStaffed ==
  \A s \in Sock : (InBacklog(s) /\ Staffed) ~> (InService(s) \/ ~Staffed)

(* The accept loop always comes back to accept, unless the process could   *)
(* not set up its socket: neither workers that take and release the mutex  *)
(* nor workers that are lost can hold it up for ever.                      *)
AcceptLoopRuns == []<>(pc[Main] \in {"accept", "exited"})

(* HttpServer.hpp says of Loop that a client that connects is handed to a  *)
(* thread of the pool to be processed.                                     *)
AcceptedIsServed == \A s \in Sock : InBacklog(s) ~> InService(s)
=============================================================================
