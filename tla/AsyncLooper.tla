---------------------------- MODULE AsyncLooper -----------------------------
(***************************************************************************)
(* mylog::AsyncLooper: producers push messages into one buffer under a     *)
(* mutex, a worker thread swaps it for an empty one and hands the full one *)
(* to the sinks outside the mutex, and the owner stops the worker when it  *)
(* destroys the looper.                                                    *)
(*                                                                         *)
(* A step is what happens between two points where another thread can      *)
(* make a difference.  Everything but _stop is accessed under the mutex;   *)
(* _stop is set without it, so that the worker's two looks at it and its   *)
(* going to sleep are three steps.                                         *)
(***************************************************************************)
EXTENDS Buffer, FiniteSets

CONSTANTS Producer,   \* threads that log through this looper
          Worker,     \* the thread that runs threadEntry
          Owner,      \* the thread that destroys the looper
          Free,       \* _mutex is not held
          LooperType, \* the AsyncTypes to start with
          Workload    \* a set of [Producer -> Seq(Nat \ {0})]: the lengths of
                      \* the messages each producer logs

Thread == Producer \cup {Worker, Owner}

ASSUME LooperAssumption ==
  /\ Worker \notin Producer /\ Owner \notin Producer /\ Worker # Owner
  /\ Free \notin Thread
  /\ LooperType \subseteq {"ASYNC_SAFE", "ASYNC_UNSAFE"}
  /\ Workload \subseteq [Producer -> Seq(Nat \ {0})]

VARIABLES
  type,    \* _lopper_type
  work,    \* what the producers will log
  pc,      \* where each thread is
  next,    \* each producer: the number of its next message
  mutex,   \* the thread that holds _mutex, or Free
  stop,    \* _stop
  pro,     \* _pro_buf
  con,     \* _con_buf
  output   \* what _callBack has passed to the sinks

vars == <<type, work, pc, next, mutex, stop, pro, con, output>>
environment == <<type, work>>

(***************************************************************************)
(* Producer: idle -> lock -> push -> idle, or push -> wait -> wake -> push *)
(* Worker:   lock -> break -> pred -> swap -> call -> reset -> lock,       *)
(*           pred -> block -> wait -> wake -> pred, or break -> exit       *)
(* Owner:    own -> notify -> join -> joined                               *)
(***************************************************************************)
ProducerPc == {"idle", "lock", "push", "wait", "wake"}
WorkerPc   == {"lock", "break", "pred", "block", "wait", "wake", "swap", "call",
               "reset", "exit"}
OwnerPc    == {"own", "notify", "join", "joined"}

Goto(t, label) == pc' = [pc EXCEPT ![t] = label]

(* Message number n of producer p; a formatted message is never empty. *)
MessageOf(p, n) == [by |-> p, no |-> n, len |-> work[p][n]]
Message == [by : Producer, no : Nat \ {0}, len : Nat \ {0}]
Current(p) == MessageOf(p, next[p])

Init ==
  /\ type \in LooperType /\ work \in Workload
  /\ pc = [t \in Thread |-> CASE t = Worker -> "lock" [] t = Owner -> "own"
                              [] OTHER -> "idle"]
  /\ next = [p \in Producer |-> 1]
  /\ mutex = Free /\ stop = FALSE
  /\ pro = NewBuffer /\ con = NewBuffer
  /\ output = <<>>

-----------------------------------------------------------------------------
(* The mutex, and return from a condition variable's wait *)

Lock(t) ==
  /\ pc[t] \in {"lock", "wake"}
  /\ mutex = Free
  /\ mutex' = t
  /\ Goto(t, IF t \in Producer THEN "push"
             ELSE IF pc[t] = "lock" THEN "break" ELSE "pred")
  /\ UNCHANGED <<environment, next, stop, pro, con, output>>

SpuriousWakeup(t) ==
  /\ pc[t] = "wait"
  /\ Goto(t, "wake")
  /\ UNCHANGED <<environment, next, mutex, stop, pro, con, output>>

(* A thread's next place when t goes to label and the waiting threads of   *)
(* sleepers are notified.                                                  *)
GotoAndWake(t, label, sleepers) ==
  pc' = [u \in Thread |-> IF u = t THEN label
                          ELSE IF u \in sleepers /\ pc[u] = "wait" THEN "wake"
                          ELSE pc[u]]

-----------------------------------------------------------------------------
(* push() *)

(* A caller logs a message: it has a reference to the logger, which is     *)
(* therefore not being destroyed.                                          *)
Call(p) ==
  /\ pc[p] = "idle" /\ pc[Owner] = "own"
  /\ next[p] <= Len(work[p])
  /\ Goto(p, "lock")
  /\ UNCHANGED <<environment, next, mutex, stop, pro, con, output>>

HasRoom(p) == type = "ASYNC_SAFE" => WriteAbleSize(pro) >= Current(p).len

(* _cond_pro.wait: releases the mutex and sleeps. *)
WaitForRoom(p) ==
  /\ pc[p] = "push"
  /\ ~HasRoom(p)
  /\ mutex' = Free
  /\ Goto(p, "wait")
  /\ UNCHANGED <<environment, next, stop, pro, con, output>>

(* Variant with a fault: the worker is not notified. *)
PushQuietly(p) ==
  /\ pc[p] = "push"
  /\ HasRoom(p)
  /\ pro' = PushMessage(pro, Current(p))
  /\ next' = [next EXCEPT ![p] = @ + 1]
  /\ mutex' = Free
  /\ Goto(p, "idle")
  /\ UNCHANGED <<environment, stop, con, output>>

(* The message goes into _pro_buf, _cond_con.notify_one, unlock. *)
Push(p) ==
  /\ pc[p] = "push"
  /\ HasRoom(p)
  /\ pro' = PushMessage(pro, Current(p))
  /\ next' = [next EXCEPT ![p] = @ + 1]
  /\ mutex' = Free
  /\ GotoAndWake(p, "idle", {Worker})
  /\ UNCHANGED <<environment, stop, con, output>>

-----------------------------------------------------------------------------
(* threadEntry() *)

(* Variant with a fault: what is left in _pro_buf does not matter. *)
BreakOnStop ==
  /\ pc[Worker] = "break"
  /\ Goto(Worker, IF stop THEN "exit" ELSE "pred")
  /\ mutex' = IF stop THEN Free ELSE mutex
  /\ UNCHANGED <<environment, next, stop, pro, con, output>>

(* The thread ends when it is told to stop and _pro_buf is empty. *)
Break ==
  /\ pc[Worker] = "break"
  /\ IF stop /\ Empty(pro)
     THEN Goto(Worker, "exit") /\ mutex' = Free
     ELSE Goto(Worker, "pred") /\ UNCHANGED mutex
  /\ UNCHANGED <<environment, next, stop, pro, con, output>>

(* The predicate of _cond_con.wait. *)
Predicate ==
  /\ pc[Worker] = "pred"
  /\ Goto(Worker, IF stop \/ ~Empty(pro) THEN "swap" ELSE "block")
  /\ UNCHANGED <<environment, next, mutex, stop, pro, con, output>>

(* _cond_con.wait goes to sleep: a notification sent since the predicate   *)
(* was evaluated is not seen.                                              *)
Block ==
  /\ pc[Worker] = "block"
  /\ mutex' = Free
  /\ Goto(Worker, "wait")
  /\ UNCHANGED <<environment, next, stop, pro, con, output>>

(* Variant with a fault: only one producer is woken. *)
SwapNotifyOne ==
  /\ pc[Worker] = "swap"
  /\ con' = pro /\ pro' = con
  /\ mutex' = Free
  /\ \/ \E p \in Producer : pc[p] = "wait" /\ GotoAndWake(Worker, "call", {p})
     \/ /\ \A p \in Producer : pc[p] # "wait"
        /\ Goto(Worker, "call")
  /\ UNCHANGED <<environment, next, stop, output>>

(* The buffers are swapped, waiting producers notified, the mutex released.*)
Swap ==
  /\ pc[Worker] = "swap"
  /\ con' = pro /\ pro' = con
  /\ mutex' = Free
  /\ GotoAndWake(Worker, "call", IF type = "ASYNC_SAFE" THEN Producer ELSE {})
  /\ UNCHANGED <<environment, next, stop, output>>

(* _callBack, AsyncLogger::reallog: every sink gets the whole buffer, and  *)
(* an empty one too.                                                       *)
CallBack ==
  /\ pc[Worker] = "call"
  /\ output' = output \o con.data
  /\ Goto(Worker, "reset")
  /\ UNCHANGED <<environment, next, mutex, stop, pro, con>>

(* Variant with a fault: the consumed buffer is swapped back as it is. *)
ResetNothing ==
  /\ pc[Worker] = "reset"
  /\ Goto(Worker, "lock")
  /\ UNCHANGED <<environment, next, mutex, stop, pro, con, output>>

ResetCon ==
  /\ pc[Worker] = "reset"
  /\ con' = Reset(con)
  /\ Goto(Worker, "lock")
  /\ UNCHANGED <<environment, next, mutex, stop, pro, output>>

-----------------------------------------------------------------------------
(* stop(), from the destructor: nobody holds a reference any more.  It     *)
(* takes no mutex.                                                         *)

SetStop ==
  /\ pc[Owner] = "own"
  /\ \A p \in Producer : pc[p] = "idle"
  /\ stop' = TRUE
  /\ Goto(Owner, "notify")
  /\ UNCHANGED <<environment, next, mutex, pro, con, output>>

(* Variant with a fault: nobody is notified. *)
NotifyNobody ==
  /\ pc[Owner] = "notify"
  /\ Goto(Owner, "join")
  /\ UNCHANGED <<environment, next, mutex, stop, pro, con, output>>

NotifyAll ==
  /\ pc[Owner] = "notify"
  /\ GotoAndWake(Owner, "join", {Worker})
  /\ UNCHANGED <<environment, next, mutex, stop, pro, con, output>>

Join ==
  /\ pc[Owner] = "join"
  /\ pc[Worker] = "exit"
  /\ Goto(Owner, "joined")
  /\ UNCHANGED <<environment, next, mutex, stop, pro, con, output>>

-----------------------------------------------------------------------------
ProducerStep(p) == Lock(p) \/ WaitForRoom(p) \/ Push(p)
WorkerStep == \/ Lock(Worker) \/ Break \/ Predicate \/ Block \/ Swap
              \/ CallBack \/ ResetCon
OwnerStep  == NotifyAll \/ Join

Next == \/ \E p \in Producer : Call(p) \/ ProducerStep(p)
        \/ WorkerStep
        \/ SetStop \/ OwnerStep
        \/ \E t \in Thread : SpuriousWakeup(t)

Spec == Init /\ [][Next]_vars

(* A thread that can run does run, the mutex promises no order, spurious   *)
(* wake-ups are finite in number, and nobody need log or stop.             *)
Fairness == /\ \A p \in Producer : WF_vars(ProducerStep(p))
            /\ WF_vars(WorkerStep) /\ WF_vars(OwnerStep)
            /\ <>[][~ \E t \in Thread : SpuriousWakeup(t)]_vars
FairSpec == Spec /\ Fairness

-----------------------------------------------------------------------------
(* Properties *)

TypeOK ==
  /\ type \in LooperType /\ work \in Workload
  /\ pc \in [Thread -> ProducerPc \cup WorkerPc \cup OwnerPc]
  /\ \A p \in Producer : pc[p] \in ProducerPc
  /\ pc[Worker] \in WorkerPc /\ pc[Owner] \in OwnerPc
  /\ next \in [Producer -> Nat \ {0}]
  /\ mutex \in Thread \cup {Free} /\ stop \in BOOLEAN
  /\ pro \in BufferOf(Message) /\ con \in BufferOf(Message)
  /\ output \in Seq(Message)

(* The mutex is held by exactly the thread that is inside it. *)
Critical(t) == pc[t] \in {"push", "break", "pred", "block", "swap"}
MutexInv == \A t \in Thread : mutex = t <=> Critical(t)

(* moveWriter's assertion and more: the indices of both buffers stay in    *)
(* bounds however they grow and are swapped, an index tells an empty       *)
(* buffer from one with messages, and in the mode that promises to bound   *)
(* memory no buffer ever grows.                                            *)
InBounds(b) ==
  /\ b.reader_idx = 0 /\ b.writer_idx <= b.size
  /\ b.writer_idx = 0 <=> b.data = <<>>
BuffersInBounds ==
  /\ InBounds(pro) /\ InBounds(con)
  /\ type = "ASYNC_SAFE" => /\ pro.size = DEFAULT_BUFFER_SIZE
                            /\ con.size = DEFAULT_BUFFER_SIZE

(* Nobody sleeps without a cause: while the worker waits nothing is in     *)
(* _pro_buf, and while a producer waits its message does not fit, although *)
(* signals are sent to threads that may not be there yet.                  *)
SleepHasCause ==
  /\ pc[Worker] \in {"wait", "block"} => Empty(pro)
  /\ \A p \in Producer : pc[p] = "wait" => ~HasRoom(p)

(* The messages in _con_buf that are still to be written. *)
Unwritten == IF pc[Worker] = "call" THEN con.data ELSE <<>>
Pending == Unwritten \o pro.data

(* _con_buf is empty except from the swap to the reset, and a worker that  *)
(* is told to stop leaves nothing behind.                                  *)
ConsumedIsReset ==
  /\ pc[Worker] \notin {"call", "reset"} => Empty(con)
  /\ pc[Worker] = "exit" => stop /\ Pending = <<>>

(* Producers that have no reference any more when the owner stops. *)
StopInv == /\ stop <=> pc[Owner] # "own"
           /\ stop => \A p \in Producer : pc[p] = "idle"
           /\ \A p \in Producer : pc[p] # "idle" => next[p] \in 1..Len(work[p])

IInv == /\ TypeOK /\ MutexInv /\ BuffersInBounds /\ SleepHasCause
        /\ ConsumedIsReset /\ StopInv

(* Of every producer, the sinks and the buffers hold the messages it has   *)
(* pushed, each of them once, in the order it pushed them.                 *)
Accepted == output \o Pending
From(p) == {i \in DOMAIN Accepted : Accepted[i].by = p}
OwnOrder ==
  \A p \in Producer :
    /\ {Accepted[i] : i \in From(p)} = {MessageOf(p, n) : n \in 1..(next[p] - 1)}
    /\ \A i, j \in From(p) : i < j => Accepted[i].no < Accepted[j].no

(* The looper implements LogStream: each message once, in order of         *)
(* acceptance, all of them before the thread ends.                         *)
S == INSTANCE LogStream WITH pending <- Pending, written <- output,
                             closed <- pc[Worker] = "exit"
ImplementsLogStream == S!StreamSpec

(* push() returns, provided that the message fits into an empty buffer or  *)
(* buffers may grow.  Only others whose pushes are accepted again and      *)
(* again can keep a caller waiting for ever: neither the mutex nor         *)
(* _cond_pro lets anybody in before them.                                  *)
OthersRest(p) == <>[][\A q \in Producer \ {p} : next'[q] = next[q]]_vars
PushReturns ==
  \A p \in Producer :
    OthersRest(p) =>
      (/\ pc[p] = "lock"
       /\ type = "ASYNC_SAFE" => Current(p).len <= DEFAULT_BUFFER_SIZE
       ~> pc[p] = "idle")

(* What has been pushed is written, whether or not the worker is stopped.  *)
PushedIsWritten ==
  \A p \in Producer : \A n \in UNION {DOMAIN w[p] : w \in Workload} :
    next[p] > n ~> \E i \in 1..Len(output) : output[i].by = p /\ output[i].no = n

(* A worker that is not about to go to sleep when stop() sets the flag     *)
(* ends, and stop() returns, although neither takes the mutex.             *)
StopWakes ==
  (pc[Owner] = "notify" /\ pc[Worker] # "block") ~> pc[Owner] = "joined"

(* looper.hpp:39 says that notify_all wakes the worker, :40 that the owner *)
(* waits for its exit.                                                     *)
StopReturns == stop ~> pc[Owner] = "joined"
=============================================================================
