------------------------------ MODULE Dispatch ------------------------------
(***************************************************************************)
(* What the accept loop and the thread pool promise together: connections  *)
(* are served in the order they were accepted, each by exactly one worker, *)
(* and none is lost.  There are no threads, locks or wake-ups here; module *)
(* ThreadPool is shown to implement this one.                              *)
(***************************************************************************)
EXTENDS Naturals, Sequences

CONSTANTS Worker,   \* the threads of the pool
          Sock,     \* descriptors accept() can return
          NoSock    \* a worker that serves no connection

VARIABLES backlog,  \* accepted connections no worker has taken, oldest first
          serving   \* the connection each worker serves

dvars == <<backlog, serving>>

InService(s) == \E w \in Worker : serving[w] = s
InBacklog(s) == \E i \in 1..Len(backlog) : backlog[i] = s

DispatchInit == /\ backlog = <<>>
                /\ serving = [w \in Worker |-> NoSock]

(* A client connects.  A descriptor in use is not handed out again. *)
Connect(s) == /\ ~InService(s) /\ ~InBacklog(s)
              /\ backlog' = Append(backlog, s)
              /\ UNCHANGED serving

(* An idle worker takes the oldest connection. *)
Assign(w) == /\ serving[w] = NoSock
             /\ backlog # <<>>
             /\ serving' = [serving EXCEPT ![w] = Head(backlog)]
             /\ backlog' = Tail(backlog)

(* The worker is done with its connection. *)
Complete(w) == /\ serving[w] # NoSock
               /\ serving' = [serving EXCEPT ![w] = NoSock]
               /\ UNCHANGED backlog

DispatchNext == \/ \E s \in Sock : Connect(s)
                \/ \E w \in Worker : Assign(w) \/ Complete(w)

DispatchSpec == DispatchInit /\ [][DispatchNext]_dvars
=============================================================================
