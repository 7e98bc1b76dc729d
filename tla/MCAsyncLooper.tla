---------------------------- MODULE MCAsyncLooper ---------------------------
(* Small instances of AsyncLooper: two producers, buffers of two bytes.    *)
EXTENDS AsyncLooper

CONSTANTS p1, p2

TwoProducers == {p1, p2}

(* Messages that fill the buffer, share it, grow it below and above the    *)
(* threshold, or never fit into it; and a producer that logs nothing.      *)
Loads == {[p \in TwoProducers |-> IF p = p1 THEN s ELSE t] :
            s \in {<<1, 2>>, <<3, 1, 2>>}, t \in {<<>>, <<2, 1>>, <<1, 3>>}}

(* For producers that go on for ever: messages that leave room, that fill  *)
(* the buffer, and that never fit.                                         *)
EndlessLoads == {[p \in TwoProducers |-> IF p = p1 THEN s ELSE <<1, 2>>] :
                   s \in {<<2>>, <<1>>, <<3>>}}

ShortLoads == {[p \in TwoProducers |-> IF p = p1 THEN <<1>> ELSE <<>>]}

(* A producer that has logged all of its messages logs them once more;     *)
(* what has been written by then is forgotten.                             *)
Again(p) ==
  /\ pc[p] = "idle" /\ pc[Owner] = "own"
  /\ next[p] = Len(work[p]) + 1
  /\ next' = [next EXCEPT ![p] = 1]
  /\ output' = <<>>
  /\ UNCHANGED <<environment, pc, mutex, stop, pro, con>>

BusyNext == Next \/ \E p \in Producer : Again(p)
BusySpec == Init /\ [][BusyNext]_vars /\ Fairness
=============================================================================
