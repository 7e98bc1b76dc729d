----------------------------- MODULE LogStream ------------------------------
(***************************************************************************)
(* What an asynchronous logger promises its callers: the messages they     *)
(* hand over are written in the order in which they were accepted, each    *)
(* of them once, in one or more at a time, and the stream is closed only   *)
(* when nothing is left to write.                                          *)
(***************************************************************************)
EXTENDS Naturals, Sequences

CONSTANT Message

VARIABLES pending,  \* accepted, not yet written
          written,  \* handed to the sinks
          closed    \* nothing more is accepted or written

streamVars == <<pending, written, closed>>

StreamInit == pending = <<>> /\ written = <<>> /\ closed = FALSE

(* One more message, any message, at the end. *)
Accept ==
  /\ ~closed
  /\ Len(pending') = Len(pending) + 1
  /\ LET m == pending'[Len(pending) + 1]
     IN  m \in Message /\ pending' = Append(pending, m)
  /\ UNCHANGED <<written, closed>>

(* The n oldest messages go out together. *)
Write(n) ==
  /\ written' = written \o SubSeq(pending, 1, n)
  /\ pending' = SubSeq(pending, n + 1, Len(pending))
  /\ UNCHANGED closed

Close ==
  /\ pending = <<>>
  /\ closed' = TRUE
  /\ UNCHANGED <<pending, written>>

StreamNext == \/ Accept
              \/ \E n \in 1..Len(pending) : Write(n)
              \/ Close

StreamSpec == StreamInit /\ [][StreamNext]_streamVars
=============================================================================
