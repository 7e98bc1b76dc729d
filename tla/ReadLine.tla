------------------------------ MODULE ReadLine ------------------------------
(***************************************************************************)
(* Utill::ReadLine, called again and again on one connection: it reads a   *)
(* line byte by byte and turns \r\n and \r into \n, looking one byte ahead *)
(* without consuming it.  The client sends at its own pace, so each recv() *)
(* may find the socket empty and block, and may close at any moment.       *)
(***************************************************************************)
EXTENDS Naturals, Sequences, FiniteSets, SequencesExt

CONSTANTS CR, LF, Char,   \* the two terminators, and every other byte
          MaxBytes        \* bound on what the client sends

Byte == {CR, LF} \cup Char

ASSUME ReadLineAssumption == CR # LF /\ {CR, LF} \cap Char = {} /\ MaxBytes \in Nat

VARIABLES
  sent,    \* the bytes the client has sent
  closed,  \* the client has closed its side
  pos,     \* how many of them recv() has consumed
  pc,      \* the recv() the call is at: "recv", "peek" or "eat"; or "done"
  out,     \* the line being read
  lines    \* the lines returned so far

vars == <<sent, closed, pos, pc, out, lines>>

Init == /\ sent = <<>> /\ closed = FALSE
        /\ pos = 0 /\ pc = "recv" /\ out = <<>> /\ lines = <<>>

-----------------------------------------------------------------------------
Send(b) ==
  /\ ~closed /\ Len(sent) < MaxBytes
  /\ sent' = Append(sent, b)
  /\ UNCHANGED <<closed, pos, pc, out, lines>>

CloseSide ==
  /\ ~closed
  /\ closed' = TRUE
  /\ UNCHANGED <<sent, pos, pc, out, lines>>

Ready   == pos < Len(sent)
NextByte == sent[pos + 1]
Empty   == ~Ready /\ closed

(* push_back of a \n ends the call: the line is returned, and the caller   *)
(* calls again.                                                            *)
Return == /\ lines' = Append(lines, Append(out, LF))
          /\ out' = <<>>
          /\ pc' = "recv"

(* Variant with a fault: a \n that does not follow a \r is kept as text. *)
RecvAsText ==
  /\ pc = "recv" /\ Ready /\ NextByte # CR
  /\ pos' = pos + 1
  /\ out' = Append(out, NextByte)
  /\ UNCHANGED <<sent, closed, pc, lines>>

(* Line 21 takes a byte that is neither terminator, or a \n. *)
RecvByte ==
  /\ pc = "recv" /\ Ready /\ NextByte # CR
  /\ pos' = pos + 1
  /\ IF NextByte = LF THEN Return
     ELSE out' = Append(out, NextByte) /\ UNCHANGED <<pc, lines>>
  /\ UNCHANGED <<sent, closed>>

(* Line 21 takes a \r. *)
RecvCR ==
  /\ pc = "recv" /\ Ready /\ NextByte = CR
  /\ pos' = pos + 1
  /\ pc' = "peek"
  /\ UNCHANGED <<sent, closed, out, lines>>

(* Line 21 finds the connection closed: ReadLine returns 0, what was read  *)
(* of the line is not used.                                                *)
RecvClosed ==
  /\ pc = "recv" /\ Empty
  /\ pc' = "done"
  /\ UNCHANGED <<sent, closed, pos, out, lines>>

(* The recv() with MSG_PEEK at line 27: a \n is seen, and left there. *)
PeekLF ==
  /\ pc = "peek" /\ Ready /\ NextByte = LF
  /\ pc' = "eat"
  /\ UNCHANGED <<sent, closed, pos, out, lines>>

(* Variant with a fault: without MSG_PEEK the byte is gone. *)
PeekTakes ==
  /\ pc = "peek" /\ Ready /\ NextByte # LF
  /\ pos' = pos + 1
  /\ Return
  /\ UNCHANGED <<sent, closed>>

(* Another byte is seen, and left for the next line. *)
PeekOther ==
  /\ pc = "peek" /\ Ready /\ NextByte # LF
  /\ Return
  /\ UNCHANGED <<sent, closed, pos>>

(* Nothing is seen, ch is still the \r: it ends the line too. *)
PeekClosed ==
  /\ pc = "peek" /\ Empty
  /\ Return
  /\ UNCHANGED <<sent, closed, pos>>

(* Line 30 consumes the \n. *)
EatLF ==
  /\ pc = "eat"
  /\ pos' = pos + 1
  /\ Return
  /\ UNCHANGED <<sent, closed>>

-----------------------------------------------------------------------------
Step == RecvByte \/ RecvCR \/ RecvClosed \/ PeekLF \/ PeekOther \/ PeekClosed \/ EatLF
Next == (\E b \in Byte : Send(b)) \/ CloseSide \/ Step
Spec == Init /\ [][Next]_vars

(* The reader runs when a byte or an end of file is there; nothing makes   *)
(* the client send or close.                                               *)
FairSpec == Spec /\ WF_vars(Step)

-----------------------------------------------------------------------------
(* The reference: every \r and every \n that does not follow a \r ends a   *)
(* line; a \n after a \r belongs to it.                                    *)
Counts(s, i) == ~(s[i] = LF /\ i > 1 /\ s[i - 1] = CR)
Normal(s) ==
  FlattenSeq([i \in 1..Len(s) |-> IF ~Counts(s, i) THEN <<>>
                                  ELSE <<IF s[i] = CR THEN LF ELSE s[i]>>])

(* Every variable has its type, and a returned line has one terminator, at *)
(* its end.                                                                *)
TypeOK ==
  /\ sent \in Seq(Byte) /\ closed \in BOOLEAN
  /\ pos \in 0..Len(sent) /\ pc \in {"recv", "peek", "eat", "done"}
  /\ out \in Seq(Char) /\ lines \in Seq(Seq(Byte))
  /\ \A i \in 1..Len(lines) :
       lines[i] # <<>> /\ Last(lines[i]) = LF /\ Front(lines[i]) \in Seq(Char)

(* Whatever the timing, the lines are those of the reference: no byte is   *)
(* lost, read twice or taken from the next line, and no empty line appears *)
(* between \r and \n.                                                      *)
LinesMatch ==
  FlattenSeq(lines) \o out =
    Normal(SubSeq(sent, 1, IF pc \in {"peek", "eat"} THEN pos - 1 ELSE pos))

(* What the recv() with MSG_PEEK leaves behind: between lines the byte    *)
(* read last is a \r only if no \n follows it, now or ever.                *)
LooksAhead ==
  /\ pc \in {"peek", "eat"} => pos > 0 /\ sent[pos] = CR
  /\ pc = "eat" => pos < Len(sent) /\ sent[pos + 1] = LF
  /\ pc = "recv" /\ pos > 0 /\ sent[pos] = CR =>
       IF pos < Len(sent) THEN sent[pos + 1] # LF ELSE closed

(* The inductive invariant of the reader. *)
LineIInv == TypeOK /\ LooksAhead /\ LinesMatch

(* A client that has sent a \n gets every line up to it read, without      *)
(* having to send more or to close: the byte ReadLine looks for after a \r *)
(* is never awaited beyond a \n.                                           *)
LinesIn(s, n) ==
  Cardinality({i \in 1..n : i <= Len(s) /\ s[i] \in {CR, LF} /\ Counts(s, i)})
LineReturns ==
  \A i \in 1..MaxBytes :
    (i <= Len(sent) /\ sent[i] = LF) ~> Len(lines) >= LinesIn(sent, i)
=============================================================================
