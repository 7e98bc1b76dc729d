------------------------------- MODULE Buffer -------------------------------
(***************************************************************************)
(* mylog::Buffer: a vector of bytes with a read and a write index, not a   *)
(* ring.  The bytes between the indices are whole messages, kept here as   *)
(* the sequence of those messages; a message m has m.len bytes.            *)
(***************************************************************************)
EXTENDS Naturals, Sequences

CONSTANTS DEFAULT_BUFFER_SIZE, THRESHOLD_BUFFER_SIZE, INCREMENT_BUFFER_SIZE

ASSUME BufferAssumption ==
  /\ DEFAULT_BUFFER_SIZE \in Nat \ {0}
  /\ THRESHOLD_BUFFER_SIZE \in Nat /\ INCREMENT_BUFFER_SIZE \in Nat

(* Buffers that hold messages of set M. *)
BufferOf(M) == [size : Nat, reader_idx : Nat, writer_idx : Nat, data : Seq(M)]

NewBuffer == [size |-> DEFAULT_BUFFER_SIZE, reader_idx |-> 0, writer_idx |-> 0,
              data |-> <<>>]

WriteAbleSize(b) == b.size - b.writer_idx
Empty(b) == b.reader_idx = b.writer_idx

(* Variant with a fault: the new size does not allow for the message. *)
EnsureLargerSize(b, len) ==
  IF len <= WriteAbleSize(b) THEN b
  ELSE [b EXCEPT !.size = IF @ < THRESHOLD_BUFFER_SIZE THEN @ * 2
                          ELSE @ + INCREMENT_BUFFER_SIZE]

(* Room for len more bytes: double below the threshold, grow by the        *)
(* increment from there on, and by len in either case.                     *)
EnsureEnoughSize(b, len) ==
  IF len <= WriteAbleSize(b) THEN b
  ELSE [b EXCEPT !.size = (IF @ < THRESHOLD_BUFFER_SIZE THEN @ * 2
                           ELSE @ + INCREMENT_BUFFER_SIZE) + len]

PushMessage(b, m) ==
  [EnsureEnoughSize(b, m.len) EXCEPT !.writer_idx = @ + m.len,
                                     !.data = Append(@, m)]

(* reset() moves the indices only: size stays what it has grown to. *)
Reset(b) == [b EXCEPT !.reader_idx = 0, !.writer_idx = 0, !.data = <<>>]
=============================================================================
