--------------------------- MODULE RollBySizeSink ---------------------------
(***************************************************************************)
(* mylog::RollBySizeSink and FileSink: an ofstream opened in append mode,  *)
(* with the bytes that it has not yet passed to the system.  The rolling   *)
(* sink goes on to a new file when the one it writes has reached its size. *)
(* Files outlive the process; disk maps the names of those that exist to   *)
(* what is in them.                                                        *)
(***************************************************************************)
EXTENDS Naturals, Sequences, SequencesExt

CONSTANTS MaxSize  \* _max_fsize

ASSUME SinkAssumption == MaxSize \in Nat \ {0}

SinkKind == {"file", "roll"}

(* The decimal digits of a number, without leading zeroes. *)
Digits[n \in Nat] == IF n < 10 THEN <<n>> ELSE Append(Digits[n \div 10], n % 10)

(* Year, month, day, hour, minute, second, as printed one after the other. *)
Stamp(tm) == FlattenSeq([i \in 1..Len(tm) |-> Digits[tm[i]]])

(* A dash separates the stamp from the count.  The name of a FileSink is   *)
(* the caller's, and has no stamp.                                         *)
FixedName == [stamp |-> <<>>, count |-> 0]

(* A sink with no file yet.  Four histories: said has, for each byte it    *)
(* was told to write, the message that the byte is of; files the names it  *)
(* has opened, and starts how many bytes it had been told by then; dropped *)
(* which bytes a close() has failed to write.                              *)
NoSink(kind) == [kind |-> kind, files |-> <<>>, starts |-> <<>>, name_count |-> 0,
                 cur_fsize |-> 0, unflushed |-> <<>>, said |-> <<>>, dropped |-> {}]

(* A file is opened. *)
WithFile(s, name) == [s EXCEPT !.files = Append(@, name),
                               !.starts = Append(@, Len(s.said))]

(* Variant with a fault: the count stays. *)
CreatSameFile(s, tm) ==
  WithFile(s, [stamp |-> Stamp(tm), count |-> s.name_count])

(* The name of the next file is made from the time and the count. *)
CreatNewFile(s, tm) ==
  [WithFile(s, [stamp |-> Stamp(tm), count |-> s.name_count])
     EXCEPT !.name_count = @ + 1]

CurrentFile(s) == Last(s.files)

(* open() in append mode creates the file or leaves its contents alone. *)
OpenAppend(disk, name) ==
  [f \in DOMAIN disk \cup {name} |-> IF f \in DOMAIN disk THEN disk[f] ELSE <<>>]

(* The constructors: the first file, and nothing counted as written. *)
Construct(kind, tm) ==
  IF kind = "roll" THEN CreatNewFile(NoSink(kind), tm)
  ELSE WithFile(NoSink(kind), FixedName)

IsFull(s) == s.kind = "roll" /\ s.cur_fsize >= MaxSize

(* The stream passes n bytes, or all it has, to the system. *)
Flush(disk, s, n) ==
  [disk EXCEPT ![CurrentFile(s)] = @ \o SubSeq(s.unflushed, 1, n)]
Flushed(s, n) == [s EXCEPT !.unflushed = SubSeq(@, n + 1, Len(@))]

(* How many of the bytes it was told to write have left its buffer. *)
PassedOn(s) == Len(s.said) - Len(s.unflushed)

(* The stream is closed, and with its buffer go the bytes that the system  *)
(* has not taken.                                                          *)
Closed(s) == [s EXCEPT !.unflushed = <<>>,
                       !.dropped = @ \cup ((PassedOn(s) + 1)..Len(s.said))]

OpenNext(s, tm) == [CreatNewFile(s, tm) EXCEPT !.cur_fsize = 0]

(* The n-th byte that sink k is told to write. *)
ByteOf(k, n) == [sink |-> k, pos |-> n]

(* write() of len bytes of a message into the stream's buffer. *)
Put(k, s, message, len) ==
  [s EXCEPT !.unflushed = @ \o [i \in 1..len |-> ByteOf(k, Len(s.said) + i)],
            !.said = @ \o [i \in 1..len |-> message],
            !.cur_fsize = @ + len]
=============================================================================
